------------------------- MODULE UartCaptureProofs -------------------------
(***************************************************************************)
(* Proofs about UartCapture, for a ring of any size, a receive FIFO of any *)
(* depth and a line of any length.  LineMovesOn is the core of the         *)
(* promise that no byte waits for ever.                                    *)
(***************************************************************************)
EXTENDS UartCapture, TLAPS, SequenceTheorems

(***************************************************************************)
(* The inductive invariant.  Control relates the foreground's place to the *)
(* mode: the interrupt polls only during a capture, a read of the ring is  *)
(* under way only then, and the local copies are still what they copy.     *)
(* RxOrder and RingOrder say that the bytes increase from the byte         *)
(* returned last, through the ring, to the receive FIFO.                   *)
(***************************************************************************)
Control ==
    /\ in_isr => enabled
    /\ pc \in {"compare", "read", "advance"} => enabled /\ read_tail = tail
    /\ pc \in {"direct", "drain", "discard"} => ~enabled
    /\ pc \in {"read", "advance"} => head # tail
    /\ pc = "advance" => value = buffer[tail]
    /\ pc \in {"drain", "discard"} => head = tail

RxOrder ==
    /\ last_console <= sent
    /\ opened <= sent
    /\ \A i \in 1 .. Len(rx) : rx[i] <= sent /\ last_console < rx[i]
    /\ \A i, j \in 1 .. Len(rx) : i < j => rx[i] < rx[j]

RingOrder ==
    enabled =>
        /\ \A i \in 1 .. Len(rx) : opened < rx[i]
        /\ \A k \in 1 .. Count : opened < Captured[k]
        /\ \A k \in 1 .. Count : last_console < Captured[k]
        /\ \A k, l \in 1 .. Count : k < l => Captured[k] < Captured[l]
        /\ \A k \in 1 .. Count : \A i \in 1 .. Len(rx) : Captured[k] < rx[i]
        /\ \A k \in 1 .. Count : Captured[k] <= sent

IInv == TypeOK /\ NoEmptyRead /\ Control /\ RxOrder /\ RingOrder

----------------------------------------------------------------------------
(***************************************************************************)
(* Sequences.                                                              *)
(***************************************************************************)

\* A function on 1 .. n is a sequence of length n.
LEMMA FunctionIsSeq ==
    ASSUME NEW S, NEW n \in Nat, NEW f \in [1 .. n -> S]
    PROVE  f \in Seq(S) /\ Len(f) = n
<1>1. f \in Seq(S)
    BY SeqDef
<1>2. 1 .. Len(f) = 1 .. n /\ Len(f) \in Nat
    BY <1>1, LenProperties
<1> QED BY <1>1, <1>2

\* The head of a sequence that is not empty is its first element.
LEMMA FirstOfSeq ==
    ASSUME NEW S, NEW s \in Seq(S), s # <<>>
    PROVE  Head(s) = s[1] /\ s[1] \in S /\ Len(s) \in Nat /\ Len(s) > 0
<1>1. Len(s) \in Nat /\ Len(s) > 0
    BY EmptySeq
<1>2. Head(s) = s[1]
    OBVIOUS
<1> QED BY <1>1, <1>2, ElementOfSeq

----------------------------------------------------------------------------
(***************************************************************************)
(* The ring.                                                               *)
(***************************************************************************)

\* Masking wraps the last slot to the first.
LEMMA NextSlotWraps ==
    ASSUME NEW i \in Slot
    PROVE  /\ NextSlot(i) = IF i + 1 = CaptureBytes THEN 0 ELSE i + 1
           /\ NextSlot(i) \in Slot
<1>1. CaptureBytes \in Nat /\ CaptureBytes >= 2
    BY CaptureBytesAssumption
<1>2. CASE i + 1 = CaptureBytes
    BY <1>1, <1>2 DEF NextSlot, Slot
<1>3. CASE i + 1 # CaptureBytes
    <2>1. i + 1 \in 0 .. (CaptureBytes - 1)
        BY <1>1, <1>3 DEF Slot
    <2>2. (i + 1) % CaptureBytes = i + 1
        BY <1>1, <2>1
    <2> QED BY <1>1, <1>3, <2>1, <2>2 DEF NextSlot, Slot
<1> QED BY <1>2, <1>3

\* The bytes of the ring are counted between none and all slots but one, and
\* each is the contents of a slot.
LEMMA RingShape ==
    ASSUME TypeOK
    PROVE  /\ Count \in 0 .. (CaptureBytes - 1)
           /\ \A k \in 0 .. (CaptureBytes - 1) : SlotAt(k) \in Slot
           /\ Captured \in Seq(0 .. MaxBytes)
           /\ Len(Captured) = Count
           /\ \A k \in 1 .. Count : Captured[k] = buffer[SlotAt(k - 1)]
           /\ Count = 0 <=> head = tail
           /\ NextSlot(head) = tail <=> Count = CaptureBytes - 1
<1>1. CaptureBytes \in Nat /\ CaptureBytes >= 2
    BY CaptureBytesAssumption
<1>2. head \in Slot /\ tail \in Slot /\ buffer \in [Slot -> 0 .. MaxBytes]
    BY DEF TypeOK
<1>3. Count \in 0 .. (CaptureBytes - 1)
    BY <1>1, <1>2 DEF Count, Slot
<1>4. \A k \in 0 .. (CaptureBytes - 1) : SlotAt(k) \in Slot
    BY <1>1, <1>2 DEF SlotAt, Slot
<1>5. \A k \in 1 .. Count : buffer[SlotAt(k - 1)] \in 0 .. MaxBytes
    BY <1>1, <1>2, <1>3, <1>4
<1>6. Captured \in Seq(0 .. MaxBytes) /\ Len(Captured) = Count
    BY <1>3, <1>5 DEF Captured
<1>7. Count = 0 <=> head = tail
    BY <1>1, <1>2 DEF Count, Slot
<1>8. NextSlot(head) = IF head + 1 = CaptureBytes THEN 0 ELSE head + 1
    BY <1>2, NextSlotWraps
<1>9. NextSlot(head) = tail <=> Count = CaptureBytes - 1
    BY <1>1, <1>2, <1>8 DEF Count, Slot
<1> QED BY <1>3, <1>4, <1>6, <1>7, <1>9 DEF Captured


\* What the interrupt stores becomes the last byte of the ring.
LEMMA StoreAppends ==
    ASSUME TypeOK, IsrStores
    PROVE  /\ Count' = Count + 1
           /\ \A k \in 1 .. Count : Captured'[k] = Captured[k]
           /\ Captured'[Count + 1] = Head(rx)
           /\ Captured' = Append(Captured, Head(rx))
<1> DEFINE b == Head(rx)
<1>1. CaptureBytes \in Nat /\ CaptureBytes >= 2
    BY CaptureBytesAssumption
<1>2. head \in Slot /\ tail \in Slot /\ buffer \in [Slot -> 0 .. MaxBytes]
    BY DEF TypeOK
<1>3. /\ head' = IF head + 1 = CaptureBytes THEN 0 ELSE head + 1
      /\ head' \in Slot
      /\ tail' = tail
      /\ head' # tail
    BY <1>2, NextSlotWraps DEF IsrStores
<1>4. buffer' = [buffer EXCEPT ![head] = b]
    BY DEF IsrStores, FrontByte
<1>5. Count' = Count + 1
    BY <1>1, <1>2, <1>3 DEF Count, Slot
<1>6. /\ Count \in 0 .. (CaptureBytes - 1)
      /\ \A k \in 1 .. Count : Captured[k] = buffer[SlotAt(k - 1)]
      /\ Captured \in Seq(0 .. MaxBytes) /\ Len(Captured) = Count
    BY RingShape
<1>7. \A k \in 0 .. (CaptureBytes - 1) : SlotAt(k)' = SlotAt(k) /\ SlotAt(k) \in Slot
    BY <1>1, <1>2, <1>3 DEF SlotAt, Slot
<1>8. SlotAt(Count) = head
    BY <1>1, <1>2 DEF SlotAt, Count, Slot
<1>9. ASSUME NEW k \in 0 .. (Count - 1) PROVE SlotAt(k) # head
    BY <1>1, <1>2, <1>6 DEF SlotAt, Count, Slot
<1>10. Captured' = [k \in 1 .. (Count + 1) |-> buffer'[SlotAt(k - 1)']]
    BY <1>5 DEF Captured
<1>11. ASSUME NEW k \in 1 .. Count PROVE Captured'[k] = Captured[k]
    <2>1. k \in 1 .. (Count + 1) /\ k - 1 \in 0 .. (Count - 1)
          /\ k - 1 \in 0 .. (CaptureBytes - 1)
        BY <1>1, <1>6
    <2>2. buffer'[SlotAt(k - 1)] = buffer[SlotAt(k - 1)]
        BY <1>2, <1>4, <1>7, <1>9, <2>1
    <2> QED BY <1>6, <1>7, <1>10, <2>1, <2>2
<1>12. Captured'[Count + 1] = b
    <2>1. Count + 1 \in 1 .. (Count + 1) /\ (Count + 1) - 1 = Count
          /\ Count \in 0 .. (CaptureBytes - 1)
        BY <1>1, <1>6
    <2>2. buffer'[head] = b
        BY <1>2, <1>4
    <2> QED BY <1>7, <1>8, <1>10, <2>1, <2>2
<1>13. /\ b \in 0 .. MaxBytes
       /\ Append(Captured, b) \in Seq(0 .. MaxBytes)
       /\ Len(Append(Captured, b)) = Count + 1
       /\ \A k \in 1 .. Count : Append(Captured, b)[k] = Captured[k]
       /\ Append(Captured, b)[Count + 1] = b
    <2>1. b \in 0 .. MaxBytes
        BY MaxBytesAssumption, HeadTailProperties DEF TypeOK, IsrStores
    <2> QED BY <1>6, <2>1, AppendProperties
<1>14. Captured' = Append(Captured, b)
    <2>1. Captured' \in Seq(0 .. MaxBytes) /\ Len(Captured') = Count + 1
        <3>1. \A k \in 1 .. (Count + 1) : buffer'[SlotAt(k - 1)'] \in 0 .. MaxBytes
            <4>1. buffer' \in [Slot -> 0 .. MaxBytes]
                BY <1>2, <1>4, <1>13
            <4>2. \A k \in 1 .. (Count + 1) : k - 1 \in 0 .. (CaptureBytes - 1)
                BY <1>1, <1>6
            <4> QED BY <1>7, <4>1, <4>2
        <3>2. Count + 1 \in Nat
            BY <1>1, <1>6
        <3>3. Captured' \in [1 .. (Count + 1) -> 0 .. MaxBytes]
            BY <1>10, <3>1
        <3> QED BY <3>2, <3>3, FunctionIsSeq
    <2>2. ASSUME NEW k \in 1 .. (Count + 1)
          PROVE  Captured'[k] = Append(Captured, b)[k]
        <3>1. CASE k = Count + 1
            BY <1>12, <1>13, <3>1
        <3>2. CASE k # Count + 1
            BY <1>6, <1>11, <1>13, <3>2
        <3> QED BY <3>1, <3>2
    <2> QED BY <1>13, <2>1, <2>2, SeqEqual
<1> QED BY <1>5, <1>11, <1>12, <1>14

\* Moving the tail on takes the first byte off the ring.
LEMMA AdvanceTakesFirst ==
    ASSUME TypeOK, Control, GetcAdvance
    PROVE  /\ Count \in Nat /\ Count > 0
           /\ Captured[1] = value
           /\ Count' = Count - 1
           /\ \A k \in 1 .. Count' : Captured'[k] = Captured[k + 1]
           /\ Captured' = Tail(Captured)
           /\ Captured # <<>> /\ Head(Captured) = value
<1>1. CaptureBytes \in Nat /\ CaptureBytes >= 2
    BY CaptureBytesAssumption
<1>2. /\ head \in Slot /\ tail \in Slot /\ buffer \in [Slot -> 0 .. MaxBytes]
      /\ head # tail /\ read_tail = tail /\ value = buffer[tail]
    BY DEF TypeOK, Control, GetcAdvance, Foreground
<1>3. /\ tail' = IF tail + 1 = CaptureBytes THEN 0 ELSE tail + 1
      /\ tail' \in Slot
      /\ head' = head /\ buffer' = buffer
    BY <1>2, NextSlotWraps DEF GetcAdvance
<1>4. /\ Count \in 0 .. (CaptureBytes - 1)
      /\ \A k \in 1 .. Count : Captured[k] = buffer[SlotAt(k - 1)]
      /\ Captured \in Seq(0 .. MaxBytes) /\ Len(Captured) = Count
      /\ Count # 0
    BY <1>2, RingShape
<1>5. Count' = Count - 1
    BY <1>1, <1>2, <1>3 DEF Count, Slot
<1>6. SlotAt(0) = tail
    BY <1>1, <1>2 DEF SlotAt, Slot
<1>7. \A k \in 0 .. (CaptureBytes - 2) : SlotAt(k)' = SlotAt(k + 1)
    BY <1>1, <1>2, <1>3 DEF SlotAt, Slot
<1>8. Captured' = [k \in 1 .. (Count - 1) |-> buffer[SlotAt(k - 1)']]
    BY <1>3, <1>5 DEF Captured
<1>9. ASSUME NEW k \in 1 .. (Count - 1) PROVE Captured'[k] = Captured[k + 1]
    <2>1. k - 1 \in 0 .. (CaptureBytes - 2) /\ k + 1 \in 1 .. Count
          /\ (k - 1) + 1 = k /\ (k + 1) - 1 = k
        BY <1>1, <1>4
    <2> QED BY <1>4, <1>7, <1>8, <2>1
<1>10. Captured[1] = value
    <2>1. 1 \in 1 .. Count /\ 1 - 1 = 0
        BY <1>1, <1>4
    <2> QED BY <1>2, <1>4, <1>6, <2>1
<1>11. /\ Captured # <<>>
       /\ Tail(Captured) \in Seq(0 .. MaxBytes)
       /\ Len(Tail(Captured)) = Count - 1
       /\ \A k \in 1 .. (Count - 1) : Tail(Captured)[k] = Captured[k + 1]
    BY <1>4, HeadTailProperties
<1>12. Captured' = Tail(Captured)
    <2>1. Captured' \in Seq(0 .. MaxBytes) /\ Len(Captured') = Count - 1
        <3>1. \A k \in 1 .. (Count - 1) : buffer[SlotAt(k - 1)'] \in 0 .. MaxBytes
            <4>1. \A k \in 1 .. (Count - 1) :
                      /\ k - 1 \in 0 .. (CaptureBytes - 2)
                      /\ (k - 1) + 1 \in 0 .. (CaptureBytes - 1)
                BY <1>1, <1>4
            <4>2. \A k \in 0 .. (CaptureBytes - 1) : SlotAt(k) \in Slot
                BY RingShape
            <4> QED BY <1>2, <1>7, <4>1, <4>2
        <3>2. Count - 1 \in Nat
            BY <1>1, <1>4
        <3>3. Captured' \in [1 .. (Count - 1) -> 0 .. MaxBytes]
            BY <1>8, <3>1
        <3> QED BY <3>2, <3>3, FunctionIsSeq
    <2> QED BY <1>9, <1>11, <2>1, SeqEqual
<1>13. Captured # <<>> /\ Head(Captured) = Captured[1]
    BY <1>4
<1> QED BY <1>4, <1>5, <1>9, <1>10, <1>12, <1>13

\* A step that leaves the ring alone leaves its bytes alone.
LEMMA SameRing ==
    ASSUME UNCHANGED <<head, tail, buffer>>
    PROVE  Count' = Count /\ Captured' = Captured
<1>1. Count' = Count
    BY DEF Count
<1>2. \A k : SlotAt(k)' = SlotAt(k)
    BY DEF SlotAt
<1> QED BY <1>1, <1>2 DEF Captured

\* The receive FIFO, as the reader of its data register leaves it.
LEMMA RxPop ==
    ASSUME TypeOK, rx # <<>>, PopFront
    PROVE  /\ Len(rx) \in Nat /\ Len(rx) > 0
           /\ Len(rx') = Len(rx) - 1
           /\ rx' \in Seq(1 .. MaxBytes) /\ Len(rx') <= RxDepth
           /\ \A i \in 1 .. Len(rx') : rx'[i] = rx[i + 1]
           /\ FrontByte = rx[1] /\ FrontByte = Head(rx)
           /\ FrontByte \in 1 .. MaxBytes
<1>1. rx \in Seq(1 .. MaxBytes) /\ Len(rx) <= RxDepth /\ RxDepth \in Nat
    BY RxDepthAssumption DEF TypeOK
<1>2. rx' = Tail(rx)
    BY DEF PopFront
<1>3. Len(rx) \in Nat /\ Len(rx) > 0 /\ Head(rx) = rx[1] /\ rx[1] \in 1 .. MaxBytes
    BY <1>1, FirstOfSeq
<1>4. Tail(rx) \in Seq(1 .. MaxBytes) /\ Len(Tail(rx)) = Len(rx) - 1
    BY <1>1
<1>5. \A i \in 1 .. (Len(rx) - 1) : Tail(rx)[i] = rx[i + 1]
    BY <1>1, <1>4, HeadTailProperties
<1> QED BY <1>1, <1>2, <1>3, <1>4, <1>5 DEF FrontByte


\* The receive FIFO, after a byte has arrived.
LEMMA RxPush ==
    ASSUME TypeOK, Arrive
    PROVE  /\ Len(rx) \in Nat /\ Len(rx') \in Nat
           /\ rx' \in Seq(1 .. MaxBytes) /\ Len(rx') <= RxDepth
           /\ \A i \in 1 .. Len(rx') :
                  \/ i \in 1 .. Len(rx) /\ rx'[i] = rx[i]
                  \/ i = Len(rx) + 1 /\ rx'[i] = sent + 1
<1>1. /\ rx \in Seq(1 .. MaxBytes) /\ Len(rx) <= RxDepth /\ RxDepth \in Nat
      /\ Len(rx) \in Nat
      /\ sent + 1 \in 1 .. MaxBytes
    BY RxDepthAssumption, MaxBytesAssumption, LenProperties DEF TypeOK, Arrive
<1>2. CASE Len(rx) < RxDepth
    <2>1. rx' = Append(rx, sent + 1)
        BY <1>2 DEF Arrive
    <2> QED BY <1>1, <1>2, <2>1, AppendProperties
<1>3. CASE ~(Len(rx) < RxDepth)
    <2>1. rx' = rx
        BY <1>3 DEF Arrive
    <2> QED BY <1>1, <2>1
<1> QED BY <1>2, <1>3

----------------------------------------------------------------------------
(***************************************************************************)
(* The invariant is inductive.                                             *)
(***************************************************************************)

\* The actions of Next, each by itself.
LEMMA NextActions ==
    ASSUME Next
    PROVE  \/ Arrive \/ TimerFires
           \/ IsrStores \/ IsrOverflows \/ IsrReturns
           \/ GetcCapture \/ GetcCompare \/ GetcRead \/ GetcAdvance
           \/ GetcDirect \/ GetcDirectRead
           \/ CaptureBegin \/ DrainMore \/ DrainByte \/ DrainDone
           \/ CaptureEnd \/ Reset
    BY DEF Next, Isr, Getc, Begin

LEMMA InitInvariant == Init => IInv
<1> SUFFICES ASSUME Init PROVE IInv
    OBVIOUS
<1>1. CaptureBytes \in Nat /\ CaptureBytes >= 2 /\ RxDepth \in Nat /\ MaxBytes \in Nat
    BY CaptureBytesAssumption, RxDepthAssumption, MaxBytesAssumption
<1>2. rx \in Seq(1 .. MaxBytes) /\ Len(rx) = 0
    BY EmptySeq DEF Init
<1>3. TypeOK
    <2>1. /\ sent = 0 /\ in_isr = FALSE /\ enabled = FALSE /\ head = 0 /\ tail = 0
          /\ received = 0 /\ overflows = 0 /\ pc = "idle" /\ read_tail = 0
          /\ value = 0 /\ last_captured = 0 /\ last_console = 0 /\ opened = 0
        BY DEF Init
    <2>2. 0 \in Slot /\ 0 \in 0 .. MaxBytes /\ pc \in PC
        BY <1>1, <2>1 DEF Slot, PC
    <2>3. buffer \in [Slot -> 0 .. MaxBytes]
        BY <2>2 DEF Init
    <2> QED BY <1>1, <1>2, <2>1, <2>2, <2>3 DEF TypeOK
<1>4. NoEmptyRead /\ Control
    BY DEF Init, NoEmptyRead, Control
<1>5. RxOrder
    BY <1>2 DEF Init, RxOrder
<1>6. RingOrder
    BY DEF Init, RingOrder
<1> QED BY <1>3, <1>4, <1>5, <1>6 DEF IInv

\* Every step keeps the types.
LEMMA TypeStep ==
    ASSUME TypeOK, NoEmptyRead, Next
    PROVE  TypeOK'
<1>1. CaptureBytes \in Nat /\ CaptureBytes >= 2 /\ RxDepth \in Nat /\ MaxBytes \in Nat
    BY CaptureBytesAssumption, RxDepthAssumption, MaxBytesAssumption
<1>2. CASE Arrive
    BY <1>1, <1>2, RxPush DEF TypeOK, Arrive, captureVars, readerVars
<1>3. CASE TimerFires
    BY <1>3 DEF TypeOK, TimerFires, captureVars, readerVars
<1>4. CASE IsrStores
    <2>1. rx # <<>> /\ PopFront /\ NextSlot(head) \in Slot
        BY <1>4, NextSlotWraps DEF TypeOK, IsrStores
    <2>2. FrontByte \in 0 .. MaxBytes
        BY <1>1, <2>1, RxPop
    <2> QED BY <1>4, <2>1, <2>2, RxPop DEF TypeOK, IsrStores, readerVars
<1>5. CASE IsrOverflows
    <2>1. rx # <<>> /\ PopFront
        BY <1>5 DEF IsrOverflows
    <2> QED BY <1>5, <2>1, RxPop DEF TypeOK, IsrOverflows, readerVars
<1>6. CASE IsrReturns
    BY <1>6 DEF TypeOK, IsrReturns, captureVars, readerVars
<1>7. CASE GetcCapture
    BY <1>7 DEF TypeOK, GetcCapture, captureVars, PC
<1>8. CASE GetcCompare
    BY <1>8 DEF TypeOK, GetcCompare, captureVars, PC
<1>9. CASE GetcRead
    BY <1>9 DEF TypeOK, GetcRead, captureVars, PC
<1>10. CASE GetcAdvance
    <2>1. NextSlot(read_tail) \in Slot
        BY NextSlotWraps DEF TypeOK
    <2> QED BY <1>10, <2>1 DEF TypeOK, GetcAdvance, PC
<1>11. CASE GetcDirect
    BY <1>11 DEF TypeOK, GetcDirect, captureVars, PC
<1>12. CASE GetcDirectRead
    <2>1. rx # <<>> /\ PopFront
        BY <1>12 DEF GetcDirectRead, NoEmptyRead, Foreground
    <2>2. FrontByte \in 0 .. MaxBytes
        BY <1>1, <2>1, RxPop
    <2> QED BY <1>12, <2>1, <2>2, RxPop DEF TypeOK, GetcDirectRead, captureVars, PC
<1>13. CASE CaptureBegin
    <2>1. 0 \in Slot
        BY <1>1 DEF Slot
    <2> QED BY <1>13, <2>1 DEF TypeOK, CaptureBegin, PC
<1>14. CASE DrainMore
    BY <1>14 DEF TypeOK, DrainMore, captureVars, PC
<1>15. CASE DrainByte
    <2>1. rx # <<>> /\ PopFront
        BY <1>15 DEF DrainByte, NoEmptyRead, Foreground
    <2> QED BY <1>15, <2>1, RxPop DEF TypeOK, DrainByte, captureVars, PC
<1>16. CASE DrainDone
    BY <1>16 DEF TypeOK, DrainDone, PC
<1>17. CASE CaptureEnd
    BY <1>17 DEF TypeOK, CaptureEnd, readerVars
<1>18. CASE Reset
    <2>1. rx' \in Seq(1 .. MaxBytes) /\ Len(rx') = 0
        BY <1>18, EmptySeq DEF Reset
    <2>2. 0 \in Slot /\ 0 \in 0 .. MaxBytes /\ 0 <= RxDepth
        BY <1>1 DEF Slot
    <2>3. buffer' \in [Slot -> 0 .. MaxBytes]
        BY <1>18, <2>2 DEF Reset
    <2>4. /\ sent' = sent /\ last_captured' = last_captured
          /\ last_console' = last_console /\ opened' = opened
        BY <1>18 DEF Reset
    <2>5. /\ in_isr' = FALSE /\ enabled' = FALSE /\ head' = 0 /\ tail' = 0
          /\ received' = 0 /\ overflows' = 0 /\ pc' = "idle"
          /\ read_tail' = 0 /\ value' = 0
        BY <1>18 DEF Reset
    <2> QED BY <2>1, <2>2, <2>3, <2>4, <2>5 DEF TypeOK, PC
<1> QED
    BY NextActions, <1>2, <1>3, <1>4, <1>5, <1>6, <1>7, <1>8, <1>9, <1>10,
       <1>11, <1>12, <1>13, <1>14, <1>15, <1>16, <1>17, <1>18

\* Every step keeps the foreground's place in agreement with the mode.
LEMMA ControlStep ==
    ASSUME TypeOK, NoEmptyRead, Control, Next
    PROVE  NoEmptyRead' /\ Control'
<1>1. CASE Arrive
    <2>1. rx # <<>> => rx' # <<>>
        <3>1. rx \in Seq(1 .. MaxBytes) /\ sent + 1 \in 1 .. MaxBytes
            BY <1>1, MaxBytesAssumption DEF TypeOK, Arrive
        <3> QED BY <1>1, <3>1, AppendProperties DEF Arrive
    <2> QED
        BY <1>1, <2>1 DEF Arrive, NoEmptyRead, Control, captureVars, readerVars
<1>2. CASE TimerFires
    BY <1>2 DEF TimerFires, NoEmptyRead, Control, captureVars, readerVars
<1>3. CASE IsrStores
    <2>1. enabled /\ pc \notin {"direct", "drain", "discard"}
        BY <1>3 DEF IsrStores, Control
    <2>2. head' # tail' /\ tail' = tail /\ enabled' = enabled /\ in_isr' = in_isr
          /\ pc' = pc /\ read_tail' = read_tail /\ value' = value
        BY <1>3 DEF IsrStores, readerVars
    <2>3. pc = "advance" => buffer'[tail] = buffer[tail]
        BY <1>3 DEF IsrStores, Control, TypeOK
    <2> QED BY <2>1, <2>2, <2>3 DEF NoEmptyRead, Control
<1>4. CASE IsrOverflows
    <2>1. enabled /\ pc \notin {"direct", "drain", "discard"}
        BY <1>4 DEF IsrOverflows, Control
    <2> QED BY <1>4, <2>1 DEF IsrOverflows, NoEmptyRead, Control, readerVars
<1>5. CASE IsrReturns
    BY <1>5 DEF IsrReturns, NoEmptyRead, Control, captureVars, readerVars
<1>6. CASE GetcCapture
    BY <1>6 DEF GetcCapture, Foreground, NoEmptyRead, Control, captureVars
<1>7. CASE GetcCompare
    BY <1>7 DEF GetcCompare, Foreground, NoEmptyRead, Control, captureVars
<1>8. CASE GetcRead
    BY <1>8 DEF GetcRead, Foreground, NoEmptyRead, Control, captureVars
<1>9. CASE GetcAdvance
    BY <1>9 DEF GetcAdvance, Foreground, NoEmptyRead, Control
<1>10. CASE GetcDirect
    BY <1>10 DEF GetcDirect, Foreground, NoEmptyRead, Control, captureVars
<1>11. CASE GetcDirectRead
    BY <1>11 DEF GetcDirectRead, Foreground, NoEmptyRead, Control, captureVars
<1>12. CASE CaptureBegin
    BY <1>12 DEF CaptureBegin, Foreground, NoEmptyRead, Control
<1>13. CASE DrainMore
    BY <1>13 DEF DrainMore, Foreground, NoEmptyRead, Control, captureVars
<1>14. CASE DrainByte
    BY <1>14 DEF DrainByte, Foreground, NoEmptyRead, Control, captureVars
<1>15. CASE DrainDone
    BY <1>15 DEF DrainDone, Foreground, NoEmptyRead, Control
<1>16. CASE CaptureEnd
    BY <1>16 DEF CaptureEnd, Foreground, NoEmptyRead, Control, readerVars
<1>17. CASE Reset
    BY <1>17 DEF Reset, NoEmptyRead, Control
<1> QED
    BY NextActions, <1>1, <1>2, <1>3, <1>4, <1>5, <1>6, <1>7, <1>8, <1>9,
       <1>10, <1>11, <1>12, <1>13, <1>14, <1>15, <1>16, <1>17


\* Taking the oldest byte of the receive FIFO leaves the younger ones, still in
\* order and younger than the byte taken.
LEMMA RxPopOrder ==
    ASSUME TypeOK, RxOrder, rx # <<>>, PopFront
    PROVE  /\ FrontByte \in Nat /\ FrontByte <= sent
           /\ last_console < FrontByte
           /\ \A i \in 1 .. Len(rx') : rx'[i] <= sent /\ FrontByte < rx'[i]
           /\ \A i, j \in 1 .. Len(rx') : i < j => rx'[i] < rx'[j]
           /\ \A i \in 1 .. Len(rx') : \E h \in 1 .. Len(rx) : rx'[i] = rx[h]
<1>1. /\ Len(rx) \in Nat /\ Len(rx) > 0 /\ Len(rx') = Len(rx) - 1
      /\ \A i \in 1 .. Len(rx') : rx'[i] = rx[i + 1]
      /\ FrontByte = rx[1] /\ FrontByte \in 1 .. MaxBytes
      /\ rx \in Seq(1 .. MaxBytes)
    BY RxPop DEF TypeOK
<1>2. \A i \in 1 .. Len(rx') : i + 1 \in 1 .. Len(rx) /\ 1 < i + 1
    BY <1>1
<1>3. 1 \in 1 .. Len(rx) /\ MaxBytes \in Nat
    BY <1>1, MaxBytesAssumption
<1>4. \A i \in 1 .. Len(rx') : rx'[i] <= sent /\ FrontByte < rx'[i]
    BY <1>1, <1>2, <1>3 DEF RxOrder
<1>5. \A i, j \in 1 .. Len(rx') : i < j => rx'[i] < rx'[j]
    <2> SUFFICES ASSUME NEW i \in 1 .. Len(rx'), NEW j \in 1 .. Len(rx'), i < j
                 PROVE  rx'[i] < rx'[j]
        OBVIOUS
    <2>1. i + 1 < j + 1
        BY <1>1
    <2> QED BY <1>1, <1>2, <2>1 DEF RxOrder
<1>6. FrontByte \in Nat /\ FrontByte <= sent /\ last_console < FrontByte
    BY <1>1, <1>3 DEF RxOrder
<1> QED BY <1>1, <1>2, <1>4, <1>5, <1>6

\* Every step keeps the receive FIFO in order and younger than the byte
\* returned last.
LEMMA RxOrderStep ==
    ASSUME IInv, Next
    PROVE  RxOrder'
<1>1. TypeOK /\ NoEmptyRead /\ Control /\ RxOrder /\ RingOrder /\ TypeOK'
    BY TypeStep DEF IInv
<1>2. sent \in Nat /\ last_console \in Nat /\ opened \in Nat /\ MaxBytes \in Nat
    BY <1>1, MaxBytesAssumption DEF TypeOK
<1>3. CASE Arrive
    <2>1. sent' = sent + 1 /\ last_console' = last_console /\ opened' = opened
        BY <1>3 DEF Arrive, readerVars
    <2>2. \A i \in 1 .. Len(rx') :
              \/ i \in 1 .. Len(rx) /\ rx'[i] = rx[i]
              \/ i = Len(rx) + 1 /\ rx'[i] = sent + 1
        BY <1>1, <1>3, RxPush
    <2>3. \A i \in 1 .. Len(rx) : rx[i] \in Nat
        <3>1. rx \in Seq(1 .. MaxBytes)
            BY <1>1 DEF TypeOK
        <3> QED BY <1>2, <3>1, ElementOfSeq
    <2>4. Len(rx) \in Nat
        BY <1>1, LenProperties DEF TypeOK
    <2>5. \A i \in 1 .. Len(rx') : rx'[i] <= sent' /\ last_console' < rx'[i]
        BY <1>1, <1>2, <2>1, <2>2, <2>3 DEF RxOrder
    <2>6. \A i, j \in 1 .. Len(rx') : i < j => rx'[i] < rx'[j]
        BY <1>1, <1>2, <2>2, <2>3, <2>4 DEF RxOrder
    <2> QED BY <1>1, <1>2, <2>1, <2>5, <2>6 DEF RxOrder
<1>4. CASE IsrStores \/ IsrOverflows \/ DrainByte
    <2>1. rx # <<>> /\ PopFront
        BY <1>1, <1>4 DEF IsrStores, IsrOverflows, DrainByte, NoEmptyRead, Foreground
    <2>2. sent' = sent /\ last_console' = last_console /\ opened' = opened
        BY <1>4 DEF IsrStores, IsrOverflows, DrainByte, readerVars
    <2>3. /\ \A i \in 1 .. Len(rx') : \E h \in 1 .. Len(rx) : rx'[i] = rx[h]
          /\ \A i, j \in 1 .. Len(rx') : i < j => rx'[i] < rx'[j]
        BY <1>1, <2>1, RxPopOrder
    <2> QED BY <1>1, <2>2, <2>3 DEF RxOrder
<1>5. CASE GetcDirectRead
    <2>1. rx # <<>> /\ PopFront
        BY <1>1, <1>5 DEF GetcDirectRead, NoEmptyRead, Foreground
    <2>2. sent' = sent /\ last_console' = FrontByte /\ opened' = opened
        BY <1>5 DEF GetcDirectRead
    <2> QED BY <1>1, <2>1, <2>2, RxPopOrder DEF RxOrder
<1>6. CASE GetcAdvance
    <2>1. /\ sent' = sent /\ last_console' = value /\ opened' = opened /\ rx' = rx
          /\ enabled
        BY <1>1, <1>6 DEF GetcAdvance, Control, Foreground
    <2>2. 1 \in 1 .. Count /\ Captured[1] = value
        BY <1>1, <1>6, AdvanceTakesFirst
    <2>3. value <= sent /\ \A i \in 1 .. Len(rx) : value < rx[i]
        BY <1>1, <2>1, <2>2 DEF RingOrder
    <2> QED BY <1>1, <2>1, <2>3 DEF RxOrder
<1>7. CASE CaptureBegin
    BY <1>1, <1>2, <1>7 DEF CaptureBegin, RxOrder
<1>8. CASE Reset
    <2>1. rx' = <<>> /\ Len(rx') = 0
        BY <1>8, EmptySeq DEF Reset
    <2> QED BY <1>1, <1>8, <2>1 DEF Reset, RxOrder
<1>9. CASE \/ TimerFires \/ IsrReturns \/ GetcCapture \/ GetcCompare
           \/ GetcRead \/ GetcDirect \/ DrainMore \/ DrainDone \/ CaptureEnd
    <2>1. UNCHANGED <<sent, rx, last_console, opened>>
        BY <1>9 DEF TimerFires, IsrReturns, GetcCapture, GetcCompare, GetcRead,
                    GetcDirect, DrainMore, DrainDone, CaptureEnd, readerVars
    <2> QED BY <1>1, <2>1 DEF RxOrder
<1> QED BY NextActions, <1>3, <1>4, <1>5, <1>6, <1>7, <1>8, <1>9


\* Every step keeps the ring in order, between the byte returned last and the
\* receive FIFO, and free of bytes older than the capture.
LEMMA RingOrderStep ==
    ASSUME IInv, Next
    PROVE  RingOrder'
<1>1. TypeOK /\ NoEmptyRead /\ Control /\ RxOrder /\ RingOrder
    BY DEF IInv
<1>2. sent \in Nat /\ last_console \in Nat /\ opened \in Nat /\ MaxBytes \in Nat
    BY <1>1, MaxBytesAssumption DEF TypeOK
<1>3. /\ Count \in Nat /\ Len(rx) \in Nat
      /\ \A k \in 1 .. Count : Captured[k] \in Nat
      /\ \A i \in 1 .. Len(rx) : rx[i] \in Nat
    <2>1. Count \in 0 .. (CaptureBytes - 1) /\ Captured \in Seq(0 .. MaxBytes)
          /\ Len(Captured) = Count
        BY <1>1, RingShape
    <2>2. rx \in Seq(1 .. MaxBytes)
        BY <1>1 DEF TypeOK
    <2> QED BY <1>2, <2>1, <2>2, CaptureBytesAssumption, ElementOfSeq, LenProperties
<1>4. CASE Arrive
    <2>1. /\ sent' = sent + 1 /\ last_console' = last_console /\ opened' = opened
          /\ enabled' = enabled /\ UNCHANGED <<head, tail, buffer>>
        BY <1>4 DEF Arrive, readerVars, captureVars
    <2>2. Count' = Count /\ Captured' = Captured
        BY <2>1, SameRing
    <2>3. \A i \in 1 .. Len(rx') :
              \/ i \in 1 .. Len(rx) /\ rx'[i] = rx[i]
              \/ rx'[i] = sent + 1
        BY <1>1, <1>4, RxPush
    <2>4. ASSUME enabled
          PROVE  \A i \in 1 .. Len(rx') : opened < rx'[i]
        BY <1>1, <1>2, <1>3, <2>3, <2>4 DEF RingOrder, RxOrder
    <2>5. ASSUME enabled
          PROVE  \A k \in 1 .. Count : \A i \in 1 .. Len(rx') : Captured[k] < rx'[i]
        <3>1. /\ \A k \in 1 .. Count : Captured[k] < sent + 1
              /\ \A k \in 1 .. Count : \A i \in 1 .. Len(rx) : Captured[k] < rx[i]
            BY <1>1, <1>2, <1>3, <2>5 DEF RingOrder
        <3>2. TAKE k \in 1 .. Count
        <3>3. TAKE i \in 1 .. Len(rx')
        <3>4. CASE i \in 1 .. Len(rx) /\ rx'[i] = rx[i]
            BY <3>1, <3>4
        <3>5. CASE rx'[i] = sent + 1
            BY <3>1, <3>5
        <3> QED BY <2>3, <3>4, <3>5
    <2>6. ASSUME enabled
          PROVE  \A k \in 1 .. Count : Captured[k] <= sent + 1
        BY <1>1, <1>2, <1>3, <2>6 DEF RingOrder
    <2> QED BY <1>1, <2>1, <2>2, <2>4, <2>5, <2>6 DEF RingOrder
<1>5. CASE IsrStores
    <2>1. /\ sent' = sent /\ last_console' = last_console /\ opened' = opened
          /\ enabled' = enabled /\ rx # <<>> /\ PopFront
        BY <1>5 DEF IsrStores, readerVars
    <2>2. /\ Count' = Count + 1
          /\ \A k \in 1 .. Count : Captured'[k] = Captured[k]
          /\ Captured'[Count + 1] = FrontByte
        BY <1>1, <1>5, <2>1, StoreAppends, RxPop
    <2>3. enabled
        BY <1>1, <1>5 DEF IsrStores, Control
    <2>4. /\ FrontByte \in Nat /\ FrontByte <= sent
          /\ last_console < FrontByte
          /\ \A i \in 1 .. Len(rx') : FrontByte < rx'[i]
          /\ \A i \in 1 .. Len(rx') : \E h \in 1 .. Len(rx) : rx'[i] = rx[h]
        BY <1>1, <2>1, RxPopOrder
    <2>5. 1 \in 1 .. Len(rx) /\ FrontByte = rx[1]
        BY <1>1, <2>1, RxPop
    <2>6. opened < FrontByte /\ \A k \in 1 .. Count : Captured[k] < FrontByte
        BY <1>1, <2>3, <2>5 DEF RingOrder
    <2>7. \A k \in 1 .. Count' : \/ k \in 1 .. Count /\ Captured'[k] = Captured[k]
                                 \/ k = Count + 1 /\ Captured'[k] = FrontByte
        BY <1>3, <2>2
    <2>8. \A i \in 1 .. Len(rx') : opened < rx'[i]
        BY <1>1, <2>3, <2>4 DEF RingOrder
    <2>9. /\ \A k \in 1 .. Count' : opened < Captured'[k]
          /\ \A k \in 1 .. Count' : last_console < Captured'[k]
          /\ \A k \in 1 .. Count' : Captured'[k] <= sent
        BY <1>1, <2>3, <2>4, <2>6, <2>7 DEF RingOrder
    <2>10. \A k, l \in 1 .. Count' : k < l => Captured'[k] < Captured'[l]
        BY <1>1, <1>3, <2>3, <2>6, <2>7 DEF RingOrder
    <2>11. \A k \in 1 .. Count' : \A i \in 1 .. Len(rx') : Captured'[k] < rx'[i]
        BY <1>1, <2>3, <2>4, <2>7 DEF RingOrder
    <2> QED BY <2>1, <2>8, <2>9, <2>10, <2>11 DEF RingOrder
<1>6. CASE IsrOverflows
    <2>1. /\ sent' = sent /\ last_console' = last_console /\ opened' = opened
          /\ enabled' = enabled /\ rx # <<>> /\ PopFront
          /\ UNCHANGED <<head, tail, buffer>>
        BY <1>6 DEF IsrOverflows, readerVars
    <2>2. Count' = Count /\ Captured' = Captured
        BY <2>1, SameRing
    <2>3. \A i \in 1 .. Len(rx') : \E h \in 1 .. Len(rx) : rx'[i] = rx[h]
        BY <1>1, <2>1, RxPopOrder
    <2> QED BY <1>1, <2>1, <2>2, <2>3 DEF RingOrder
<1>7. CASE GetcAdvance
    <2>1. /\ sent' = sent /\ last_console' = value /\ opened' = opened /\ rx' = rx
          /\ enabled' = enabled /\ enabled
        BY <1>1, <1>7 DEF GetcAdvance, Control, Foreground
    <2>2. /\ Count > 0 /\ Captured[1] = value /\ Count' = Count - 1
          /\ \A k \in 1 .. Count' : Captured'[k] = Captured[k + 1]
        BY <1>1, <1>7, AdvanceTakesFirst
    <2>3. 1 \in 1 .. Count /\ \A k \in 1 .. Count' : k + 1 \in 1 .. Count /\ 1 < k + 1
        BY <1>3, <2>2
    <2>4. /\ \A k \in 1 .. Count' : opened < Captured'[k]
          /\ \A k \in 1 .. Count' : value < Captured'[k]
          /\ \A k \in 1 .. Count' : Captured'[k] <= sent
          /\ \A k \in 1 .. Count' : \A i \in 1 .. Len(rx) : Captured'[k] < rx[i]
        BY <1>1, <2>1, <2>2, <2>3 DEF RingOrder
    <2>5. \A k, l \in 1 .. Count' : k < l => Captured'[k] < Captured'[l]
        <3> SUFFICES ASSUME NEW k \in 1 .. Count', NEW l \in 1 .. Count', k < l
                     PROVE  Captured'[k] < Captured'[l]
            OBVIOUS
        <3>1. k + 1 < l + 1
            BY <1>3, <2>2
        <3> QED BY <1>1, <2>1, <2>2, <2>3, <3>1 DEF RingOrder
    <2> QED BY <1>1, <2>1, <2>4, <2>5 DEF RingOrder
<1>8. CASE DrainDone
    <2>1. rx' = <<>> /\ head = tail /\ UNCHANGED <<head, tail, buffer>>
        BY <1>1, <1>8 DEF DrainDone, Control, Foreground
    <2>2. Len(rx') = 0 /\ Count' = 0
        <3>1. Count = 0
            BY <1>1, <2>1, RingShape
        <3>2. Count' = Count
            BY <2>1, SameRing
        <3> QED BY <2>1, <3>1, <3>2, EmptySeq
    <2> QED BY <2>2 DEF RingOrder
<1>9. CASE CaptureBegin \/ CaptureEnd \/ Reset
    <2>1. ~enabled'
        BY <1>9 DEF CaptureBegin, CaptureEnd, Reset
    <2> QED BY <2>1 DEF RingOrder
<1>10. CASE GetcDirectRead \/ DrainByte
    <2>1. ~enabled'
        BY <1>1, <1>10 DEF GetcDirectRead, DrainByte, Foreground, Control, captureVars
    <2> QED BY <2>1 DEF RingOrder
<1>11. CASE \/ TimerFires \/ IsrReturns \/ GetcCapture \/ GetcCompare
            \/ GetcRead \/ GetcDirect \/ DrainMore
    <2>1. UNCHANGED <<sent, rx, enabled, head, tail, buffer, last_console, opened>>
        BY <1>11 DEF TimerFires, IsrReturns, GetcCapture, GetcCompare, GetcRead,
                     GetcDirect, DrainMore, readerVars, captureVars
    <2>2. Count' = Count /\ Captured' = Captured
        BY <2>1, SameRing
    <2> QED BY <1>1, <2>1, <2>2 DEF RingOrder
<1> QED BY NextActions, <1>4, <1>5, <1>6, <1>7, <1>8, <1>9, <1>10, <1>11


LEMMA InvariantStep == IInv /\ [Next]_vars => IInv'
<1>1. ASSUME IInv, Next PROVE IInv'
    <2>1. TypeOK' /\ NoEmptyRead' /\ Control'
        BY <1>1, TypeStep, ControlStep DEF IInv
    <2>2. RxOrder' /\ RingOrder'
        BY <1>1, RxOrderStep, RingOrderStep
    <2> QED BY <2>1, <2>2 DEF IInv
<1>2. ASSUME IInv, UNCHANGED vars PROVE IInv'
    <2>1. UNCHANGED <<sent, rx, in_isr, enabled, head, tail, buffer, received,
                      overflows, pc, read_tail, value, last_captured,
                      last_console, opened>>
        BY <1>2 DEF vars, captureVars, readerVars
    <2>2. Count' = Count /\ Captured' = Captured
        BY <2>1, SameRing
    <2>3. TypeOK' /\ NoEmptyRead' /\ Control'
        BY <1>2, <2>1 DEF IInv, TypeOK, NoEmptyRead, Control
    <2>4. RxOrder' /\ RingOrder'
        BY <1>2, <2>1, <2>2 DEF IInv, RxOrder, RingOrder
    <2> QED BY <2>3, <2>4 DEF IInv
<1> QED BY <1>1, <1>2

\* The invariant holds of every behaviour.
THEOREM CaptureInvariant == Spec => []IInv
<1>1. IInv /\ [][Next]_vars => []IInv
    BY InvariantStep, PTL
<1> QED BY InitInvariant, <1>1, PTL DEF Spec

----------------------------------------------------------------------------
(***************************************************************************)
(* What follows from it.                                                   *)
(***************************************************************************)

\* The indices stay inside the ring and the receive FIFO inside its depth.
THEOREM TypeCorrect == Spec => []TypeOK
<1>1. IInv => TypeOK
    BY DEF IInv
<1> QED BY <1>1, CaptureInvariant, PTL

\* The foreground and the interrupt never race for a byte of the UART.
THEOREM NoEmptyReadCorrect == Spec => []NoEmptyRead
<1>1. IInv => NoEmptyRead
    BY DEF IInv
<1> QED BY <1>1, CaptureInvariant, PTL

\* A capture holds nothing that arrived before it began.
THEOREM CaptureFreshCorrect == Spec => []CaptureFresh
<1>1. IInv => CaptureFresh
    <2> SUFFICES ASSUME IInv, enabled, NEW k \in 1 .. Count
                 PROVE  Captured[k] > opened
        BY DEF CaptureFresh
    <2>1. opened < Captured[k] /\ opened \in Nat
        BY MaxBytesAssumption DEF IInv, RingOrder, TypeOK
    <2>2. Captured[k] \in Nat
        <3>1. TypeOK
            BY DEF IInv
        <3>2. Captured \in Seq(0 .. MaxBytes) /\ Len(Captured) = Count
            BY <3>1, RingShape
        <3> QED BY <3>2, ElementOfSeq, MaxBytesAssumption
    <2> QED BY <2>1, <2>2
<1> QED BY <1>1, CaptureInvariant, PTL

\* The console returns the bytes of the line in order, none of them twice.
THEOREM InOrderCorrect == Spec => InOrder
<1>1. IInv /\ [Next]_vars
        => [GetcAdvance \/ GetcDirectRead => last_console' > last_console]_vars
    <2> SUFFICES ASSUME IInv, GetcAdvance \/ GetcDirectRead
                 PROVE  last_console' > last_console
        OBVIOUS
    <2>1. TypeOK /\ NoEmptyRead /\ Control /\ RxOrder /\ RingOrder
        BY DEF IInv
    <2>2. last_console \in Nat
        BY <2>1, MaxBytesAssumption DEF TypeOK
    <2>3. CASE GetcAdvance
        <3>1. enabled /\ last_console' = value
            BY <2>1, <2>3 DEF GetcAdvance, Control, Foreground
        <3>2. 1 \in 1 .. Count /\ Captured[1] = value
            BY <2>1, <2>3, AdvanceTakesFirst
        <3>3. value \in Nat
            BY <2>1, MaxBytesAssumption DEF TypeOK
        <3> QED BY <2>1, <2>2, <3>1, <3>2, <3>3 DEF RingOrder
    <2>4. CASE GetcDirectRead
        <3>1. rx # <<>> /\ PopFront /\ last_console' = FrontByte
            BY <2>1, <2>4 DEF GetcDirectRead, NoEmptyRead, Foreground
        <3> QED BY <2>1, <2>2, <3>1, RxPopOrder
    <2> QED BY <2>3, <2>4
<1> QED BY <1>1, CaptureInvariant, PTL DEF Spec, InOrder


\* The ring of the code is a bounded queue of CaptureBytes - 1 bytes.
THEOREM RingRefinesFifo == Spec => RingIsFifo
<1>1. Init => Fifo!Init
    <2> SUFFICES ASSUME Init PROVE Fifo!Init
        OBVIOUS
    <2>1. TypeOK /\ head = tail
        BY InitInvariant DEF IInv, Init
    <2>2. Captured = <<>>
        BY <2>1, RingShape, EmptySeq
    <2> QED BY <2>2 DEF Init, Fifo!Init
<1>2. ASSUME IInv, Next PROVE [Fifo!Next]_(Fifo!fifoVars)
    <2>1. TypeOK /\ NoEmptyRead /\ Control /\ TypeOK'
        BY <1>2, TypeStep DEF IInv
    <2>2. /\ Count \in Nat /\ Len(Captured) = Count
          /\ Count <= CaptureBytes - 1
          /\ NextSlot(head) = tail <=> Count = CaptureBytes - 1
        BY <2>1, RingShape, CaptureBytesAssumption
    <2>3. CASE IsrStores
        <3>1. Captured' = Append(Captured, Head(rx)) /\ Head(rx) \in 1 .. MaxBytes
            BY <2>1, <2>3, StoreAppends, RxPop DEF IsrStores
        <3>2. Len(Captured) < CaptureBytes - 1
            BY <2>2, <2>3, CaptureBytesAssumption DEF IsrStores
        <3>3. /\ received' = received + 1
              /\ overflows' = overflows /\ last_captured' = last_captured
            BY <2>3 DEF IsrStores, readerVars
        <3>4. Fifo!Put(Head(rx))
            BY <3>1, <3>2, <3>3 DEF Fifo!Put
        <3> QED BY <3>1, <3>4 DEF Fifo!Next
    <2>4. CASE IsrOverflows
        <3>1. Captured' = Captured
            BY <2>4, SameRing DEF IsrOverflows
        <3>2. Len(Captured) = CaptureBytes - 1
            BY <2>2, <2>4 DEF IsrOverflows
        <3>3. /\ overflows' = overflows + 1
              /\ received' = received /\ last_captured' = last_captured
            BY <2>4 DEF IsrOverflows, readerVars
        <3>4. Fifo!Refuse
            BY <3>1, <3>2, <3>3 DEF Fifo!Refuse
        <3> QED BY <3>4 DEF Fifo!Next
    <2>5. CASE GetcAdvance
        <3>1. /\ Captured' = Tail(Captured)
              /\ Captured # <<>> /\ Head(Captured) = value
            BY <2>1, <2>5, AdvanceTakesFirst
        <3>2. /\ last_captured' = value
              /\ received' = received /\ overflows' = overflows
            BY <2>5 DEF GetcAdvance
        <3>3. Fifo!Take
            BY <3>1, <3>2 DEF Fifo!Take
        <3> QED BY <3>3 DEF Fifo!Next
    <2>6. CASE CaptureBegin \/ Reset
        <3>1. /\ head' = 0 /\ tail' = 0 /\ received' = 0 /\ overflows' = 0
              /\ last_captured' = last_captured
            BY <2>6 DEF CaptureBegin, Reset
        <3>2. Captured' = <<>>
            <4>1. Count' = 0
                BY <3>1 DEF Count
            <4>2. Captured' \in [1 .. 0 -> {}]
                BY <4>1 DEF Captured
            <4>3. Captured' \in Seq({}) /\ Len(Captured') = 0
                BY <4>2, FunctionIsSeq
            <4> QED BY <4>3, EmptySeq
        <3>3. Fifo!Clear
            BY <3>1, <3>2 DEF Fifo!Clear
        <3> QED BY <3>3 DEF Fifo!Next
    <2>7. CASE \/ Arrive \/ TimerFires \/ IsrReturns
               \/ GetcCapture \/ GetcCompare \/ GetcRead
               \/ GetcDirect \/ GetcDirectRead
               \/ DrainMore \/ DrainByte \/ DrainDone \/ CaptureEnd
        <3>1. UNCHANGED <<head, tail, buffer, received, overflows, last_captured>>
            BY <2>7 DEF Arrive, TimerFires, IsrReturns, GetcCapture, GetcCompare,
                        GetcRead, GetcDirect, GetcDirectRead, DrainMore,
                        DrainByte, DrainDone, CaptureEnd, captureVars, readerVars
        <3>2. Captured' = Captured
            BY <3>1, SameRing
        <3> QED BY <3>1, <3>2 DEF Fifo!fifoVars
    <2> QED BY <1>2, NextActions, <2>3, <2>4, <2>5, <2>6, <2>7
<1>3. ASSUME UNCHANGED vars PROVE [Fifo!Next]_(Fifo!fifoVars)
    <2>1. UNCHANGED <<head, tail, buffer, received, overflows, last_captured>>
        BY <1>3 DEF vars, captureVars, readerVars
    <2>2. Captured' = Captured
        BY <2>1, SameRing
    <2> QED BY <2>1, <2>2 DEF Fifo!fifoVars
<1>4. IInv /\ [Next]_vars => [Fifo!Next]_(Fifo!fifoVars)
    BY <1>2, <1>3
<1> QED BY <1>1, <1>4, CaptureInvariant, PTL DEF Spec, RingIsFifo, Fifo!Spec
-----------------------------------------------------------------------------
(***************************************************************************)
(* The bytes that wait, as a set.                                          *)
(***************************************************************************)
InFifo == {rx[i] : i \in 1 .. Len(rx)}
InRing == {Captured[k] : k \in 1 .. Count}

\* The FIFO gives its smallest byte, and keeps the rest.
LEMMA PopTakesOldest ==
    ASSUME TypeOK, RxOrder, rx # <<>>, PopFront
    PROVE  /\ InFifo = InFifo' \cup {FrontByte} /\ FrontByte \notin InFifo'
           /\ \A m \in InFifo : FrontByte <= m
<1>1. /\ Len(rx) \in Nat /\ Len(rx) > 0 /\ Len(rx') = Len(rx) - 1
      /\ \A i \in 1 .. Len(rx') : rx'[i] = rx[i + 1]
      /\ FrontByte = rx[1]
    BY RxPop
<1>2. /\ FrontByte \in Nat /\ \A i \in 1 .. Len(rx') : FrontByte < rx'[i]
    BY RxPopOrder
<1>3. \A i \in 1 .. Len(rx) : i = 1 \/ (i - 1 \in 1 .. Len(rx') /\ rx[i] = rx'[i - 1])
    BY <1>1
<1>4. \A i \in 1 .. Len(rx') : i + 1 \in 1 .. Len(rx)
    BY <1>1
<1>5. 1 \in 1 .. Len(rx)
    BY <1>1
<1>6. \A m : m \in InFifo <=> \E i \in 1 .. Len(rx) : m = rx[i]
    BY DEF InFifo
<1>7. \A m : m \in InFifo' <=> \E i \in 1 .. Len(rx') : m = rx'[i]
    BY DEF InFifo
<1>8. InFifo = InFifo' \cup {FrontByte}
    <2>1. ASSUME NEW m \in InFifo PROVE m \in InFifo' \cup {FrontByte}
        BY <1>1, <1>3, <1>6, <1>7, <2>1
    <2>2. ASSUME NEW m \in InFifo' PROVE m \in InFifo
        BY <1>1, <1>4, <1>6, <1>7, <2>2
    <2>3. FrontByte \in InFifo
        BY <1>1, <1>5, <1>6
    <2> QED BY <2>1, <2>2, <2>3
<1>9. \A m \in InFifo' : FrontByte < m
    BY <1>2, <1>7
<1>10. \A m \in InFifo' : m \in Nat
    <2>1. rx' \in Seq(1 .. MaxBytes)
        BY RxPop
    <2>2. \A i \in 1 .. Len(rx') : rx'[i] \in Nat
        BY <2>1, MaxBytesAssumption, ElementOfSeq
    <2> QED BY <1>7, <2>2
<1> QED BY <1>2, <1>8, <1>9, <1>10

\* So does the ring, when the tail moves on.
LEMMA AdvanceTakesOldest ==
    ASSUME IInv, GetcAdvance
    PROVE  /\ InRing = InRing' \cup {value} /\ value \notin InRing'
           /\ \A m \in InRing \cup InFifo : value <= m
           /\ value \notin InFifo
<1>1. TypeOK /\ Control /\ RxOrder /\ RingOrder /\ enabled
    BY DEF IInv, Control, GetcAdvance, Foreground
<1>2. /\ Count \in Nat /\ Count > 0 /\ Captured[1] = value /\ Count' = Count - 1
      /\ \A k \in 1 .. Count' : Captured'[k] = Captured[k + 1]
    BY <1>1, AdvanceTakesFirst
<1>3. \A k \in 1 .. Count : k = 1 \/ (k - 1 \in 1 .. Count' /\ Captured[k] = Captured'[k - 1])
    BY <1>2
<1>4. \A k \in 1 .. Count' : k + 1 \in 1 .. Count /\ 1 < k + 1
    BY <1>2
<1>5. 1 \in 1 .. Count
    BY <1>2
<1>r. /\ \A m : m \in InRing <=> \E k \in 1 .. Count : m = Captured[k]
      /\ \A m : m \in InRing' <=> \E k \in 1 .. Count' : m = Captured'[k]
    BY DEF InRing
<1>6. InRing = InRing' \cup {value}
    <2>1. ASSUME NEW m \in InRing PROVE m \in InRing' \cup {value}
        BY <1>2, <1>3, <1>r, <2>1
    <2>2. ASSUME NEW m \in InRing' PROVE m \in InRing
        BY <1>2, <1>4, <1>r, <2>2
    <2>3. value \in InRing
        BY <1>2, <1>5, <1>r
    <2> QED BY <2>1, <2>2, <2>3
<1>7. value \in Nat /\ \A k \in 1 .. Count : k = 1 \/ value < Captured[k]
    <2>1. value \in Nat
        BY <1>1, MaxBytesAssumption DEF TypeOK
    <2>2. \A k \in 1 .. Count : k = 1 \/ 1 < k
        BY <1>2
    <2> QED BY <1>1, <1>2, <1>5, <2>1, <2>2 DEF RingOrder
<1>8. value \notin InRing'
    <2>1. \A k \in 1 .. Count' : value < Captured'[k]
        BY <1>2, <1>4, <1>7
    <2>2. ASSUME value \in InRing' PROVE FALSE
        <3>1. PICK k \in 1 .. Count' : value = Captured'[k]
            BY <1>r, <2>2
        <3> QED BY <1>7, <2>1, <3>1
    <2> QED BY <2>2
<1>9. \A m \in InRing : value <= m
    <2> SUFFICES ASSUME NEW m \in InRing PROVE value <= m
        OBVIOUS
    <2>1. PICK k \in 1 .. Count : m = Captured[k]
        BY <1>r
    <2>2. Captured[k] \in Nat
        BY <1>1, RingShape, ElementOfSeq, MaxBytesAssumption
    <2>3. k = 1 \/ value < Captured[k]
        BY <1>7
    <2> QED BY <1>2, <1>7, <2>1, <2>2, <2>3
<1>10. \A m \in InFifo : value < m
    BY <1>1, <1>2, <1>5 DEF InFifo, RingOrder
<1>11. InFifo \subseteq Nat
    <2>1. rx \in Seq(1 .. MaxBytes)
        BY <1>1 DEF TypeOK
    <2>2. \A i \in 1 .. Len(rx) : rx[i] \in Nat
        BY <2>1, MaxBytesAssumption, ElementOfSeq
    <2> QED BY <2>2 DEF InFifo
<1>12. value \notin InFifo /\ \A m \in InFifo : value <= m
    BY <1>7, <1>10, <1>11
<1> QED BY <1>6, <1>8, <1>9, <1>12

LEMMA SameSets ==
    ASSUME UNCHANGED <<rx, head, tail, buffer>>
    PROVE  InFifo' = InFifo /\ InRing' = InRing
BY SameRing DEF InFifo, InRing

\* An empty ring has no bytes.
LEMMA EmptyRing == ASSUME TypeOK, head = tail PROVE InRing = {}
<1>1. Count = 0
    BY RingShape
<1> QED BY <1>1 DEF InRing

\* What the interrupt stores goes on waiting.
LEMMA StoreKeeps ==
    ASSUME TypeOK, Control, RxOrder, IsrStores PROVE Waiting' = Waiting
<1>w. /\ Waiting = InFifo \cup (IF enabled THEN InRing ELSE {})
      /\ Waiting' = InFifo' \cup (IF enabled' THEN InRing' ELSE {})
    BY DEF Waiting, InFifo, InRing
<1>1. rx # <<>> /\ PopFront /\ enabled /\ enabled'
    BY DEF IsrStores, Control
<1>2. InFifo = InFifo' \cup {Head(rx)}
    BY <1>1, PopTakesOldest, RxPop
<1>3. /\ Count' = Count + 1 /\ Captured'[Count + 1] = Head(rx)
      /\ \A k \in 1 .. Count : Captured'[k] = Captured[k]
    BY StoreAppends
<1>4. Count \in Nat
    BY RingShape, CaptureBytesAssumption
<1>5. \A k : k \in 1 .. Count' <=> k \in 1 .. Count \/ k = Count + 1
    BY <1>3, <1>4
<1>6. InRing' = InRing \cup {Head(rx)}
    <2>1. /\ \A m : m \in InRing <=> \E k \in 1 .. Count : m = Captured[k]
          /\ \A m : m \in InRing' <=> \E k \in 1 .. Count' : m = Captured'[k]
        BY DEF InRing
    <2>2. ASSUME NEW m \in InRing' PROVE m \in InRing \cup {Head(rx)}
        BY <1>3, <1>5, <2>1, <2>2
    <2>3. ASSUME NEW m \in InRing PROVE m \in InRing'
        BY <1>3, <1>5, <2>1, <2>3
    <2>4. Head(rx) \in InRing'
        BY <1>3, <1>5, <2>1
    <2> QED BY <2>2, <2>3, <2>4
<1> QED BY <1>w, <1>1, <1>2, <1>6

\* A step of the line: what waits has waited before or has just arrived; the
\* interrupt stores a byte without loss; and whoever takes one takes the oldest.
LineMoves ==
    /\ \A n \in Waiting' : n \in Waiting \/ n > sent
    /\ IsrStores => Waiting' = Waiting
    /\ GetcAdvance \/ GetcDirectRead \/ DrainByte =>
           \E n \in Waiting \ Waiting' : \A m \in Waiting : n <= m

LEMMA NothingReturns ==
    ASSUME IInv, Next PROVE \A n \in Waiting' : n \in Waiting \/ n > sent
<1>1. TypeOK /\ NoEmptyRead /\ Control /\ RxOrder /\ RingOrder /\ sent \in Nat
    BY MaxBytesAssumption DEF IInv, TypeOK
<1>w. /\ Waiting = InFifo \cup (IF enabled THEN InRing ELSE {})
      /\ Waiting' = InFifo' \cup (IF enabled' THEN InRing' ELSE {})
    BY DEF Waiting, InFifo, InRing
<1>2. CASE Arrive
    <2>1. InRing' = InRing /\ enabled' = enabled
        BY <1>2, SameRing DEF Arrive, captureVars, InRing
    <2>2. \A m \in InFifo' : m \in InFifo \/ m = sent + 1
        BY <1>1, <1>2, RxPush DEF InFifo
    <2> QED BY <1>1, <1>w, <2>1, <2>2
<1>3. CASE IsrStores
    BY <1>1, <1>3, StoreKeeps
<1>4. CASE IsrOverflows
    <2>1. rx # <<>> /\ PopFront /\ UNCHANGED <<enabled, head, tail, buffer>>
        BY <1>4 DEF IsrOverflows
    <2>2. InFifo = InFifo' \cup {FrontByte} /\ InRing' = InRing
        BY <1>1, <2>1, PopTakesOldest, SameRing DEF InRing
    <2> QED BY <1>w, <2>1, <2>2
<1>5. CASE GetcAdvance
    <2>1. UNCHANGED <<rx, enabled>>
        BY <1>5 DEF GetcAdvance
    <2>2. InFifo' = InFifo
        BY <2>1 DEF InFifo
    <2>3. InRing = InRing' \cup {value}
        BY <1>5, AdvanceTakesOldest
    <2> QED BY <1>w, <2>1, <2>2, <2>3
<1>6. CASE GetcDirectRead \/ DrainByte
    <2>1. rx # <<>> /\ PopFront /\ ~enabled /\ ~enabled'
        BY <1>1, <1>6 DEF GetcDirectRead, DrainByte, NoEmptyRead, Control, Foreground,
            captureVars
    <2>2. InFifo = InFifo' \cup {FrontByte}
        BY <1>1, <2>1, PopTakesOldest
    <2> QED BY <1>w, <2>1, <2>2
<1>7. CASE CaptureBegin \/ CaptureEnd \/ Reset \/ DrainDone
    <2>1. InFifo' \subseteq InFifo
        <3>1. rx' \in {rx, <<>>}
            BY <1>7 DEF CaptureBegin, CaptureEnd, Reset, DrainDone
        <3>2. CASE rx' = <<>>
            <4>1. 1 .. Len(rx') = {}
                BY <3>2
            <4> QED BY <4>1 DEF InFifo
        <3>3. CASE rx' = rx
            BY <3>3 DEF InFifo
        <3> QED BY <3>1, <3>2, <3>3
    <2>2. ASSUME enabled' PROVE InRing' = {}
        <3>1. DrainDone
            BY <1>7, <2>2 DEF CaptureBegin, CaptureEnd, Reset
        <3>2. UNCHANGED <<rx, head, tail, buffer>> /\ head = tail
            BY <1>1, <3>1 DEF DrainDone, Control, Foreground
        <3> QED BY <1>1, <3>2, SameSets, EmptyRing
    <2> QED BY <1>w, <2>1, <2>2
<1>8. CASE \/ TimerFires \/ IsrReturns \/ GetcCapture \/ GetcCompare \/ GetcRead
           \/ GetcDirect \/ DrainMore
    <2>1. UNCHANGED <<rx, enabled, head, tail, buffer>>
        BY <1>8 DEF TimerFires, IsrReturns, GetcCapture, GetcCompare, GetcRead,
            GetcDirect, DrainMore, captureVars
    <2> QED BY <1>w, <2>1, SameSets
<1> QED BY NextActions, <1>2, <1>3, <1>4, <1>5, <1>6, <1>7, <1>8

LEMMA TakesOldest ==
    ASSUME IInv, GetcAdvance \/ GetcDirectRead \/ DrainByte
    PROVE  \E n \in Waiting \ Waiting' : \A m \in Waiting : n <= m
<1>1. TypeOK /\ NoEmptyRead /\ Control /\ RxOrder /\ RingOrder
    BY DEF IInv
<1>w. /\ Waiting = InFifo \cup (IF enabled THEN InRing ELSE {})
      /\ Waiting' = InFifo' \cup (IF enabled' THEN InRing' ELSE {})
    BY DEF Waiting, InFifo, InRing
<1>2. CASE GetcAdvance
    <2>1. UNCHANGED <<rx, enabled>> /\ enabled
        BY <1>1, <1>2 DEF GetcAdvance, Control, Foreground
    <2>2. InFifo' = InFifo
        BY <2>1 DEF InFifo
    <2>3. /\ InRing = InRing' \cup {value} /\ value \notin InRing'
          /\ \A m \in InRing \cup InFifo : value <= m
          /\ value \notin InFifo
        BY <1>2, AdvanceTakesOldest
    <2>4. value \in Waiting \ Waiting' /\ \A m \in Waiting : value <= m
        BY <1>w, <2>1, <2>2, <2>3
    <2> QED BY <2>4
<1>3. CASE GetcDirectRead \/ DrainByte
    <2>1. rx # <<>> /\ PopFront /\ ~enabled /\ ~enabled'
        BY <1>1, <1>3 DEF GetcDirectRead, DrainByte, NoEmptyRead, Control, Foreground,
            captureVars
    <2>2. /\ InFifo = InFifo' \cup {FrontByte} /\ FrontByte \notin InFifo'
          /\ \A m \in InFifo : FrontByte <= m
        BY <1>1, <2>1, PopTakesOldest
    <2>3. FrontByte \in Waiting \ Waiting' /\ \A m \in Waiting : FrontByte <= m
        BY <1>w, <2>1, <2>2
    <2> QED BY <2>3
<1> QED BY <1>2, <1>3

\* The core of NoByteStuck, for a ring of any size and a line of any length.  A
\* byte that is read or dropped does not come back, so no byte gets ahead of one
\* that waits; the interrupt moves a byte from the UART to the ring without loss;
\* and every read of the console, and every byte discarded before a capture,
\* takes the oldest of those that wait, so that a byte waits for the ones before
\* it only (uart_getc_nonblocking, doom_uart_capture_poll_from_timer).
THEOREM LineMovesOn == Spec => [][LineMoves]_vars
<1>1. ASSUME IInv, [Next]_vars PROVE [LineMoves]_vars
    BY <1>1, NothingReturns, TakesOldest, StoreKeeps DEF LineMoves, IInv
<1> QED BY <1>1, CaptureInvariant, PTL DEF Spec

=============================================================================
