----------------------------- MODULE BootProofs -----------------------------
(***************************************************************************)
(* The two ways to a program: the hand-over to the image in flash          *)
(* (NormalBoot), for every flash, header and size, and the monitor's load  *)
(* from the SD card (SdBoot), for every card, volume and timeout.          *)
(*                                                                         *)
(* FailClosed rests on where the firmware can be while the port is open.   *)
(*                                                                         *)
(* DoneVerified rests on BootInv.  Port: which states of the port go with  *)
(* which place in the firmware.  Carried: as long as the port has no       *)
(* error, what the controller has taken, the byte on its way and the bytes *)
(* still to be sent are together what the second pass has read.  Checked:  *)
(* the first pass was acceptable, and FINISH is written only after the     *)
(* whole of the second one had the checksum of the header.                 *)
(*                                                                         *)
(* ReconfiguredVerified rests on NativeInv: what was read is sound as long *)
(* as `invalid` is clear, and the gate is touched only by a firmware that  *)
(* has read the whole sector.                                              *)
(*                                                                         *)
(* CardReleased: a command that fails goes back to the prompt without      *)
(* looking at the chip-select line, so the proof needs to know where the   *)
(* code can be while a block is under way: looking for a sector that it    *)
(* has not got.                                                            *)
(*                                                                         *)
(* Delivered rests on SdInv, which is about the card as the code sees it,  *)
(* with its numbers of 32 bits.  CardTrue: a card that answers is the one  *)
(* that was initialized.  CacheTrue and FsTrue: what is kept of the        *)
(* volume is so.  AtPlace: the reader is in the cluster of the chain that  *)
(* its position falls into.  Content: what it has delivered is the         *)
(* beginning of the file.  Then, for a sound volume: no number goes round  *)
(* before the chain leaves the volume, so the card as the code sees it is  *)
(* the card (SameLayout, SameChain, SameData).                             *)
(*                                                                         *)
(* CommandWindsDown is what CommandEnds rests on, without the fairness: a  *)
(* lexicographic rank that every step of a command lowers.  WindInv adds   *)
(* to SdInv what keeps the rank a tuple of natural numbers: a walk stays   *)
(* inside its directory and takes no more clusters than the volume has, a  *)
(* reader is never ahead of its position, and what is read is wanted.      *)
(***************************************************************************)
EXTENDS NormalBoot, SdBoot, SequenceTheorems, FiniteSetTheorems, TLAPS

\* The places where an attempt is under way.
Armable == {"prepare", "arm", "armed", "second", "finish", "finished"}
Streaming == {"armed", "second", "finish", "finished"}
Before == {"header", "first", "prepare", "arm", "native", "qualify", "armGate",
           "armedGate", "executed"}

Port == [state : PortState, expected : Nat, sent : Nat, en : BOOLEAN,
         data : Cell]

Typed ==
    /\ flash \in [Addr -> Cell] /\ header \in Headers \cup {NoImage}
    /\ info.offset \in Nat /\ info.length \in Nat
    /\ Payload + info.length <= FlashBytes
    /\ pos \in Nat
    /\ second \in Seq(Cell) /\ chunk \in Seq(Cell) /\ accepted \in Seq(Cell)
    /\ port \in Port

LEMMA InitTyped == Init => Typed
<1> SUFFICES ASSUME Init PROVE Typed
    OBVIOUS
<1>1. flash \in [Addr -> Cell] /\ header \in Headers \cup {NoImage}
    BY BootAssumption DEF Init
<1>2. /\ info.offset \in Nat /\ info.length \in Nat
      /\ Payload + info.length <= FlashBytes /\ pos \in Nat
    BY BootAssumption DEF Init, NoInfo, Payload
<1>3. second \in Seq(Cell) /\ chunk \in Seq(Cell) /\ accepted \in Seq(Cell)
    BY DEF Init
<1>4. port \in Port
    BY BootAssumption DEF Init, Port, PortState
<1> QED BY <1>1, <1>2, <1>3, <1>4 DEF Typed

\* What may happen to the port: it closes, or one of its own steps.
LEMMA ClosedPort ==
    ASSUME port \in Port
    PROVE  /\ Closed(port) \in Port
           /\ Closed(port).state = "ERROR" /\ Closed(port).en = FALSE
<1>1. ASSUME NEW p \in Port
      PROVE  [p EXCEPT !.state = "ERROR"] \in Port
             /\ [p EXCEPT !.state = "ERROR"].state = "ERROR"
    BY DEF Port, PortState
<1>2. ASSUME NEW p \in Port
      PROVE  [p EXCEPT !.en = FALSE] \in Port
             /\ [p EXCEPT !.en = FALSE].en = FALSE
             /\ [p EXCEPT !.en = FALSE].state = p.state
    BY DEF Port
<1>3. Closed(port) = [[port EXCEPT !.state = "ERROR"] EXCEPT !.en = FALSE]
    BY DEF Closed
<1> QED BY <1>1, <1>2, <1>3

\* A page of the image is made of cells.
LEMMA PageTyped ==
    ASSUME Typed, pos < info.length
    PROVE  /\ PageSize \in Nat \ {0} /\ pos + PageSize <= info.length
           /\ Bytes(Payload + pos, PageSize) \in Seq(Cell)
           /\ Len(Bytes(Payload + pos, PageSize)) = PageSize
<1>0. info.length \in Nat /\ pos \in Nat /\ PageBytes \in Nat \ {0}
    BY BootAssumption DEF Typed
<1>1. PageSize \in Nat \ {0} /\ pos + PageSize <= info.length
    BY <1>0 DEF PageSize, Smaller
<1>2. \A i \in 1 .. PageSize : Payload + pos + i - 1 \in Addr
    <2>1. Slot + info.offset + info.length <= FlashBytes
        BY DEF Typed, Payload
    <2>2. Slot \in Nat /\ FlashBytes \in Nat /\ info.offset \in Nat
          /\ info.length \in Nat /\ pos \in Nat
        BY BootAssumption DEF Typed
    <2>3. ASSUME NEW i \in 1 .. PageSize
          PROVE  Slot + info.offset + pos + i - 1 \in 0 .. (FlashBytes - 1)
        BY <1>1, <2>1, <2>2
    <2> QED BY <2>2, <2>3 DEF Addr, Payload
<1>3. \A i \in 1 .. PageSize : flash[Payload + pos + i - 1] \in Cell
    BY <1>2 DEF Typed
<1>4. Bytes(Payload + pos, PageSize) \in [1 .. PageSize -> Cell]
    BY <1>3 DEF Bytes
<1> QED BY <1>1, <1>4

LEMMA PortStepTyped ==
    ASSUME Typed, PortStep
    PROVE  port' \in Port /\ accepted' \in Seq(Cell)
<1>1. port \in Port /\ accepted \in Seq(Cell)
    BY DEF Typed
<1>2. port' \in Port
    BY <1>1 DEF PortStep, Port, PortState
<1>3. port.data \in Cell
    BY <1>1 DEF Port
<1>4. accepted' \in Seq(Cell)
    BY <1>1, <1>3, AppendProperties DEF PortStep
<1> QED BY <1>2, <1>4

LEMMA TypedStep == Typed /\ [Next]_vars => Typed'
<1> SUFFICES ASSUME Typed, [Next]_vars PROVE Typed'
    OBVIOUS
<1> USE DEF env, memory, passes
<1>0. port \in Port /\ Closed(port) \in Port
    BY ClosedPort DEF Typed
<1>a. ASSUME UNCHANGED <<info, flash, header, pos, second, chunk, accepted>>,
             port' \in Port
      PROVE  Typed'
    BY <1>a DEF Typed, Payload
<1>1. CASE ReadHeader
    <2>1. port' \in Port /\ UNCHANGED <<flash, header, pos, second, chunk, accepted>>
        BY <1>0, <1>1 DEF ReadHeader, Reads
    <2>2. CASE UNCHANGED passes
        BY <1>a, <2>1, <2>2
    <2>3. CASE ~UNCHANGED passes
        <3>1. /\ header.magic /\ header.good /\ HeaderInRange(header)
              /\ info' = [offset |-> header.offset, length |-> header.length,
                          crc |-> header.crc]
            BY <1>1, <2>3 DEF ReadHeader
        <3>2. header.offset \in Nat /\ header.length \in Nat
            BY <3>1, BootAssumption DEF Typed, NoImage
        <3>3. /\ info'.offset \in Nat /\ info'.length \in Nat
              /\ Payload' + info'.length <= FlashBytes
            BY <3>1, <3>2, BootAssumption DEF HeaderInRange, Payload
        <3> QED BY <2>1, <3>3 DEF Typed
    <2> QED BY <2>2, <2>3
<1>2. CASE ReadFirst
    <2>1. /\ port' \in Port
          /\ UNCHANGED <<info, flash, header, second, chunk, accepted>>
        BY <1>0, <1>2 DEF ReadFirst, Reads
    <2>2. pos' \in Nat
        BY <1>2, PageTyped DEF ReadFirst, Typed
    <2> QED BY <2>1, <2>2 DEF Typed, Payload
<1>3. CASE ReadNative
    <2>1. /\ port' \in Port
          /\ UNCHANGED <<info, flash, header, second, chunk, accepted>>
        BY <1>0, <1>3 DEF ReadNative, Reads
    <2>2. pos' \in Nat
        BY <1>3, BootAssumption DEF ReadNative, Typed
    <2> QED BY <2>1, <2>2 DEF Typed, Payload
<1>4. CASE Decide
    BY <1>4 DEF Decide, Keeps, Typed, Payload
<1>5. CASE NotCapable \/ SendFails \/ PollsRunOut
    BY <1>0, <1>5, <1>a DEF NotCapable, SendFails, PollsRunOut, GivesUp, Abort,
        WriteAbort
<1>6. CASE Prepare
    <2>1. port' \in Port
        BY <1>0, <1>6 DEF Prepare, WriteExpected, Port, Typed
    <2> QED BY <1>6, <2>1, <1>a DEF Prepare
<1>7. CASE Arm
    <2>1. port' \in Port
        BY <1>0, <1>7 DEF Arm, WriteArm, Port, PortState
    <2> QED BY <1>7, <2>1, <1>a DEF Arm
<1>8. CASE ReadSecond
    <2>1. port' \in Port /\ UNCHANGED <<info, flash, header, accepted>>
        BY <1>0, <1>8 DEF ReadSecond, Reads, Abort, WriteAbort
    <2>2. CASE UNCHANGED passes
        BY <2>1, <2>2, <1>a
    <2>3. CASE ~UNCHANGED passes
        <3>1. /\ pos < info.length
              /\ chunk' = Bytes(Payload + pos, PageSize)
              /\ second' = second \o chunk' /\ pos' = pos + PageSize
            BY <1>8, <2>3 DEF ReadSecond
        <3>2. chunk' \in Seq(Cell) /\ pos' \in Nat
            BY <3>1, PageTyped DEF Typed
        <3>3. second' \in Seq(Cell)
            BY <3>1, <3>2, ConcatProperties DEF Typed
        <3> QED BY <2>1, <3>2, <3>3 DEF Typed, Payload
    <2> QED BY <2>2, <2>3
<1>9. CASE Send
    <2>1. Head(chunk) \in Cell /\ Tail(chunk) \in Seq(Cell)
        BY <1>9, HeadTailProperties DEF Send, Typed
    <2>2. port' \in Port
        <3>1. ASSUME NEW b \in Cell, WriteData(b) PROVE port' \in Port
            <4>1. [port EXCEPT !.state = "PULSE", !.data = b, !.sent = @ + 1]
                    \in Port
                <5>1. port.sent + 1 \in Nat /\ "PULSE" \in PortState
                    BY <1>0 DEF Port, PortState
                <5> QED BY <1>0, <5>1 DEF Port
            <4> QED BY <1>0, <3>1, <4>1 DEF WriteData
        <3> QED BY <1>9, <2>1, <3>1 DEF Send
    <2> QED BY <1>9, <2>1, <2>2 DEF Send, Typed, Payload
<1>10. CASE Recheck
    <2>1. port' \in Port
        BY <1>0, <1>10 DEF Recheck, Abort, WriteAbort
    <2> QED BY <1>10, <2>1, <1>a DEF Recheck
<1>11. CASE Finish
    <2>1. port' \in Port
        BY <1>0, <1>11 DEF Finish, WriteFinish, Port, PortState
    <2> QED BY <1>11, <2>1, <1>a DEF Finish
<1>12. CASE Armed \/ Finished \/ NativeDecide \/ Qualified \/ NeverQualified
              \/ ArmGate \/ Execute \/ Executed \/ GateStep \/ Settle
              \/ UNCHANGED vars
    BY <1>0, <1>12, <1>a DEF Armed, Finished, NativeDecide, Qualified,
        NeverQualified, ArmGate, Execute, Executed, GateStep, Settle, Keeps, vars
<1>13. CASE PortStep
    BY <1>13, PortStepTyped DEF PortStep, Typed, Payload
<1>14. CASE Disturb
    <2>1. flash' \in [Addr -> Cell]
        BY <1>14 DEF Disturb, Typed
    <2> QED BY <1>14, <2>1 DEF Disturb, Typed, Payload
<1> QED BY <1>1, <1>2, <1>3, <1>4, <1>5, <1>6, <1>7, <1>8, <1>9, <1>10, <1>11,
            <1>12, <1>13, <1>14 DEF Next, Firmware, Logic

----------------------------------------------------------------------------
OpenInv ==
    /\ port.en => pc \in Streaming \/ result = "STREAM_COMPLETE"
    /\ result = "STREAM_COMPLETE" => pc = "halt"

LEMMA OpenStep == Typed /\ OpenInv /\ [Next]_vars => OpenInv'
<1> SUFFICES ASSUME Typed, OpenInv, [Next]_vars PROVE OpenInv'
    OBVIOUS
<1>0. port \in Port /\ Closed(port).en = FALSE
    BY ClosedPort DEF Typed
<1> USE DEF OpenInv, Streaming
<1>1. CASE ReadHeader \/ ReadFirst
    <2>1. pc \in {"header", "first"} /\ result # "STREAM_COMPLETE" /\ ~port.en
        BY <1>1 DEF ReadHeader, ReadFirst
    <2>2. ~port'.en
        BY <1>0, <1>1, <2>1 DEF ReadHeader, ReadFirst, Reads
    <2>3. result' \in {result, "INVALID", "NO_IMAGE"}
        BY <1>1 DEF ReadHeader, ReadFirst, Halt
    <2> QED BY <2>1, <2>2, <2>3
<1>2. CASE ReadNative
    <2>1. pc = "native" /\ result # "STREAM_COMPLETE" /\ ~port.en
        BY <1>2 DEF ReadNative
    <2>2. ~port'.en
        BY <1>0, <1>2, <2>1 DEF ReadNative, Reads
    <2>3. result' \in {result, "INVALID"}
        BY <1>2 DEF ReadNative, Halt
    <2> QED BY <2>1, <2>2, <2>3
<1>3. CASE Decide \/ NativeDecide
    BY <1>3 DEF Decide, NativeDecide, Keeps, Halt
<1>4. CASE NotCapable \/ SendFails \/ PollsRunOut
    BY <1>0, <1>4 DEF NotCapable, SendFails, PollsRunOut, GivesUp, Abort,
        WriteAbort, Halt
<1>5. CASE Prepare
    <2>1. pc = "prepare" /\ result # "STREAM_COMPLETE" /\ ~port.en
        BY <1>5 DEF Prepare
    <2>2. ~port'.en
        BY <1>0, <1>5, <2>1 DEF Prepare, WriteExpected, Port
    <2> QED BY <1>5, <2>1, <2>2 DEF Prepare
<1>6. CASE Arm \/ Armed
    BY <1>6 DEF Arm, Armed, Keeps
<1>7. CASE ReadSecond
    BY <1>0, <1>7 DEF ReadSecond, Abort, WriteAbort, Halt
<1>8. CASE Send
    BY <1>8 DEF Send
<1>9. CASE Recheck
    BY <1>0, <1>9 DEF Recheck, Abort, WriteAbort, Halt
<1>10. CASE Finish \/ Finished
    BY <1>10 DEF Finish, Finished, Halt, Keeps
<1>11. CASE Qualified \/ NeverQualified \/ ArmGate \/ Execute \/ Executed
    BY <1>11 DEF Qualified, NeverQualified, ArmGate, Execute, Executed, Keeps,
        Halt
<1>12. CASE PortStep
    <2>1. port'.en => port.en
        BY <1>0, <1>12 DEF PortStep, Port
    <2> QED BY <1>12, <2>1 DEF PortStep
<1>13. CASE GateStep \/ Settle \/ Disturb \/ UNCHANGED vars
    BY <1>13 DEF GateStep, Settle, Disturb, vars
<1> QED BY <1>1, <1>2, <1>3, <1>4, <1>5, <1>6, <1>7, <1>8, <1>9, <1>10, <1>11,
            <1>12, <1>13 DEF Next, Firmware, Logic

\* An attempt that ends without a complete stream leaves the configuration port
\* closed (ulx5m_normal_boot_run aborts on every error).
THEOREM FailClosedCorrect == Spec => []FailClosed
<1>1. Init => OpenInv
    BY DEF Init, OpenInv
<1>2. OpenInv => FailClosed
    BY DEF OpenInv, FailClosed, Streaming
<1> QED BY <1>1, <1>2, InitTyped, TypedStep, OpenStep, PTL DEF Spec

----------------------------------------------------------------------------
\* The byte on its way.
Flight == IF port.state = "PULSE" THEN <<port.data>> ELSE <<>>

PortPlace ==
    /\ pc \in Before \cup Streaming \cup {"halt"}
    /\ pc \in Before => port.state \in {"IDLE", "ERROR"}
    /\ pc = "armed" => port.state \in {"LEAD", "READY", "ERROR"}
    /\ pc \in {"second", "finish"} =>
           port.state \in {"READY", "PULSE", "GAP", "ERROR"}
    /\ pc = "finished" => port.state \in {"TAIL", "DONE", "ERROR"}
    /\ pc = "halt" => port.state \in {"IDLE", "DONE", "ERROR"}

Unsent ==
    /\ pc \in Before \cup {"armed"} =>
           accepted = <<>> /\ second = <<>> /\ chunk = <<>>
    /\ pc \in {"prepare", "arm", "armed"} => pos = 0

Carried ==
    port.state \in {"READY", "PULSE", "GAP"} =>
        (accepted \o Flight) \o chunk = second

Checked ==
    /\ pc \in Armable => authorize /\ Acceptable
    /\ pc \in {"second", "finish"} => Len(second) = pos /\ pos <= info.length
    /\ pc = "finish" =>
           chunk = <<>> /\ pos = info.length /\ Crc(second) = info.crc

BootInv == PortPlace /\ Unsent /\ Carried /\ Checked /\ DoneVerified

Places == Before \cup Streaming \cup {"halt"}

LEMMA PortPlaceStep ==
    ASSUME Typed, PortPlace, [Next]_vars PROVE PortPlace'
<1> USE DEF PortPlace, Before, Streaming
<1>0. port \in Port /\ Closed(port).state = "ERROR"
    BY ClosedPort DEF Typed
<1>1. CASE ReadHeader \/ ReadFirst
    <2>1. port' = port /\ pc' \in {pc, "first", "halt"}
          /\ pc \in {"header", "first"}
        BY <1>1 DEF ReadHeader, ReadFirst, Reads, Halt
    <2> QED BY <2>1
<1>2. CASE ReadNative
    <2>1. port' = port /\ pc' \in {pc, "halt"} /\ pc = "native"
        BY <1>2 DEF ReadNative, Reads, Halt
    <2> QED BY <2>1
<1>3. CASE Decide \/ NativeDecide
    <2>1. port' = port /\ pc \in Before /\ pc' \in {"halt", "prepare", "qualify"}
        BY <1>3 DEF Decide, NativeDecide, Keeps, Halt
    <2> QED BY <2>1
<1>4. CASE NotCapable \/ SendFails \/ PollsRunOut
    BY <1>0, <1>4 DEF NotCapable, SendFails, PollsRunOut, GivesUp, Abort,
        WriteAbort, Halt
<1>5. CASE Prepare
    <2>1. pc = "prepare" /\ pc' = "arm"
        BY <1>5 DEF Prepare
    <2>2. port'.state \in {"IDLE", "ERROR"}
        BY <1>0, <1>5 DEF Prepare, WriteExpected, Port
    <2> QED BY <2>1, <2>2
<1>6. CASE Arm
    <2>1. pc = "arm" /\ pc' = "armed"
        BY <1>6 DEF Arm
    <2>2. port'.state \in {"LEAD", "ERROR"}
        BY <1>0, <1>6 DEF Arm, WriteArm, Port
    <2> QED BY <2>1, <2>2
<1>7. CASE Armed
    BY <1>7 DEF Armed, Keeps, CanWait, PortReady
<1>8. CASE ReadSecond
    <2>1. pc = "second" /\ pc' \in {"second", "halt"}
        BY <1>8 DEF ReadSecond, Abort, Halt
    <2>2. port'.state = "ERROR" \/ (port' = port /\ pc' = "second")
        BY <1>0, <1>8 DEF ReadSecond, Reads, Abort, WriteAbort, Halt
    <2> QED BY <2>1, <2>2
<1>9. CASE Send
    <2>1. pc = "second" /\ pc' = "second"
        BY <1>9 DEF Send
    <2>2. port'.state \in {"PULSE", "ERROR"}
        <3>1. ASSUME NEW b, WriteData(b) PROVE port'.state \in {"PULSE", "ERROR"}
            BY <1>0, <3>1 DEF WriteData, Port
        <3> QED BY <1>9, <3>1 DEF Send
    <2> QED BY <2>1, <2>2
<1>10. CASE Recheck
    BY <1>0, <1>10 DEF Recheck, Abort, WriteAbort, Halt
<1>11. CASE Finish
    <2>1. pc = "finish" /\ pc' = "finished"
        BY <1>11 DEF Finish
    <2>2. port'.state \in {"TAIL", "ERROR"}
        BY <1>0, <1>11 DEF Finish, WriteFinish, Port
    <2> QED BY <2>1, <2>2
<1>12. CASE Finished
    BY <1>12 DEF Finished, Halt, Keeps
<1>13. CASE Qualified \/ NeverQualified \/ ArmGate \/ Execute \/ Executed
    <2>1. /\ port' = port /\ pc \in Before
          /\ pc' \in {"armGate", "armedGate", "executed", "halt"}
        BY <1>13 DEF Qualified, NeverQualified, ArmGate, Execute, Executed,
            Keeps, Halt
    <2> QED BY <2>1
<1>14. CASE PortStep
    <2>1. pc' = pc
        BY <1>14 DEF PortStep
    <2>2. \/ port.state = "LEAD" /\ port'.state = "READY"
          \/ port.state = "PULSE" /\ port'.state = "GAP"
          \/ port.state = "GAP" /\ port'.state = "READY"
          \/ port.state = "TAIL" /\ port'.state = "DONE"
        BY <1>0, <1>14 DEF PortStep, Port
    <2> QED BY <2>1, <2>2
<1>15. CASE GateStep \/ Settle \/ Disturb \/ UNCHANGED vars
    BY <1>15 DEF GateStep, Settle, Disturb, vars
<1> QED BY <1>1, <1>2, <1>3, <1>4, <1>5, <1>6, <1>7, <1>8, <1>9, <1>10, <1>11,
            <1>12, <1>13, <1>14, <1>15 DEF Next, Firmware, Logic

\* The steps of the firmware before the second pass, and of everything else
\* that leaves the bytes alone.
BytesKept == UNCHANGED <<accepted, second, chunk>>

LEMMA UnsentStep ==
    ASSUME Typed, PortPlace, Unsent, [Next]_vars PROVE Unsent'
<1> USE DEF Unsent, Before, passes, env, memory
<1>1. CASE ReadHeader \/ ReadFirst \/ ReadNative
    <2>1. BytesKept /\ pc \in {"header", "first", "native"}
          /\ pc' \in {pc, "first", "halt"}
        BY <1>1 DEF ReadHeader, ReadFirst, ReadNative, Reads, Halt, BytesKept
    <2> QED BY <2>1 DEF BytesKept
<1>2. CASE Decide
    <2>1. BytesKept /\ pc = "first" /\ pos' = 0
        BY <1>2 DEF Decide, Keeps, BytesKept
    <2> QED BY <2>1 DEF BytesKept
<1>3. CASE NotCapable \/ SendFails \/ PollsRunOut
    BY <1>3 DEF NotCapable, SendFails, PollsRunOut, GivesUp, Abort, Halt
<1>4. CASE Prepare \/ Arm
    <2>1. BytesKept /\ pos' = pos /\ pc \in {"prepare", "arm"}
        BY <1>4 DEF Prepare, Arm, BytesKept
    <2> QED BY <2>1 DEF BytesKept
<1>5. CASE ReadSecond \/ Send \/ Recheck \/ Armed \/ Finish \/ Finished
    <2>1. pc' \in {"second", "finish", "finished", "halt"}
        BY <1>5 DEF ReadSecond, Send, Recheck, Armed, Finish, Finished, Abort,
            Halt
    <2> QED BY <2>1
<1>6. CASE NativeDecide \/ Qualified \/ NeverQualified \/ ArmGate \/ Execute
             \/ Executed
    <2>1. BytesKept /\ pc \in Before
          /\ pc' \in {"qualify", "armGate", "armedGate", "executed", "halt"}
        BY <1>6 DEF NativeDecide, Qualified, NeverQualified, ArmGate, Execute,
            Executed, Keeps, Halt, BytesKept
    <2> QED BY <2>1 DEF BytesKept
<1>7. CASE PortStep
    <2>1. UNCHANGED <<pc, pos, second, chunk>>
        BY <1>7 DEF PortStep
    <2>2. pc \in Before \cup {"armed"} => port.state # "PULSE"
        BY DEF PortPlace
    <2>3. port.state # "PULSE" => accepted' = accepted
        BY <1>7 DEF PortStep
    <2> QED BY <2>1, <2>2, <2>3
<1>8. CASE GateStep \/ Settle \/ Disturb \/ UNCHANGED vars
    <2>1. BytesKept /\ UNCHANGED <<pc, pos>>
        BY <1>8 DEF GateStep, Settle, Disturb, vars, BytesKept
    <2> QED BY <2>1 DEF BytesKept
<1> QED BY <1>1, <1>2, <1>3, <1>4, <1>5, <1>6, <1>7, <1>8
        DEF Next, Firmware, Logic

\* Sending moves the first of the bytes left to the port.
LEMMA HeadOff ==
    ASSUME NEW s \in Seq(Cell), NEW c \in Seq(Cell), c # <<>>
    PROVE  (s \o <<Head(c)>>) \o Tail(c) = s \o c
<1>1. /\ Head(c) \in Cell /\ Tail(c) \in Seq(Cell) /\ Len(Tail(c)) = Len(c) - 1
      /\ \A i \in 1 .. Len(Tail(c)) : Tail(c)[i] = c[i + 1]
    BY HeadTailProperties
<1>2. Len(c) \in Nat \ {0} /\ Len(s) \in Nat
    BY EmptySeq, LenProperties
<1>3. <<Head(c)>> \in Seq(Cell) /\ Len(<<Head(c)>>) = 1
      /\ <<Head(c)>>[1] = Head(c)
    BY <1>1
<1>4. <<Head(c)>> \o Tail(c) = c
    <2>1. /\ <<Head(c)>> \o Tail(c) \in Seq(Cell)
          /\ Len(<<Head(c)>> \o Tail(c)) = 1 + Len(Tail(c))
          /\ \A i \in 1 .. 1 + Len(Tail(c)) :
                 (<<Head(c)>> \o Tail(c))[i]
                   = IF i <= 1 THEN <<Head(c)>>[i] ELSE Tail(c)[i - 1]
        BY <1>1, <1>3, ConcatProperties
    <2>2. Head(c) = c[1]
        BY <1>2
    <2>3. ASSUME NEW i \in 1 .. Len(c)
          PROVE  (<<Head(c)>> \o Tail(c))[i] = c[i]
        BY <1>1, <1>2, <1>3, <2>1, <2>2
    <2>4. Len(<<Head(c)>> \o Tail(c)) = Len(c)
        BY <1>1, <1>2, <2>1
    <2> QED BY <2>1, <2>3, <2>4, SeqEqual
<1> QED BY <1>1, <1>3, <1>4, ConcatAssociative

LEMMA CarriedStep ==
    ASSUME Typed, BootInv, [Next]_vars PROVE Carried'
<1> USE DEF passes, env, memory
<1>0. /\ port \in Port /\ Closed(port).state = "ERROR"
      /\ accepted \in Seq(Cell) /\ second \in Seq(Cell) /\ chunk \in Seq(Cell)
      /\ port.data \in Cell
    BY ClosedPort DEF Typed, Port
<1>a. /\ accepted \o <<>> = accepted
      /\ <<>> \o chunk = chunk
    BY <1>0, ConcatEmptySeq
<1>b. PortPlace /\ Unsent /\ Carried /\ PortPlace'
    BY PortPlaceStep DEF BootInv
<1>c. ASSUME port'.state \notin {"READY", "PULSE", "GAP"} PROVE Carried'
    BY <1>c DEF Carried
<1>d. ASSUME UNCHANGED <<port, accepted, chunk, second>> PROVE Carried'
    BY <1>b, <1>d DEF Carried, Flight
<1>1. CASE pc' \in Before \cup {"finished", "halt"}
    BY <1>b, <1>1, <1>c DEF PortPlace
<1>2. CASE Arm
    <2>1. port'.state \in {"LEAD", "ERROR"}
        BY <1>0, <1>2 DEF Arm, WriteArm, Port
    <2> QED BY <2>1, <1>c
<1>3. CASE Armed \/ Finished \/ GateStep \/ Settle \/ Disturb \/ UNCHANGED vars
    BY <1>3, <1>d DEF Armed, Finished, GateStep, Settle, Disturb, Keeps, vars
<1>4. CASE Recheck
    BY <1>0, <1>4, <1>c, <1>d DEF Recheck, Abort, WriteAbort
<1>5. CASE ReadSecond
    <2>1. CASE port'.state = "ERROR"
        BY <2>1, <1>c
    <2>2. CASE port'.state # "ERROR"
        <3>1. /\ port' = port /\ accepted' = accepted /\ port.state # "PULSE"
              /\ chunk = <<>> /\ second' = second \o chunk'
              /\ chunk' = Bytes(Payload + pos, PageSize) /\ pos < info.length
            BY <1>0, <1>5, <2>2 DEF ReadSecond, Abort, WriteAbort, Reads
        <3>2. chunk' \in Seq(Cell)
            BY <3>1, PageTyped
        <3>3. ASSUME port.state \in {"READY", "GAP"} PROVE second = accepted
            BY <1>0, <1>a, <1>b, <3>1, <3>3 DEF Carried, Flight
        <3> QED BY <1>a, <3>1, <3>3 DEF Carried, Flight
    <2> QED BY <2>1, <2>2
<1>6. CASE Send
    <2>1. CASE port'.state = "ERROR"
        BY <2>1, <1>c
    <2>2. CASE port'.state # "ERROR"
        <3>1. /\ port.state = "READY" /\ chunk # <<>> /\ chunk' = Tail(chunk)
              /\ second' = second /\ accepted' = accepted
              /\ WriteData(Head(chunk))
            BY <1>6 DEF Send, CanWait, PortReady
        <3>2. port'.state = "PULSE" /\ port'.data = Head(chunk)
            <4>1. ASSUME NEW b, WriteData(b)
                  PROVE  port'.state = "PULSE" /\ port'.data = b
                BY <1>0, <2>2, <4>1 DEF WriteData, Port
            <4> QED BY <3>1, <4>1
        <3>3. second = accepted \o chunk
            BY <1>a, <1>b, <3>1 DEF Carried, Flight
        <3>4. (accepted \o <<Head(chunk)>>) \o Tail(chunk) = second
            BY <1>0, <3>1, <3>3, HeadOff
        <3> QED BY <3>1, <3>2, <3>4 DEF Carried, Flight
    <2> QED BY <2>1, <2>2
<1>7. CASE PortStep
    <2>1. second' = second /\ chunk' = chunk /\ pc' = pc
        BY <1>7 DEF PortStep
    <2>2. CASE port.state = "LEAD"
        <3>1. pc = "armed"
            BY <1>b, <2>2 DEF PortPlace, Before, Streaming
        <3>2. accepted = <<>> /\ second = <<>> /\ chunk = <<>>
            BY <1>b, <3>1 DEF Unsent
        <3>3. accepted' = accepted /\ port'.state = "READY"
            BY <1>0, <1>7, <2>2 DEF PortStep, Port
        <3> QED BY <1>a, <2>1, <3>2, <3>3 DEF Carried, Flight
    <2>3. CASE port.state = "PULSE"
        <3>1. accepted' = Append(accepted, port.data) /\ port'.state = "GAP"
            BY <1>0, <1>7, <2>3 DEF PortStep, Port
        <3>2. accepted' = accepted \o <<port.data>> /\ accepted' \in Seq(Cell)
            BY <1>0, <3>1, AppendIsConcat, AppendProperties
        <3>3. accepted' \o <<>> = accepted'
            BY <3>2, ConcatEmptySeq
        <3> QED BY <1>b, <2>1, <2>3, <3>1, <3>2, <3>3 DEF Carried, Flight
    <2>4. CASE port.state = "GAP"
        <3>1. accepted' = accepted /\ port'.state = "READY"
            BY <1>0, <1>7, <2>4 DEF PortStep, Port
        <3> QED BY <1>b, <2>1, <2>4, <3>1 DEF Carried, Flight
    <2>5. CASE port.state = "TAIL"
        <3>1. port'.state = "DONE"
            BY <1>0, <1>7, <2>5 DEF PortStep, Port
        <3> QED BY <3>1, <1>c
    <2> QED BY <1>7, <2>2, <2>3, <2>4, <2>5 DEF PortStep
<1>8. ReadHeader \/ ReadFirst \/ Decide \/ NotCapable \/ Prepare \/ SendFails
        \/ Finish \/ PollsRunOut \/ ReadNative \/ NativeDecide \/ Qualified
        \/ NeverQualified \/ ArmGate \/ Execute \/ Executed
      => pc' \in Before \cup {"finished", "halt"}
    BY DEF ReadHeader, ReadFirst, Decide, NotCapable, Prepare, SendFails, Finish,
        PollsRunOut, GivesUp, Abort, ReadNative, NativeDecide, Qualified,
        NeverQualified, ArmGate, Execute, Executed, Halt, Before
<1> QED BY <1>1, <1>2, <1>3, <1>4, <1>5, <1>6, <1>7, <1>8
        DEF Next, Firmware, Logic

\* What was decided after the first pass stays decided.
LEMMA AcceptableKept ==
    ASSUME UNCHANGED <<authorize, info, first>>, authorize /\ Acceptable
    PROVE  (authorize /\ Acceptable)'
BY DEF Acceptable, Payload

LEMMA CheckedStep ==
    ASSUME Typed, BootInv, [Next]_vars PROVE Checked'
<1> USE DEF passes, env, memory
<1>b. PortPlace /\ Unsent /\ Carried /\ Checked
    BY DEF BootInv
<1>c. ASSUME pc' \notin Armable PROVE Checked'
    BY <1>c DEF Checked, Armable
<1>d. ASSUME UNCHANGED <<authorize, info, first, second, pos, chunk>>,
             pc \in Armable, pc' \in {"prepare", "arm", "armed", "finished"}
      PROVE  Checked'
    BY <1>b, <1>d, AcceptableKept DEF Checked
<1>e. ASSUME UNCHANGED <<authorize, info, first, second, pos, chunk, pc>>
      PROVE  Checked'
    <2>1. Acceptable' = Acceptable
        BY <1>e DEF Acceptable, Payload
    <2> QED BY <1>b, <1>e, <2>1 DEF Checked
<1>1. CASE ReadHeader \/ ReadFirst \/ ReadNative \/ NativeDecide \/ Qualified
             \/ NeverQualified \/ ArmGate \/ Execute \/ Executed
    <2>1. pc' \notin Armable
        BY <1>1 DEF ReadHeader, ReadFirst, ReadNative, NativeDecide, Qualified,
            NeverQualified, ArmGate, Execute, Executed, Halt, Armable
    <2> QED BY <2>1, <1>c
<1>2. CASE Decide
    <2>1. CASE pc' = "prepare"
        <3>1. authorize /\ Acceptable /\ UNCHANGED <<authorize, info, first>>
            BY <1>2, <2>1 DEF Decide, Halt, Keeps
        <3> QED BY <2>1, <3>1, AcceptableKept DEF Checked
    <2>2. CASE pc' # "prepare"
        <3>1. pc' = "halt"
            BY <1>2, <2>2 DEF Decide, Halt
        <3> QED BY <3>1, <1>c DEF Armable
    <2> QED BY <2>1, <2>2
<1>3. CASE NotCapable \/ SendFails \/ PollsRunOut
    <2>1. pc' = "halt"
        BY <1>3 DEF NotCapable, SendFails, PollsRunOut, GivesUp, Abort, Halt
    <2> QED BY <2>1, <1>c DEF Armable
<1>4. CASE Prepare \/ Arm \/ Finish
    BY <1>4, <1>d DEF Prepare, Arm, Finish, Armable
<1>5. CASE Armed
    <2>1. /\ UNCHANGED <<authorize, info, first, second, pos>>
          /\ pc = "armed" /\ pc' = "second"
        BY <1>5 DEF Armed, Keeps
    <2>2. second = <<>> /\ pos = 0
        BY <1>b, <2>1 DEF Unsent
    <2>3. info.length \in Nat /\ Len(<<>>) = 0
        BY DEF Typed
    <2> QED BY <1>b, <2>1, <2>2, <2>3, AcceptableKept DEF Checked, Armable
<1>6. CASE ReadSecond
    <2>1. CASE pc' = "halt"
        BY <2>1, <1>c DEF Armable
    <2>2. CASE pc' # "halt"
        <3>1. /\ pc = "second" /\ pc' = "second" /\ pos < info.length
              /\ UNCHANGED <<authorize, info, first>>
              /\ chunk' = Bytes(Payload + pos, PageSize)
              /\ second' = second \o chunk' /\ pos' = pos + PageSize
            BY <1>6, <2>2 DEF ReadSecond, Abort, Halt, Reads
        <3>2. /\ chunk' \in Seq(Cell) /\ Len(chunk') = PageSize
              /\ pos' <= info.length /\ second \in Seq(Cell)
            BY <3>1, PageTyped DEF Typed
        <3>3. Len(second') = Len(second) + Len(chunk')
            BY <3>1, <3>2, ConcatProperties
        <3>4. Len(second) = pos
            BY <1>b, <3>1 DEF Checked
        <3> QED BY <1>b, <3>1, <3>2, <3>3, <3>4, AcceptableKept
            DEF Checked, Armable
    <2> QED BY <2>1, <2>2
<1>7. CASE Send
    <2>1. /\ UNCHANGED <<authorize, info, first, second, pos>>
          /\ pc = "second" /\ pc' = "second"
        BY <1>7 DEF Send
    <2> QED BY <1>b, <2>1, AcceptableKept DEF Checked, Armable
<1>8. CASE Recheck
    <2>1. CASE pc' = "halt"
        BY <2>1, <1>c DEF Armable
    <2>2. CASE pc' # "halt"
        <3>1. /\ pc = "second" /\ pc' = "finish" /\ Crc(second) = info.crc
              /\ chunk = <<>> /\ pos = info.length
              /\ UNCHANGED <<authorize, info, first, second, pos, chunk>>
            BY <1>8, <2>2 DEF Recheck, Abort, Halt
        <3>2. Len(second) = pos /\ pos <= info.length /\ authorize /\ Acceptable
            BY <1>b, <3>1 DEF Checked, Armable
        <3>3. (authorize /\ Acceptable)'
            BY <3>1, <3>2, AcceptableKept
        <3>4. second' = second /\ pos' = pos /\ info' = info /\ chunk' = chunk
            BY <3>1
        <3> QED BY <3>1, <3>2, <3>3, <3>4 DEF Checked
    <2> QED BY <2>1, <2>2
<1>9. CASE Finished
    BY <1>9, <1>c DEF Finished, Halt, Armable
<1>10. CASE PortStep \/ GateStep \/ Settle \/ Disturb \/ UNCHANGED vars
    BY <1>10, <1>e DEF PortStep, GateStep, Settle, Disturb, vars
<1> QED BY <1>1, <1>2, <1>3, <1>4, <1>5, <1>6, <1>7, <1>8, <1>9, <1>10
        DEF Next, Firmware, Logic

LEMMA DoneStep ==
    ASSUME Typed, BootInv, [Next]_vars PROVE DoneVerified'
<1> USE DEF passes, env, memory
<1>0. /\ port \in Port /\ Closed(port).state = "ERROR"
      /\ accepted \in Seq(Cell) /\ chunk \in Seq(Cell)
    BY ClosedPort DEF Typed
<1>b. PortPlace /\ PortPlace' /\ Carried /\ Checked /\ DoneVerified
    BY PortPlaceStep DEF BootInv
<1>c. ASSUME port'.state \notin {"TAIL", "DONE"} PROVE DoneVerified'
    BY <1>c DEF DoneVerified
<1>d. ASSUME port.state \in {"TAIL", "DONE"},
             UNCHANGED <<authorize, info, first, accepted>>
      PROVE  DoneVerified'
    <2>1. authorize /\ Acceptable /\ (authorize /\ Acceptable)'
        BY <1>b, <1>d, AcceptableKept DEF DoneVerified
    <2> QED BY <1>b, <1>d, <2>1 DEF DoneVerified
<1>1. CASE pc' \notin {"finished", "halt"}
    BY <1>b, <1>1, <1>c DEF PortPlace, Before, Streaming
<1>2. CASE Finish
    <2>1. CASE port'.state = "ERROR"
        BY <2>1, <1>c
    <2>2. CASE port'.state # "ERROR"
        <3>1. /\ pc = "finish" /\ port.state = "READY"
              /\ UNCHANGED <<authorize, info, first, accepted>>
            BY <1>2 DEF Finish, CanWait, PortReady
        <3>2. /\ chunk = <<>> /\ pos = info.length /\ Len(second) = pos
              /\ Crc(second) = info.crc /\ authorize /\ Acceptable
            BY <1>b, <3>1 DEF Checked, Armable
        <3>3. accepted \o <<>> = accepted
            BY <1>0, ConcatEmptySeq
        <3>4. accepted = second
            BY <1>b, <3>1, <3>2, <3>3 DEF Carried, Flight
        <3>5. (authorize /\ Acceptable)'
            BY <3>1, <3>2, AcceptableKept
        <3> QED BY <3>1, <3>2, <3>4, <3>5 DEF DoneVerified
    <2> QED BY <2>1, <2>2
<1>3. CASE Finished
    <2>1. port.state = "DONE" /\ UNCHANGED <<authorize, info, first, accepted>>
        BY <1>3 DEF Finished, Keeps
    <2> QED BY <2>1, <1>d
<1>4. CASE NotCapable \/ SendFails \/ PollsRunOut
    <2>1. port'.state = "ERROR"
        BY <1>0, <1>4 DEF NotCapable, SendFails, PollsRunOut, GivesUp, Abort,
            WriteAbort
    <2> QED BY <2>1, <1>c
<1>5. CASE ReadSecond \/ Recheck
    <2>1. pc = "second" /\ (port'.state = "ERROR" \/ port' = port)
        BY <1>0, <1>5 DEF ReadSecond, Recheck, Reads, Abort, WriteAbort
    <2>2. port.state \notin {"TAIL", "DONE"}
        BY <1>b, <2>1 DEF PortPlace
    <2> QED BY <2>1, <2>2, <1>c
<1>6. CASE ReadHeader \/ ReadFirst \/ ReadNative \/ Decide \/ NativeDecide
             \/ NeverQualified \/ Execute \/ Executed
    <2>1. pc \in Before
        BY <1>6 DEF ReadHeader, ReadFirst, ReadNative, Decide, NativeDecide,
            NeverQualified, Execute, Executed, Before
    <2>2. port.state \notin {"TAIL", "DONE", "PULSE"}
        BY <1>b, <2>1 DEF PortPlace
    <2>3. port' = port
        BY <1>6, <2>2 DEF ReadHeader, ReadFirst, ReadNative, Decide,
            NativeDecide, NeverQualified, Execute, Executed, Reads, Keeps
    <2> QED BY <2>2, <2>3, <1>c
<1>7. CASE PortStep
    <2>1. UNCHANGED <<authorize, info, first>>
        BY <1>7 DEF PortStep
    <2>2. CASE port.state = "TAIL"
        <3>1. accepted' = accepted
            BY <1>7, <2>2 DEF PortStep
        <3> QED BY <2>1, <2>2, <3>1, <1>d
    <2>3. CASE port.state # "TAIL"
        <3>1. port'.state \in {"READY", "GAP"}
            BY <1>0, <1>7, <2>3 DEF PortStep, Port
        <3> QED BY <3>1, <1>c
    <2> QED BY <2>2, <2>3
<1>8. CASE GateStep \/ Settle \/ Disturb \/ UNCHANGED vars
    <2>1. UNCHANGED <<port, authorize, info, first, accepted>>
        BY <1>8 DEF GateStep, Settle, Disturb, vars
    <2> QED BY <2>1, <1>c, <1>d
<1>9. Prepare \/ Arm \/ Armed \/ Send \/ Qualified \/ ArmGate
        => pc' \notin {"finished", "halt"}
    BY DEF Prepare, Arm, Armed, Send, Qualified, ArmGate
<1> QED BY <1>1, <1>2, <1>3, <1>4, <1>5, <1>6, <1>7, <1>8, <1>9
        DEF Next, Firmware, Logic

LEMMA InitBootInv == Init => BootInv
<1> SUFFICES ASSUME Init PROVE BootInv
    OBVIOUS
<1>1. pc \in {"header", "native"} /\ port.state = "IDLE"
      /\ accepted = <<>> /\ second = <<>> /\ chunk = <<>>
    BY DEF Init
<1> QED BY <1>1 DEF BootInv, PortPlace, Unsent, Carried, Checked, DoneVerified,
        Before, Streaming, Armable

\* The configuration controller is told that the stream is complete only after
\* it has taken the bytes the header describes, in an authorized build
\* (ulx5m_normal_boot_run), whatever flash returned and whichever poll ran out.
THEOREM DoneVerifiedCorrect == Spec => []DoneVerified
<1>1. Typed /\ BootInv /\ [Next]_vars => BootInv'
    <2> SUFFICES ASSUME Typed, BootInv, [Next]_vars PROVE BootInv'
        OBVIOUS
    <2>1. PortPlace' /\ Unsent'
        BY PortPlaceStep, UnsentStep DEF BootInv
    <2> QED BY <2>1, CarriedStep, CheckedStep, DoneStep DEF BootInv
<1>2. BootInv => DoneVerified
    BY DEF BootInv
<1> QED BY <1>1, <1>2, InitTyped, InitBootInv, TypedStep, PTL DEF Spec

----------------------------------------------------------------------------
Multiple(x) == \E k \in Nat : x = k * PageBytes

LEMMA MultipleOf ==
    ASSUME NEW x \in Nat, x % PageBytes = 0 PROVE Multiple(x)
<1> DEFINE k == x \div PageBytes
<1>1. k \in Nat /\ x = k * PageBytes + (x % PageBytes)
    BY BootAssumption
<1>2. k * PageBytes \in Nat
    BY <1>1, BootAssumption
<1> HIDE DEF k
<1>3. x = k * PageBytes
    BY <1>1, <1>2
<1> QED BY <1>1, <1>3 DEF Multiple

\* A page that begins in the sector ends in it.
LEMMA PageInSector ==
    ASSUME NEW x \in Nat, Multiple(x), x < EraseBytes
    PROVE  x + PageBytes <= EraseBytes /\ Multiple(x + PageBytes)
<1>0. PageBytes \in Nat \ {0} /\ EraseBytes \in Nat /\ Multiple(EraseBytes)
    BY MultipleOf, BootAssumption
<1>1. PICK k \in Nat : x = k * PageBytes
    BY DEF Multiple
<1>2. PICK m \in Nat : EraseBytes = m * PageBytes
    BY <1>0 DEF Multiple
<1>3. k < m
    BY <1>0, <1>1, <1>2
<1>4. (m - k) * PageBytes >= PageBytes
    BY <1>0, <1>3
<1>5. (m - k) * PageBytes = m * PageBytes - k * PageBytes
    BY <1>0
<1>6. x + PageBytes = (k + 1) * PageBytes
    BY <1>0, <1>1
<1> QED BY <1>0, <1>1, <1>2, <1>4, <1>5, <1>6 DEF Multiple

Gate == [armed : BOOLEAN, fired : BOOLEAN, error : BOOLEAN, pending : BOOLEAN,
         recfg : BOOLEAN]

\* The beginning of a native sector: the stream, then erased bytes.
Native41(s) ==
    \A i \in 1 .. Len(s) :
        /\ i <= Len(Sync) => s[i] = Sync[i]
        /\ i > NativeBytes => s[i] = Erased

Reading ==
    pc = "native" =>
        /\ first \in Seq(Cell) /\ Len(first) = pos
        /\ pos <= EraseBytes /\ Multiple(pos)
        /\ ~invalid => Native41(first)

WholeSector ==
    /\ first \in Seq(Cell) /\ Len(first) = EraseBytes
    /\ Crc(SubSeq(first, 1, NativeBytes)) = NativeCrc
    /\ Native41(first)

\* The places where the gate may be touched.
AtGate == {"qualify", "armGate", "armedGate", "executed"}

Gated ==
    /\ pc \in AtGate => WholeSector
    /\ gate.armed \/ gate.pending \/ gate.recfg =>
           pc \in AtGate \cup {"halt"} /\ WholeSector

NativeInv == gate \in Gate /\ Reading /\ Gated

LEMMA InitNativeInv == Init => NativeInv
<1> SUFFICES ASSUME Init PROVE NativeInv
    OBVIOUS
<1>1. /\ gate = [armed |-> FALSE, fired |-> FALSE, error |-> FALSE,
                 pending |-> FALSE, recfg |-> FALSE]
      /\ pc \in {"header", "native"} /\ first = <<>> /\ pos = 0
    BY DEF Init
<1>2. 0 = 0 * PageBytes
    BY BootAssumption
<1>3. Reading
    BY <1>1, <1>2, BootAssumption DEF Reading, Multiple, Native41
<1>4. gate \in Gate /\ Gated
    BY <1>1 DEF Gate, Gated, AtGate
<1> QED BY <1>3, <1>4 DEF NativeInv

\* A page of the sector is made of cells.
LEMMA SectorPage ==
    ASSUME Typed, NativeInv, pc = "native", pos < EraseBytes
    PROVE  LET page == Bytes(Native + pos, PageBytes)
           IN  page \in Seq(Cell) /\ Len(page) = PageBytes
               /\ DOMAIN page = 1 .. PageBytes
<1>0. /\ pos \in Nat /\ Native \in Nat /\ PageBytes \in Nat /\ FlashBytes \in Nat
      /\ EraseBytes \in Nat /\ Native + EraseBytes <= FlashBytes
      /\ pos + PageBytes <= EraseBytes
    BY PageInSector, BootAssumption DEF Typed, NativeInv, Reading
<1>1. \A i \in 1 .. PageBytes : Native + pos + i - 1 \in Addr
    BY <1>0 DEF Addr
<1>2. \A i \in 1 .. PageBytes : flash[Native + pos + i - 1] \in Cell
    BY <1>1 DEF Typed
<1>3. Bytes(Native + pos, PageBytes) \in [1 .. PageBytes -> Cell]
    BY <1>2 DEF Bytes
<1> QED BY <1>0, <1>3

LEMMA ReadNativeStep ==
    ASSUME Typed, NativeInv, ReadNative PROVE NativeInv'
<1> DEFINE page == Bytes(Native + pos, PageBytes)
<1>0. /\ pc = "native" /\ pos < EraseBytes /\ pos \in Nat
      /\ first \in Seq(Cell) /\ Len(first) = pos /\ Multiple(pos)
      /\ ~invalid => Native41(first)
      /\ ~gate.armed /\ ~gate.pending /\ ~gate.recfg
    BY DEF ReadNative, Typed, NativeInv, Reading, Gated, AtGate
<1>1. /\ gate' \in Gate /\ ~gate'.armed /\ ~gate'.pending /\ ~gate'.recfg
    BY <1>0 DEF ReadNative, Reads, NativeInv, Gate
<1>2. page \in Seq(Cell) /\ Len(page) = PageBytes /\ DOMAIN page = 1 .. PageBytes
    BY <1>0, SectorPage
<1> HIDE DEF page
<1>3. CASE pc' = "halt"
    BY <1>1, <1>3 DEF NativeInv, Reading, Gated, AtGate
<1>4. CASE pc' # "halt"
    <2>1. /\ pc' = "native" /\ first' = first \o page /\ pos' = pos + PageBytes
          /\ invalid' = (invalid \/ PageIsBad(page))
        BY <1>0, <1>4 DEF ReadNative, Halt, page
    <2>2. /\ first' \in Seq(Cell) /\ Len(first') = pos + PageBytes
          /\ \A i \in 1 .. pos : first'[i] = first[i]
          /\ \A i \in (pos + 1) .. (pos + PageBytes) : first'[i] = page[i - pos]
        <3>1. PageBytes \in Nat /\ pos \in Nat
            BY <1>0, BootAssumption
        <3>2. /\ first \o page \in Seq(Cell)
              /\ Len(first \o page) = Len(first) + Len(page)
              /\ \A i \in 1 .. (Len(first) + Len(page)) :
                    (first \o page)[i] = IF i <= Len(first) THEN first[i]
                                          ELSE page[i - Len(first)]
            BY <1>0, <1>2, ConcatProperties
        <3>3. \A i \in 1 .. (pos + PageBytes) :
                    first'[i] = IF i <= pos THEN first[i] ELSE page[i - pos]
            BY <3>2, <1>0, <1>2, <2>1
        <3> QED BY <3>1, <3>2, <3>3, <1>0, <1>2, <2>1
    <2>3. pos' <= EraseBytes /\ Multiple(pos')
        BY <1>0, <2>1, PageInSector
    <2>4. ASSUME ~invalid' PROVE Native41(first')
        <3>1. ~invalid /\ ~PageIsBad(page)
            BY <2>1, <2>4
        <3>2. ASSUME NEW i \in 1 .. pos
              PROVE  /\ i <= Len(Sync) => first'[i] = Sync[i]
                     /\ i > NativeBytes => first'[i] = Erased
            BY <1>0, <2>2, <3>1, <3>2 DEF Native41
        <3>3. ASSUME NEW i \in (pos + 1) .. (pos + PageBytes)
              PROVE  /\ i <= Len(Sync) => first'[i] = Sync[i]
                     /\ i > NativeBytes => first'[i] = Erased
            <4>1. /\ i - pos \in 1 .. PageBytes /\ i \in Nat
                  /\ pos + (i - pos) - 1 = i - 1 /\ (i - 1) + 1 = i
                BY <1>0, BootAssumption
            <4>2. /\ ~(i - 1 < Len(Sync) /\ page[i - pos] # Sync[i])
                  /\ ~(i - 1 >= NativeBytes /\ page[i - pos] # Erased)
                BY <1>2, <3>1, <4>1 DEF PageIsBad
            <4>3. Len(Sync) \in Nat /\ NativeBytes \in Nat
                BY BootAssumption
            <4> QED BY <2>2, <4>1, <4>2, <4>3
        <3>4. Len(first') = pos + PageBytes /\ pos \in Nat /\ PageBytes \in Nat
            BY <1>0, <2>2, BootAssumption
        <3> QED BY <3>2, <3>3, <3>4 DEF Native41
    <2>5. Reading'
        BY <2>1, <2>2, <2>3, <2>4 DEF Reading
    <2>6. Gated'
        BY <1>1, <2>1 DEF Gated, AtGate
    <2> QED BY <1>1, <2>5, <2>6 DEF NativeInv
<1> QED BY <1>3, <1>4

\* A read by the other build leaves the gate as closed as it was.
LEMMA ReadsGate ==
    ASSUME NativeInv, Reads, pc \notin AtGate \cup {"halt"}
    PROVE  gate' \in Gate /\ ~gate'.armed /\ ~gate'.pending /\ ~gate'.recfg
BY DEF NativeInv, Gated, Gate, Reads

LEMMA NativeStep ==
    ASSUME Typed, NativeInv, [Next]_vars PROVE NativeInv'
<1> USE DEF passes, env, memory
<1>0. gate \in Gate
    BY DEF NativeInv
<1>a. ASSUME UNCHANGED <<pc, pos, first, invalid, gate>> PROVE NativeInv'
    BY <1>a DEF NativeInv, Reading, Gated, WholeSector
<1>b. ASSUME pc \notin AtGate \cup {"halt"}, pc' \notin AtGate \cup {"native"},
             gate' = gate
      PROVE  NativeInv'
    BY <1>b DEF NativeInv, Reading, Gated
<1>1. CASE ReadNative
    BY <1>1, ReadNativeStep
<1>2. CASE ReadHeader \/ ReadFirst
    <2>1. Reads /\ pc \in {"header", "first"} /\ pc' \in {"first", "halt"}
        BY <1>2 DEF ReadHeader, ReadFirst, Halt
    <2> QED BY <2>1, ReadsGate DEF NativeInv, Reading, Gated, AtGate
<1>3. CASE ReadSecond
    <2>1. pc = "second" /\ pc' \in {"second", "halt"} /\ (gate' = gate \/ Reads)
        BY <1>3 DEF ReadSecond, Abort, Halt
    <2>2. CASE gate' = gate
        BY <1>b, <2>1, <2>2 DEF AtGate
    <2>3. CASE Reads
        BY <2>1, <2>3, ReadsGate DEF NativeInv, Reading, Gated, AtGate
    <2> QED BY <2>1, <2>2, <2>3
<1>4. CASE Decide \/ NotCapable \/ Prepare \/ Arm \/ Armed \/ Send \/ SendFails
           \/ Recheck \/ Finish \/ Finished \/ PollsRunOut
    <2>1. /\ pc \in {"first", "prepare", "arm", "armed", "second", "finish", "finished"}
          /\ pc' \notin AtGate \cup {"native"} /\ gate' = gate
        BY <1>4 DEF Decide, NotCapable, Prepare, Arm, Armed, Send, SendFails,
            Recheck, Finish, Finished, PollsRunOut, GivesUp, Abort, Halt, Keeps,
            AtGate
    <2> QED BY <1>b, <2>1 DEF AtGate
<1>5. CASE NativeDecide
    <2>1. pc = "native" /\ pos = EraseBytes /\ UNCHANGED <<first, pos, invalid, gate>>
        BY <1>5 DEF NativeDecide, Keeps
    <2>2. CASE pc' = "halt"
        BY <2>1, <2>2 DEF NativeInv, Reading, Gated, AtGate
    <2>3. CASE pc' # "halt"
        <3>1. /\ pc' = "qualify" /\ ~invalid
              /\ Crc(SubSeq(first, 1, NativeBytes)) = NativeCrc
            BY <1>5, <2>3 DEF NativeDecide, Halt
        <3>2. WholeSector'
            BY <2>1, <3>1 DEF NativeInv, Reading, WholeSector, Native41
        <3> QED BY <2>1, <3>1, <3>2 DEF NativeInv, Reading, Gated, AtGate
    <2> QED BY <2>2, <2>3
<1>6. CASE Qualified \/ NeverQualified \/ ArmGate \/ Execute \/ Executed
    <2>1. /\ pc \in AtGate /\ pc' \in AtGate \cup {"halt"}
          /\ UNCHANGED <<first, pos, invalid>>
        BY <1>6 DEF Qualified, NeverQualified, ArmGate, Execute, Executed, Halt,
            Keeps, AtGate
    <2>2. WholeSector'
        BY <2>1 DEF NativeInv, Gated, WholeSector
    <2>3. gate' \in Gate
        BY <1>0, <1>6 DEF Qualified, NeverQualified, ArmGate, Execute, Executed,
            WriteGateArm, WriteGateBoot, Keeps, Gate
    <2> QED BY <2>1, <2>2, <2>3 DEF NativeInv, Reading, Gated, AtGate
<1>7. CASE GateStep
    <2>1. gate.pending /\ UNCHANGED <<pc, first, pos, invalid>> /\ gate' \in Gate
        BY <1>0, <1>7 DEF GateStep, Gate
    <2>2. pc \in AtGate \cup {"halt"} /\ WholeSector
        BY <2>1 DEF NativeInv, Gated
    <2> QED BY <2>1, <2>2 DEF NativeInv, Reading, Gated, WholeSector, AtGate
<1>8. CASE PortStep \/ Settle \/ Disturb \/ UNCHANGED vars
    BY <1>8, <1>a DEF PortStep, Settle, Disturb, vars
<1> QED BY <1>1, <1>2, <1>3, <1>4, <1>5, <1>6, <1>7, <1>8
        DEF Next, Firmware, Logic

LEMMA NativeVerified ==
    ASSUME NativeInv PROVE ReconfiguredVerified
<1> SUFFICES ASSUME gate.recfg PROVE ReconfiguredVerified
    BY DEF ReconfiguredVerified
<1>1. WholeSector
    BY DEF NativeInv, Gated
<1>2. /\ Len(Sync) \in Nat /\ NativeBytes \in Nat /\ EraseBytes \in Nat
      /\ Len(Sync) <= EraseBytes
    BY BootAssumption
<1>3. SubSeq(first, 1, Len(Sync)) = Sync
    <2>1. \A i \in 1 .. Len(Sync) : first[i] = Sync[i]
        BY <1>1, <1>2 DEF WholeSector, Native41
    <2>2. /\ SubSeq(first, 1, Len(Sync)) \in Seq(Cell)
          /\ Len(SubSeq(first, 1, Len(Sync))) = Len(Sync)
          /\ \A i \in 1 .. Len(Sync) : SubSeq(first, 1, Len(Sync))[i] = first[i]
        BY <1>1, <1>2 DEF WholeSector
    <2> QED BY <2>1, <2>2, SeqEqual, BootAssumption
<1>4. \A i \in (NativeBytes + 1) .. EraseBytes : first[i] = Erased
    BY <1>1, <1>2 DEF WholeSector, Native41
<1> QED BY <1>1, <1>3, <1>4 DEF WholeSector, ReconfiguredVerified

\* The FPGA is asked to reconfigure itself only after the whole native sector
\* was read and found to be the image (ulx5m_v41_native_probe) and the gate had
\* both keys (ulx5m_spi_active_boot.c), for every geometry of the flash.
THEOREM ReconfiguredVerifiedCorrect == Spec => []ReconfiguredVerified
<1>1. Typed /\ NativeInv /\ [Next]_vars => NativeInv'
    BY NativeStep
<1>2. NativeInv => ReconfiguredVerified
    BY NativeVerified
<1> QED BY <1>1, <1>2, InitTyped, InitNativeInv, TypedStep, PTL DEF Spec

----------------------------------------------------------------------------
\* What of the types no other proof needs.
OtherTypes ==
    /\ build \in {"stream", "native"}
    /\ authorize \in BOOLEAN /\ capable \in BOOLEAN /\ settled \in BOOLEAN
    /\ invalid \in BOOLEAN /\ first \in Seq(Cell)

LEMMA OtherTypesStep ==
    ASSUME Typed, NativeInv, OtherTypes, [Next]_vars PROVE OtherTypes'
<1> USE DEF env, memory, passes
<1>1. UNCHANGED env
    BY DEF Next, Firmware, Logic, ReadHeader, ReadFirst, Decide, NotCapable,
        Prepare, Arm, Armed, ReadSecond, Send, SendFails, Recheck, Finish,
        Finished, PollsRunOut, GivesUp, ReadNative, NativeDecide, Qualified,
        NeverQualified, ArmGate, Execute, Executed, PortStep, GateStep, Settle,
        Disturb, Reads, Keeps, vars
<1>2. settled' \in {settled, TRUE, FALSE}
    BY DEF Next, Firmware, Logic, ReadHeader, ReadFirst, Decide, NotCapable,
        Prepare, Arm, Armed, ReadSecond, Send, SendFails, Recheck, Finish,
        Finished, PollsRunOut, GivesUp, ReadNative, NativeDecide, Qualified,
        NeverQualified, ArmGate, Execute, Executed, PortStep, GateStep, Settle,
        Disturb, Reads, Keeps, vars
<1>a. ASSUME UNCHANGED <<first, invalid>> PROVE OtherTypes'
    BY <1>a, <1>1, <1>2 DEF OtherTypes
<1>3. CASE ReadFirst
    <2>1. CASE UNCHANGED passes
        BY <2>1, <1>a
    <2>2. CASE ~UNCHANGED passes
        <3> DEFINE page == Bytes(Payload + pos, PageSize)
        <3>1. pos < info.length /\ first' = first \o page /\ invalid' = invalid
            BY <1>3, <2>2 DEF ReadFirst
        <3>2. page \in Seq(Cell)
            BY <3>1, PageTyped
        <3> HIDE DEF page
        <3>3. first' \in Seq(Cell)
            BY <3>1, <3>2, ConcatProperties DEF OtherTypes
        <3> QED BY <1>1, <1>2, <3>1, <3>3 DEF OtherTypes
    <2> QED BY <2>1, <2>2
<1>4. CASE ReadNative
    <2>1. CASE UNCHANGED passes
        BY <2>1, <1>a
    <2>2. CASE ~UNCHANGED passes
        <3> DEFINE page == Bytes(Native + pos, PageBytes)
        <3>1. /\ pc = "native" /\ pos < EraseBytes /\ first' = first \o page
              /\ invalid' = (invalid \/ PageIsBad(page))
            BY <1>4, <2>2 DEF ReadNative
        <3>2. page \in Seq(Cell)
            BY <3>1, SectorPage
        <3>3. invalid' \in BOOLEAN
            BY <3>1
        <3> HIDE DEF page
        <3>4. first' \in Seq(Cell)
            BY <3>1, <3>2, ConcatProperties DEF OtherTypes
        <3> QED BY <1>1, <1>2, <3>3, <3>4 DEF OtherTypes
    <2> QED BY <2>1, <2>2
<1>5. CASE \/ ReadHeader \/ Decide \/ NotCapable \/ Prepare \/ Arm \/ Armed
           \/ ReadSecond \/ Send \/ SendFails \/ Recheck \/ Finish \/ Finished
           \/ PollsRunOut \/ NativeDecide \/ Qualified \/ NeverQualified
           \/ ArmGate \/ Execute \/ Executed \/ Logic \/ Disturb \/ UNCHANGED vars
    <2>1. UNCHANGED <<first, invalid>>
        BY <1>5 DEF ReadHeader, Decide, NotCapable, Prepare, Arm, Armed,
            ReadSecond, Send, SendFails, Recheck, Finish, Finished, PollsRunOut,
            GivesUp, NativeDecide, Qualified, NeverQualified, ArmGate, Execute,
            Executed, Logic, PortStep, GateStep, Settle, Disturb, Keeps, vars
    <2> QED BY <1>a, <2>1
<1> QED BY <1>3, <1>4, <1>5 DEF Next, Firmware

\* The variables of the firmware and of the port keep their types: what is read
\* from flash, and what is sent, are bytes, also at the end of an image or of a
\* sector (ulx5m_normal_image.c, ulx5m_native_v41_image.c).
THEOREM NormalTypeCorrect == Spec => []TypeOK
<1>1. ASSUME Init PROVE OtherTypes
    <2>1. build \in {"stream", "native"} /\ authorize \in BOOLEAN /\ capable \in BOOLEAN
        BY <1>1 DEF Init
    <2>2. settled \in BOOLEAN /\ invalid \in BOOLEAN /\ first = <<>>
        BY <1>1 DEF Init
    <2> QED BY <2>1, <2>2 DEF OtherTypes
<1>2. Typed /\ NativeInv /\ OtherTypes /\ [Next]_vars => NativeInv' /\ OtherTypes'
    BY NativeStep, OtherTypesStep
<1>3. Typed /\ OtherTypes => TypeOK
    BY DEF Typed, OtherTypes, TypeOK, Port
<1> QED BY <1>1, <1>2, <1>3, InitTyped, InitNativeInv, TypedStep, PTL DEF Spec

----------------------------------------------------------------------------
(***************************************************************************)
(* The card is released by every command.                                  *)
(***************************************************************************)
\* Between the command and the data of a block nothing else happens.
BlockUnderWay == io = "token" => (Cached \/ Listing) /\ ~Hit

CardInv == CardReleased /\ BlockUnderWay

\* The steps of the driver that use a sector have it.
LEMMA NoUse ==
    ASSUME CardInv, Hit PROVE io # "token" /\ cs # "low"
BY DEF CardInv, CardReleased, BlockUnderWay

\* A state in which no block is under way and the card is released.
LEMMA Released ==
    ASSUME cs' # "low", io' # "token" PROVE CardInv'
BY DEF CardInv, CardReleased, BlockUnderWay

\* What the place of the next sector is computed from.
LEMMA SamePlace ==
    ASSUME CardInv, UNCHANGED <<cs, fsVars, stage, io, got, dir, fileVars>>
    PROVE  CardInv'
<1>1. CardReleased'
    BY DEF CardInv, CardReleased
<1>2. Cached' = Cached /\ Listing' = Listing
    BY DEF Cached, Listing
<1>3. Lba' = Lba
    BY DEF Lba, DirLba, cluster_lba, fat_lba, ClusterLen, fsVars, fileVars
<1>4. Hit' = Hit
    BY <1>2, <1>3 DEF Hit, fsVars
<1>5. BlockUnderWay'
    BY <1>2, <1>4 DEF CardInv, BlockUnderWay
<1> QED BY <1>1, <1>5 DEF CardInv

\* The steps that keep the line as it is leave no block under way.
LEMMA Quiet ==
    ASSUME CardInv, io # "token", cs' = cs,
           io' = io \/ io' = "idle"
    PROVE  CardInv'
<1>1. cs # "low"
    BY DEF CardInv, CardReleased
<1>2. cs' # "low" /\ io' # "token"
    BY <1>1
<1> QED BY <1>2, Released

LEMMA InitCardInv == SdInit => CardInv
BY DEF SdInit, CardInv, CardReleased, BlockUnderWay

LEMMA DriverStep ==
    ASSUME CardInv, Cmd0 \/ Cmd8 \/ Cmd55 \/ Acmd41 \/ Cmd58 \/ Cmd16
    PROVE  CardInv'
<1>1. stage \in {"cmd0", "cmd8", "cmd55", "cmd41", "cmd58", "cmd16"}
    BY DEF Cmd0, Cmd8, Cmd55, Acmd41, Cmd58, Cmd16
<1>2. io # "token"
    BY <1>1 DEF CardInv, BlockUnderWay, Cached, Listing
<1>3. cs' = "high"
    BY DEF Cmd0, Cmd8, Cmd55, Acmd41, Cmd58, Cmd16, Command
<1>4. io' = io \/ io' = "idle"
    BY DEF Cmd0, Cmd8, Cmd55, Acmd41, Cmd58, Cmd16, Fail
<1>5. cs' # "low" /\ io' # "token"
    BY <1>2, <1>3, <1>4
<1> QED BY <1>5, Released

LEMMA BlockStep ==
    ASSUME CardInv, ReadCommand \/ ReadBlock \/ ReadTorn \/ ReadTimeout
    PROVE  CardInv'
<1>1. CASE ReadCommand /\ io' = "token"
    <2>1. UNCHANGED <<fsVars, stage, got, dir, fileVars>>
        BY <1>1 DEF ReadCommand, Fail
    <2>2. (Cached \/ Listing) /\ ~Hit
        BY <1>1 DEF ReadCommand
    <2>3. Cached' = Cached /\ Listing' = Listing
        BY <2>1 DEF Cached, Listing
    <2>4. Lba' = Lba
        BY <2>1 DEF Lba, DirLba, cluster_lba, fat_lba, ClusterLen, fsVars,
            fileVars
    <2>5. ~Hit'
        BY <1>1, <2>1, <2>2, <2>3, <2>4 DEF Hit, fsVars
    <2> QED BY <1>1, <2>2, <2>3, <2>5 DEF CardInv, CardReleased, BlockUnderWay
<1>2. CASE ReadCommand /\ io' # "token"
    <2>1. cs' = "high"
        BY <1>2 DEF ReadCommand
    <2> QED BY <1>2, <2>1, Released
<1>3. CASE ReadBlock \/ ReadTorn
    <2>1. cs' = "high" /\ io' \in {"idle", "done"}
        BY <1>3 DEF ReadBlock, ReadTorn, Arrives
    <2> QED BY <2>1, Released
<1>4. CASE ReadTimeout
    <2>1. cs' = "high" /\ io' = "idle"
        BY <1>4 DEF ReadTimeout, Fail
    <2> QED BY <2>1, Released
<1> QED BY <1>1, <1>2, <1>3, <1>4

\* Whatever is done with a sector ends with the io of before, or with none.
LEMMA UseIo ==
    ASSUME Mount \/ MountPartition \/ Open \/ OpenNext \/ Seek \/ Copy
             \/ List \/ ListNext
    PROVE  io' = io \/ io' = "idle"
<1>1. CASE Mount
    BY <1>1 DEF Mount, Mounted, Fail
<1>2. CASE MountPartition
    BY <1>2 DEF MountPartition, Mounted, Fail
<1>3. CASE Open
    BY <1>3 DEF Open, Opened, DirNext, Fail
<1>4. CASE OpenNext
    BY <1>4 DEF OpenNext, DirCluster, Fail
<1>5. CASE Seek
    BY <1>5 DEF Seek, Fail
<1>6. CASE Copy
    BY <1>6 DEF Copy
<1>7. CASE List
    BY <1>7 DEF List, DirNext, Fail
<1>8. CASE ListNext
    BY <1>8 DEF ListNext, DirCluster, Fail
<1> QED BY <1>1, <1>2, <1>3, <1>4, <1>5, <1>6, <1>7, <1>8

LEMMA UseStep ==
    ASSUME CardInv,
           Mount \/ MountPartition \/ Open \/ OpenNext \/ Seek \/ Copy
             \/ List \/ ListNext
    PROVE  CardInv'
<1>1. Hit /\ cs' = cs
    BY DEF Mount, MountPartition, Open, OpenNext, Seek, Copy, List, ListNext,
        Uses
<1>2. io # "token"
    BY <1>1, NoUse
<1> QED BY <1>1, <1>2, UseIo, Quiet

LEMMA CommandStep ==
    ASSUME CardInv,
           StartMount \/ Read \/ Loader \/ Launch \/ hazard3_sd_boot
             \/ print_status
    PROVE  CardInv'
<1>1. stage \in {"ready", "read", "loader", "launch", "prompt"}
    BY DEF StartMount, Read, Loader, Launch, hazard3_sd_boot, print_status
<1>2. io # "token"
    BY <1>1 DEF CardInv, BlockUnderWay, Cached, Listing
<1>3. cs' = cs
    BY DEF StartMount, Read, Loader, Launch, hazard3_sd_boot, print_status
<1>4. io' = io \/ io' = "idle"
    BY DEF StartMount, Read, Loader, Launch, hazard3_sd_boot, print_status,
        Fail
<1> QED BY <1>2, <1>3, <1>4, Quiet

LEMMA OtherStep ==
    ASSUME CardInv, Insert \/ Remove \/ Tick \/ UNCHANGED sdVars PROVE CardInv'
<1>1. UNCHANGED <<cs, fsVars, stage, io, got, dir, fileVars>>
    BY DEF Insert, Remove, Tick, sdVars
<1> QED BY <1>1, SamePlace

LEMMA CardInvStep ==
    ASSUME CardInv, [SdNext]_sdVars PROVE CardInv'
<1>1. CASE Cmd0 \/ Cmd8 \/ Cmd55 \/ Acmd41 \/ Cmd58 \/ Cmd16
    BY <1>1, DriverStep
<1>2. CASE ReadCommand \/ ReadBlock \/ ReadTorn \/ ReadTimeout
    BY <1>2, BlockStep
<1>3. CASE Mount \/ MountPartition \/ Open \/ OpenNext \/ Seek \/ Copy
             \/ List \/ ListNext
    BY <1>3, UseStep
<1>4. CASE StartMount \/ Read \/ Loader \/ Launch \/ hazard3_sd_boot
             \/ print_status
    BY <1>4, CommandStep
<1>5. CASE Insert \/ Remove \/ Tick \/ UNCHANGED sdVars
    BY <1>5, OtherStep
<1> QED BY <1>1, <1>2, <1>3, <1>4, <1>5 DEF SdNext, Monitor

\* The card is never left selected: between two commands, and between two
\* blocks, its chip-select line is high (sd_spi.c, deselect_card on every path).
THEOREM CardReleasedCorrect == SdSpec => []CardReleased
<1>1. CardInv /\ [SdNext]_sdVars => CardInv'
    BY CardInvStep
<1>2. CardInv => CardReleased
    BY DEF CardInv
<1> QED BY <1>1, <1>2, InitCardInv, PTL DEF SdSpec

----------------------------------------------------------------------------
(***************************************************************************)
(* Induction, for sets of numbers, and the chain of a file by its          *)
(* recursive definition.  The provers take no predicate as a parameter, so *)
(* the induction theorems of the library are replaced by a counting        *)
(* argument: a set with 0 and every successor below m, but without m,      *)
(* would fit into itself without 0.                                        *)
(***************************************************************************)
\* A set with 0 and every successor holds all the numbers.
LEMMA SetInduction ==
    ASSUME NEW S \in SUBSET Nat, 0 \in S, \A n \in S : n + 1 \in S
    PROVE  S = Nat
<1>1. SUFFICES ASSUME NEW m \in Nat, m \notin S PROVE FALSE
    OBVIOUS
<1> DEFINE T == S \cap (0 .. m)
           U == T \ {0}
           f == [n \in T |-> n + 1]
<1>2. IsFiniteSet(0 .. m)
    BY <1>1, FS_Interval
<1>3. T \subseteq 0 .. m /\ 0 \in T
    BY <1>1
<1>4. IsFiniteSet(T)
    BY <1>2, <1>3, FS_Subset
<1>5. IsFiniteSet(U) /\ Cardinality(U) = Cardinality(T) - 1
    BY <1>3, <1>4, FS_RemoveElement
<1>6. Cardinality(T) \in Nat
    BY <1>4, FS_CardinalityType
<1>7. f \in [T -> U]
    <2>1. ASSUME NEW n \in T PROVE n + 1 \in U
        BY <1>1, <2>1
    <2> QED BY <2>1
<1>8. \A x, y \in T : f[x] = f[y] => x = y
    OBVIOUS
<1> HIDE DEF T, U, f
<1>9. \E x, y \in T : x # y /\ f[x] = f[y]
    BY <1>4, <1>5, <1>6, <1>7, FS_PigeonHole
<1> QED BY <1>8, <1>9

\* A set of numbers that is not empty has a least one.
LEMMA LeastNumber ==
    ASSUME NEW T \in SUBSET Nat, T # {}
    PROVE  \E n \in T : \A k \in T : n <= k
<1>1. SUFFICES ASSUME \A n \in T : \E k \in T : k < n PROVE FALSE
    OBVIOUS
<1> DEFINE S == {n \in Nat : \A k \in 0 .. n : k \notin T}
<1>2. 0 \in S
    <2>1. 0 \notin T
        BY <1>1
    <2> QED BY <2>1
<1>3. ASSUME NEW n \in S PROVE n + 1 \in S
    <2>1. n \in Nat /\ \A k \in 0 .. n : k \notin T
        OBVIOUS
    <2>2. n + 1 \notin T
        BY <1>1, <2>1
    <2> QED BY <2>1, <2>2
<1>4. S = Nat
    <2>1. S \in SUBSET Nat
        OBVIOUS
    <2> HIDE DEF S
    <2> QED BY <1>2, <1>3, <2>1, SetInduction
<1>5. PICK n \in Nat : n \in T
    OBVIOUS
<1> QED BY <1>4, <1>5

\* h follows the chain from its first cluster to the n-th one.
Path(h, n, blocks, f, start) ==
    /\ h = [i \in 0 .. n |-> h[i]]
    /\ h[0] = start
    /\ \A i \in 1 .. n : h[i] = After(blocks, f, h[i - 1])

\* There is a path to every place of the chain.
LEMMA PathExists ==
    ASSUME NEW blocks, NEW f, NEW start
    PROVE  \A n \in Nat : \E h : Path(h, n, blocks, f, start)
<1> DEFINE S == {n \in Nat : \E h : Path(h, n, blocks, f, start)}
<1>1. 0 \in S
    <2> DEFINE h == [i \in 0 .. 0 |-> start]
    <2>1. Path(h, 0, blocks, f, start)
        BY DEF Path
    <2> QED BY <2>1
<1>2. ASSUME NEW n \in S PROVE n + 1 \in S
    <2>1. PICK h : Path(h, n, blocks, f, start)
        OBVIOUS
    <2> DEFINE k == [i \in 0 .. (n + 1) |->
                       IF i <= n THEN h[i] ELSE After(blocks, f, h[n])]
    <2>2. k[0] = start
        BY <2>1 DEF Path
    <2>3. ASSUME NEW i \in 1 .. (n + 1)
          PROVE  k[i] = After(blocks, f, k[i - 1])
        <3>1. CASE i <= n
            <4>1. i \in 1 .. n /\ i - 1 \in 0 .. n /\ i \in 0 .. (n + 1)
                BY <3>1
            <4>2. h[i] = After(blocks, f, h[i - 1])
                BY <2>1, <4>1 DEF Path
            <4>3. k[i] = h[i] /\ k[i - 1] = h[i - 1]
                BY <4>1
            <4> QED BY <4>2, <4>3
        <3>2. CASE i = n + 1
            BY <3>2
        <3> QED BY <3>1, <3>2
    <2>4. k = [i \in 0 .. (n + 1) |-> k[i]]
        OBVIOUS
    <2> HIDE DEF k
    <2>5. Path(k, n + 1, blocks, f, start)
        BY <2>2, <2>3, <2>4 DEF Path
    <2> QED BY <2>5
<1>3. S = Nat
    <2>1. S \in SUBSET Nat
        OBVIOUS
    <2> HIDE DEF S
    <2> QED BY <1>1, <1>2, <2>1, SetInduction
<1> QED BY <1>3

\* Two paths agree as far as both go.
LEMMA PathsAgree ==
    ASSUME NEW blocks, NEW f, NEW start, NEW h, NEW k, NEW m \in Nat,
           NEW n \in Nat, Path(h, m, blocks, f, start),
           Path(k, n, blocks, f, start), m <= n
    PROVE  h[m] = k[m]
<1> DEFINE S == {i \in Nat : i <= m => h[i] = k[i]}
<1>1. 0 \in S
    BY DEF Path
<1>2. ASSUME NEW i \in S PROVE i + 1 \in S
    <2>1. CASE i + 1 <= m
        <3>1. i + 1 \in 1 .. m /\ i + 1 \in 1 .. n /\ (i + 1) - 1 = i
            BY <2>1
        <3>2. h[i] = k[i]
            BY <2>1
        <3>3. h[i + 1] = After(blocks, f, h[(i + 1) - 1])
            BY <3>1 DEF Path
        <3>4. k[i + 1] = After(blocks, f, k[(i + 1) - 1])
            BY <3>1 DEF Path
        <3> QED BY <3>1, <3>2, <3>3, <3>4
    <2>2. CASE ~(i + 1 <= m)
        BY <2>2
    <2> QED BY <2>1, <2>2
<1>3. S = Nat
    <2>1. S \in SUBSET Nat
        OBVIOUS
    <2> HIDE DEF S
    <2> QED BY <1>1, <1>2, <2>1, SetInduction
<1> QED BY <1>3

\* The recursive definition of the chain is one: it starts at the first
\* cluster and goes on with the entry of the FAT.
LEMMA ChainRecursion ==
    ASSUME NEW blocks, NEW f, NEW start
    PROVE  /\ Chain(blocks, f, start)[0] = start
           /\ \A n \in Nat : Chain(blocks, f, start)[n + 1]
                               = After(blocks, f, Chain(blocks, f, start)[n])
<1> DEFINE h(n) == CHOOSE p : Path(p, n, blocks, f, start)
           g == [n \in Nat |-> h(n)[n]]
           Def(c) == [n \in Nat |-> IF n = 0 THEN start
                                    ELSE After(blocks, f, c[n - 1])]
<1>1. \A n \in Nat : Path(h(n), n, blocks, f, start)
    BY PathExists
<1> HIDE DEF h
<1>2. g[0] = start
    BY <1>1 DEF Path
<1>3. ASSUME NEW n \in Nat, n # 0 PROVE g[n] = After(blocks, f, g[n - 1])
    <2>1. n - 1 \in Nat /\ n \in 1 .. n /\ n - 1 <= n
        BY <1>3
    <2>2. h(n)[n] = After(blocks, f, h(n)[n - 1])
        BY <1>1, <2>1 DEF Path
    <2>3. h(n - 1)[n - 1] = h(n)[n - 1]
        <3>1. /\ Path(h(n - 1), n - 1, blocks, f, start)
              /\ Path(h(n), n, blocks, f, start)
            BY <1>1, <2>1
        <3> QED BY <2>1, <3>1, PathsAgree
    <2> QED BY <2>1, <2>2, <2>3
<1>4. g = Def(g)
    <2>1. ASSUME NEW n \in Nat
          PROVE  g[n] = IF n = 0 THEN start ELSE After(blocks, f, g[n - 1])
        BY <1>2, <1>3
    <2>2. g = [n \in Nat |-> g[n]]
        OBVIOUS
    <2> HIDE DEF g
    <2> QED BY <2>1, <2>2
<1> HIDE DEF g
<1> DEFINE d == Chain(blocks, f, start)
<1>5. d = CHOOSE c : c = Def(c)
    BY DEF Chain
<1>6. d = Def(d)
    BY <1>4, <1>5
<1> HIDE DEF d
<1>7. d[0] = start
    BY <1>6
<1>8. ASSUME NEW n \in Nat PROVE d[n + 1] = After(blocks, f, d[n])
    <2>1. n + 1 \in Nat /\ n + 1 # 0 /\ (n + 1) - 1 = n
        OBVIOUS
    <2>2. Def(d)[n + 1] = After(blocks, f, d[(n + 1) - 1])
        BY <2>1
    <2> QED BY <1>6, <2>1, <2>2
<1> QED BY <1>7, <1>8 DEF d

----------------------------------------------------------------------------
(***************************************************************************)
(* The bytes of one sector continue the file.                              *)
(***************************************************************************)
LEMMA DivFacts ==
    ASSUME NEW a \in Nat, NEW d \in Nat \ {0}
    PROVE  /\ a \div d \in Nat /\ a % d \in 0 .. (d - 1)
           /\ a = d * (a \div d) + (a % d)
OBVIOUS

LEMMA DivParts ==
    ASSUME NEW a \in Nat, NEW d \in Nat \ {0}
    PROVE  a \div d \in Nat /\ d * (a \div d) \in Nat /\ d * (a \div d) <= a
<1> DEFINE q == a \div d
           r == a % d
<1>1. q \in Nat /\ r \in 0 .. (d - 1) /\ a = d * q + r
    BY DivFacts
<1> HIDE DEF q, r
<1>2. d * q \in Nat
    BY <1>1
<1> QED BY <1>1, <1>2 DEF q

LEMMA DivUnique ==
    ASSUME NEW d \in Nat \ {0}, NEW q \in Int, NEW p \in Int,
           NEW r \in 0 .. (d - 1), NEW s \in 0 .. (d - 1),
           d * q + r = d * p + s
    PROVE  q = p /\ r = s
<1>1. d * (q - p) = s - r
    OBVIOUS
<1>2. s - r < d /\ s - r > -d
    OBVIOUS
<1>3. q - p >= 1 => d * (q - p) >= d
    OBVIOUS
<1>4. q - p <= -1 => d * (q - p) <= -d
    OBVIOUS
<1>5. q = p
    BY <1>1, <1>2, <1>3, <1>4
<1> QED BY <1>1, <1>5

LEMMA DivMonotone ==
    ASSUME NEW d \in Nat \ {0}, NEW a \in Nat, NEW b \in Nat, a <= b
    PROVE  a \div d <= b \div d
<1> DEFINE p == a \div d
           q == b \div d
           r == a % d
           s == b % d
<1>1. /\ p \in Nat /\ r \in 0 .. (d - 1) /\ a = d * p + r
      /\ q \in Nat /\ s \in 0 .. (d - 1) /\ b = d * q + s
    BY DivFacts
<1> SUFFICES p <= q
    OBVIOUS
<1> HIDE DEF p, q, r, s
<1> SUFFICES ASSUME p >= q + 1 PROVE FALSE
    BY <1>1
<1>2. d * p >= d * (q + 1)
    BY <1>1
<1>3. d * (q + 1) = d * q + d
    BY <1>1
<1>4. d * p \in Int /\ d * q \in Int /\ r \in Int /\ s \in Int /\ s < d
    BY <1>1
<1> QED BY <1>1, <1>2, <1>3, <1>4

\* A few bytes further, but still in the same part of length d.
LEMMA SamePart ==
    ASSUME NEW d \in Nat \ {0}, NEW a \in Nat, NEW k \in Nat, k < d - (a % d)
    PROVE  (a + k) \div d = a \div d /\ (a + k) % d = (a % d) + k
<1>1. /\ a \div d \in Nat /\ a % d \in 0 .. (d - 1)
      /\ a = d * (a \div d) + (a % d)
    BY DivFacts
<1>2. a + k \in Nat
    OBVIOUS
<1>3. /\ (a + k) \div d \in Nat /\ (a + k) % d \in 0 .. (d - 1)
      /\ a + k = d * ((a + k) \div d) + ((a + k) % d)
    BY <1>2, DivFacts
<1>4. (a % d) + k \in 0 .. (d - 1)
    BY <1>1
<1> DEFINE q == a \div d
           w == a % d
           p == (a + k) \div d
           v == (a + k) % d
<1>5. /\ q \in Nat /\ p \in Nat /\ v \in 0 .. (d - 1) /\ w \in Nat
      /\ w + k \in 0 .. (d - 1)
      /\ d * q + (w + k) = d * p + v
    <2>1. /\ q \in Nat /\ w \in Nat /\ a = d * q + w
          /\ p \in Nat /\ v \in 0 .. (d - 1) /\ a + k = d * p + v
          /\ w + k \in 0 .. (d - 1)
        BY <1>1, <1>3, <1>4
    <2> HIDE DEF q, w, p, v
    <2>2. d * q \in Nat /\ d * p \in Nat
        BY <2>1
    <2> QED BY <2>1, <2>2
<1> HIDE DEF q, w, p, v
<1>6. q = p /\ w + k = v
    BY <1>5, DivUnique
<1> QED BY <1>6 DEF q, w, p, v

\* The sector of a byte, and its place in the cluster, do not change within a
\* sector, because a cluster is so many whole sectors.
LEMMA SameSector ==
    ASSUME NEW d \in Nat \ {0}, NEW n \in Nat \ {0}, NEW a \in Nat,
           NEW k \in Nat, k < d - (a % d)
    PROVE  /\ (a + k) \div (n * d) = a \div (n * d)
           /\ ((a + k) % (n * d)) \div d = (a % (n * d)) \div d
           /\ (a + k) % d = (a % d) + k
<1> DEFINE c == n * d
           q == a \div c
           r == a % c
           b == r \div d
           w == r % d
<1>0. c \in Nat \ {0}
    OBVIOUS
<1>1. q \in Nat /\ r \in 0 .. (c - 1) /\ a = c * q + r
    <2> HIDE DEF c
    <2> QED BY <1>0, DivFacts
<1>2. b \in Nat /\ w \in 0 .. (d - 1) /\ r = d * b + w
    <2>1. r \in Nat
        BY <1>0, <1>1
    <2> HIDE DEF r
    <2> QED BY <2>1, DivFacts
<1>3. a % d = w
    <2>1. a % d \in 0 .. (d - 1) /\ a \div d \in Nat
          /\ a = d * (a \div d) + (a % d)
        BY DivFacts
    <2> DEFINE p == a \div d
               v == a % d
    <2>2. c * q = d * (n * q)
        <3>1. q \in Nat
            BY <1>1
        <3> HIDE DEF q
        <3> QED BY <3>1
    <2>3. a = d * (n * q) + (d * b + w)
        BY <1>1, <1>2, <2>2
    <2>4. n * q \in Nat
        <3>1. q \in Nat
            BY <1>1
        <3> HIDE DEF q
        <3> QED BY <3>1
    <2>5. p \in Nat /\ v \in 0 .. (d - 1) /\ a = d * p + v
        BY <2>1
    <2> HIDE DEF p, v, c, q, r, b, w
    <2> DEFINE m == n * q
    <2>6. m \in Nat /\ a = d * m + (d * b + w)
        BY <2>3, <2>4
    <2> HIDE DEF m
    <2>7. d * (m + b) = d * m + d * b /\ d * m \in Nat /\ d * b \in Nat
        BY <1>2, <2>6
    <2>8. d * (m + b) + w = d * p + v
        BY <1>2, <2>5, <2>6, <2>7
    <2> DEFINE u == m + b
    <2>9. u \in Int /\ p \in Int /\ d * u + w = d * p + v
        BY <1>2, <2>5, <2>6, <2>8
    <2> HIDE DEF u
    <2>10. w = v
        BY <1>2, <2>5, <2>9, DivUnique
    <2> QED BY <2>10 DEF v
<1>4. k < c - r
    <2>1. k < d - w
        BY <1>3
    <2>2. r < d * n
        BY <1>0, <1>1
    <2> HIDE DEF c, q, r, w, b
    <2>3. b < n
        <3>1. SUFFICES ASSUME b >= n PROVE FALSE
            BY <1>2
        <3>2. d * b >= d * n
            BY <1>2, <3>1
        <3>3. d * n \in Nat /\ d * b \in Nat
            BY <1>2
        <3> QED BY <1>2, <2>2, <3>2, <3>3
    <2>4. d * (n - b) >= d
        BY <1>2, <2>3
    <2>5. d * (n - b) = d * n - d * b
        BY <1>2
    <2>6. c = d * n
        BY DEF c
    <2>7. d * n \in Nat /\ d * b \in Nat
        BY <1>2
    <2> QED BY <1>2, <2>1, <2>4, <2>5, <2>6, <2>7
<1>5. (a + k) \div c = q /\ (a + k) % c = r + k
    <2>1. k < c - (a % c)
        BY <1>4
    <2> HIDE DEF c
    <2> QED BY <1>0, <2>1, SamePart
<1>6. (r + k) \div d = b
    <2>1. r \in Nat /\ k < d - (r % d)
        BY <1>0, <1>1, <1>3
    <2> HIDE DEF r
    <2> QED BY <2>1, SamePart
<1>7. (a + k) % d = (a % d) + k
    BY SamePart
<1> QED BY <1>5, <1>6, <1>7

LEMMA SubSeqAt ==
    ASSUME NEW data \in Seq(Int), NEW w \in Nat, NEW n \in Nat,
           w + n <= Len(data)
    PROVE  /\ SubSeq(data, w + 1, w + n) \in Seq(Int)
           /\ Len(SubSeq(data, w + 1, w + n)) = n
           /\ \A i \in 1 .. n : SubSeq(data, w + 1, w + n)[i] = data[w + i]
<1> DEFINE more == SubSeq(data, w + 1, w + n)
<1>1. \A i \in (w + 1) .. (w + n) : data[i] \in Int
    OBVIOUS
<1>2. /\ more \in Seq(Int)
      /\ Len(more) = IF w + 1 <= w + n THEN (w + n) - (w + 1) + 1 ELSE 0
      /\ \A i \in 1 .. ((w + n) - (w + 1) + 1) :
             more[i] = data[(w + 1) + i - 1]
    <2> DEFINE a == w + 1
               b == w + n
    <2>1. a \in Int /\ b \in Int /\ \A i \in a .. b : data[i] \in Int
        BY <1>1
    <2> HIDE DEF a, b
    <2>2. /\ SubSeq(data, a, b) \in Seq(Int)
          /\ Len(SubSeq(data, a, b)) = IF a <= b THEN b - a + 1 ELSE 0
          /\ \A i \in 1 .. b - a + 1 : SubSeq(data, a, b)[i] = data[a + i - 1]
        BY <2>1, SubSeqProperties
    <2> QED BY <2>2 DEF a, b
<1>3. (w + n) - (w + 1) + 1 = n /\ \A i \in 1 .. n : (w + 1) + i - 1 = w + i
    OBVIOUS
<1> HIDE DEF more
<1>4. Len(more) = n
    BY <1>2, <1>3
<1>5. ASSUME NEW i \in 1 .. n PROVE more[i] = data[w + i]
    BY <1>2, <1>3
<1> QED BY <1>2, <1>4, <1>5 DEF more

\* Within a sector, a place in a file has the cluster and the sector of before.
LEMMA SamePlaceInFile ==
    ASSUME NEW f, f.spc \in Nat \ {0}, NEW c, NEW l \in Nat, NEW m \in Nat,
           NEW w, w = l % SectorLen, l <= m, m - l < SectorLen - w
    PROVE  /\ m \div ClusterLen(f) = l \div ClusterLen(f)
           /\ SectorAt(f, c, m) = SectorAt(f, c, l)
           /\ m % SectorLen = w + (m - l)
<1> DEFINE spc == f.spc
           k == m - l
<1>1. spc \in Nat \ {0} /\ SectorLen \in Nat \ {0} /\ k \in Nat /\ m = l + k
    BY SdAssumption
<1>2. k < SectorLen - (l % SectorLen)
    OBVIOUS
<1>3. ClusterLen(f) = spc * SectorLen
    BY DEF ClusterLen
<1> HIDE DEF spc, k
<1>4. /\ (l + k) \div (spc * SectorLen) = l \div (spc * SectorLen)
      /\ ((l + k) % (spc * SectorLen)) \div SectorLen
           = (l % (spc * SectorLen)) \div SectorLen
      /\ (l + k) % SectorLen = (l % SectorLen) + k
    BY <1>1, <1>2, SameSector
<1>5. m % SectorLen = w + k
    BY <1>1, <1>4
<1> QED BY <1>1, <1>3, <1>4, <1>5 DEF SectorAt, k

\* The bytes are those a file begins with.
IsBeginning(bytes, blocks, f, start) ==
    \A i \in 1 .. Len(bytes) :
        LET c == Chain(blocks, f, start)[(i - 1) \div ClusterLen(f)]
            at == SectorAt(f, c, i - 1)
        IN  /\ c # 0 /\ at \in DOMAIN blocks
            /\ bytes[i] = SectorBytes(blocks[at])[((i - 1) % SectorLen) + 1]

\* The bytes of `more` are those that come after `bytes` in their sector.
Continues(more, bytes, blocks, f, start) ==
    LET l == Len(bytes)
        c == Chain(blocks, f, start)[l \div ClusterLen(f)]
        at == SectorAt(f, c, l)
        w == l % SectorLen
    IN  /\ c # 0 /\ at \in DOMAIN blocks
        /\ Len(more) <= SectorLen - w
        /\ \A i \in 1 .. Len(more) : more[i] = SectorBytes(blocks[at])[w + i]

LEMMA BeginningGrows ==
    ASSUME NEW blocks, NEW f, NEW start, NEW bytes \in Seq(Int),
           NEW more \in Seq(Int), f.spc \in Nat \ {0},
           Continues(more, bytes, blocks, f, start),
           IsBeginning(bytes, blocks, f, start)
    PROVE  IsBeginning(bytes \o more, blocks, f, start)
<1> DEFINE l == Len(bytes)
           n == Len(more)
           whole == bytes \o more
           c == Chain(blocks, f, start)[l \div ClusterLen(f)]
           at == SectorAt(f, c, l)
           w == l % SectorLen
<1>0. /\ SectorLen \in Nat \ {0} /\ l \in Nat /\ n \in Nat
      /\ w \in 0 .. (SectorLen - 1)
    <2>1. SectorLen \in Nat \ {0} /\ l \in Nat /\ n \in Nat
        BY SdAssumption
    <2> HIDE DEF l
    <2> QED BY <2>1, DivFacts
<1>1. /\ c # 0 /\ at \in DOMAIN blocks /\ n <= SectorLen - w
      /\ \A i \in 1 .. n : more[i] = SectorBytes(blocks[at])[w + i]
    BY DEF Continues
<1>2. /\ Len(whole) = l + n
      /\ \A i \in 1 .. (l + n) :
             whole[i] = IF i <= l THEN bytes[i] ELSE more[i - l]
    BY ConcatProperties
<1>3. \A i \in 1 .. l :
          LET e == Chain(blocks, f, start)[(i - 1) \div ClusterLen(f)]
              place == SectorAt(f, e, i - 1)
          IN  /\ e # 0
              /\ place \in DOMAIN blocks
              /\ bytes[i]
                   = SectorBytes(blocks[place])[((i - 1) % SectorLen) + 1]
    BY DEF IsBeginning
<1> HIDE DEF whole, l, n, c, at, w
<1>4. ASSUME NEW i \in 1 .. (l + n)
      PROVE  LET e == Chain(blocks, f, start)[(i - 1) \div ClusterLen(f)]
                 place == SectorAt(f, e, i - 1)
             IN  /\ e # 0
                 /\ place \in DOMAIN blocks
                 /\ whole[i]
                      = SectorBytes(blocks[place])[((i - 1) % SectorLen) + 1]
    <2>1. CASE i <= l
        <3>1. i \in 1 .. l /\ whole[i] = bytes[i]
            BY <1>0, <1>2, <2>1
        <3> QED BY <1>3, <3>1
    <2>2. CASE i > l
        <3> DEFINE m == i - 1
                   k == i - l
        <3>1. m \in Nat /\ l <= m /\ m - l < n /\ k \in 1 .. n /\ m - l = k - 1
            BY <1>0, <2>2
        <3> HIDE DEF k, m
        <3>2. m - l < SectorLen - w
            BY <1>0, <1>1, <3>1
        <3>3. /\ m \div ClusterLen(f) = l \div ClusterLen(f)
              /\ SectorAt(f, c, m) = SectorAt(f, c, l)
              /\ m % SectorLen = w + (m - l)
            <4>1. w \in Nat /\ w = l % SectorLen
                BY <1>0 DEF w
            <4>2. f.spc \in Nat \ {0} /\ l \in Nat /\ m \in Nat /\ l <= m
                BY <1>0, <3>1
            <4> QED BY ONLY <3>2, <4>1, <4>2, SamePlaceInFile
        <3>4. Chain(blocks, f, start)[m \div ClusterLen(f)] = c
            BY <3>3 DEF c
        <3>5. SectorAt(f, c, m) = at
            BY <3>3 DEF at
        <3>6. whole[i] = SectorBytes(blocks[at])[w + k]
            <4>1. ~(i <= l)
                BY <1>0, <2>2
            <4>2. whole[i] = more[i - l]
                BY <1>2, <4>1
            <4>3. whole[i] = more[k]
                BY <4>2 DEF k
            <4> QED BY <1>1, <3>1, <4>3
        <3>7. (m % SectorLen) + 1 = w + k
            <4>1. k \in Int /\ w \in Int
                BY <1>0, <3>1
            <4>2. m % SectorLen = w + (k - 1)
                BY <3>1, <3>3
            <4> DEFINE v == m % SectorLen
            <4>3. v = w + (k - 1)
                BY <4>2
            <4> HIDE DEF v
            <4>4. v + 1 = w + k
                BY <4>1, <4>3
            <4> QED BY <4>4 DEF v
        <3> QED BY <1>1, <3>4, <3>5, <3>6, <3>7 DEF m
    <2> QED BY <1>0, <2>1, <2>2
<1>5. IsBeginning(whole, blocks, f, start)
    BY <1>2, <1>4 DEF IsBeginning
<1> QED BY <1>5 DEF whole

----------------------------------------------------------------------------
(***************************************************************************)
(* What is delivered is the file.                                          *)
(***************************************************************************)
Starting == {"cmd0", "cmd8", "cmd55", "cmd41", "cmd58", "cmd16"}
Mounts == {"ready", "mount", "partition"}
OnVolume == {"open", "openNext", "read", "seek", "copy", "loader", "launch",
             "list", "listNext"}

\* A command that has begun has no mounted volume until it has found one.
Stages ==
    /\ stage \in {"prompt"} \cup Starting \cup Mounts \cup OnVolume
    /\ stage \in Starting => mounted = NoCard
    /\ stage \in Starting \cup Mounts => ~mount_ok
    /\ stage \in OnVolume => mount_ok
    /\ stage \in Mounts \/ mount_ok => mounted \in Cards

\* A card that answers like one that is ready is the one that was initialized,
\* and is addressed in its own way.
CardTrue ==
    /\ slot \in Cards \cup {NoCard} /\ mounted \in Cards \cup {NoCard}
    /\ sd \in [initialized : BOOLEAN, hc : BOOLEAN, v2 : BOOLEAN]
    /\ mounted # NoCard => sd.hc = Disk[mounted].hc
    /\ mounted # NoCard /\ mode = "ready" => slot = mounted
    /\ stage = "cmd58" /\ Answers =>
           mode = "ready" /\ (Disk[slot].hc => sd.v2)
    /\ stage = "cmd16" /\ Answers =>
           mode = "ready" /\ sd.hc = Disk[slot].hc

FsTyped(f) ==
    /\ f.type \in {16, 32} /\ f.spc \in Nat \ {0}
    /\ f.fat \in Int /\ f.data \in Int /\ f.root \in Int
    /\ f.rootCluster \in Nat

\* The sector that comes when the code asks for a number: numbers of 32 bits
\* go round, and byte addresses do so sooner.
Where(l) ==
    LET w == l % WordModulus
    IN  IF Disk[mounted].hc THEN w
        ELSE ((w * SectorLen) % WordModulus) \div SectorLen

\* The card as the code sees it, and the volume that it finds there.
Seen == [l \in {x \in Int : Where(x) \in DOMAIN Volume} |-> Volume[Where(l)]]

SeenFs ==
    LET at == IF Seen[0].kind = "mbr" THEN Seen[0].part ELSE 0
    IN  Geometry(Seen[at], at)

\* What the reader keeps of the volume is what its boot sector says.
FsTrue ==
    /\ stage = "mount" => fs = NoFs
    /\ stage = "partition" =>
           /\ 0 \in DOMAIN Seen /\ Seen[0].kind = "mbr"
           /\ fs.part = Seen[0].part
    /\ mount_ok => fs = SeenFs /\ FsTyped(fs)

\* The cache holds a sector of the volume, or what came of a torn block.
CacheTrue ==
    (mount_ok \/ stage \in {"mount", "partition"}) /\ cache.valid =>
        \/ cache.lba \in DOMAIN Seen /\ cache.sector = Seen[cache.lba]
        \/ torn /\ cache.sector = Blank

BlockTrue == io = "token" /\ Cached /\ mode = "ready" => Lba \in DOMAIN Seen

DirTyped ==
    stage \in {"open", "openNext"} =>
        dir \in [cluster : Nat, sector : Nat, guard : Nat]

FileTyped ==
    /\ name \in {"IMG", "WAD"}
    /\ mount_ok \/ stage \in {"mount", "partition"} =>
           /\ file \in [first : Nat, cur : Nat, idx : Nat, size : Nat,
                        pos : Nat]
           /\ want \in Nat
           /\ out \in Seq(Int) /\ Len(out) = file.pos
           /\ ~mount_ok => file = NoFile /\ out = <<>>

\* The cluster the reader is in is the one of the chain at its index, and the
\* sector is taken from it only when the index is that of the position.
AtPlace ==
    mount_ok =>
        /\ file.cur = Chain(Seen, fs, file.first)[file.idx]
        /\ stage \in {"seek", "copy", "loader"} => file.cur # 0
        /\ stage = "read" /\ file.cur = 0 => file.size - file.pos < want
        /\ stage = "copy" => file.pos \div ClusterLen(fs) = file.idx

Content ==
    mount_ok /\ ~torn => IsBeginning(out, Seen, fs, file.first)

SdInv ==
    /\ CardInv
    /\ Stages /\ CardTrue /\ FsTrue /\ CacheTrue /\ BlockTrue
    /\ DirTyped /\ FileTyped /\ AtPlace /\ Content

\* The kind of a sector tells what is in it.
LEMMA KindTyped ==
    ASSUME NEW s, IsSector(s)
    PROVE  /\ s.kind = "mbr" => s.part \in Nat /\ s.part \in Word
           /\ s.kind = "boot" =>
                  /\ s.reserved \in Nat /\ s.fats \in Nat /\ s.fats >= 1
                  /\ s.fatSectors \in Nat /\ s.rootSectors \in Nat
                  /\ s.total \in Nat /\ s.spc \in Nat /\ s.rootCluster \in Nat
           /\ s.kind = "fat" =>
                  /\ s.next \in Seq(Nat)
                  /\ \A type \in {16, 32} : FatPerSector[type] <= Len(s.next)
           /\ s.kind = "dir" =>
                  s.entries \in Seq([name : STRING, cluster : Nat, size : Nat])
           /\ s.kind = "data" => s.data \in Seq(Int) /\ Len(s.data) = SectorLen
<1>1. CASE s = Blank
    BY <1>1 DEF Blank
<1>0. Word \subseteq Nat
    BY DEF Word
<1>2. CASE s \in [kind : {"mbr"}, part : Word]
    BY <1>0, <1>2
<1>3. CASE s \in [kind : {"boot"}, reserved : Word, fats : {1, 2},
                  fatSectors : Word, rootSectors : Word, total : Word,
                  spc : Word, rootCluster : Word]
    <2>1. /\ s.kind = "boot" /\ s.fats \in {1, 2}
          /\ s.reserved \in Word /\ s.fatSectors \in Word
          /\ s.rootSectors \in Word /\ s.total \in Word /\ s.spc \in Word
          /\ s.rootCluster \in Word
        BY <1>3
    <2>2. s.fats \in Nat /\ s.fats >= 1
        BY <2>1
    <2> QED BY <1>0, <2>1, <2>2
<1>4. CASE /\ s \in [kind : {"fat"}, next : Seq(Nat)]
           /\ \A type \in {16, 32} : FatPerSector[type] <= Len(s.next)
    BY <1>4
<1>5. CASE s \in [kind : {"dir"},
                  entries : Seq([name : STRING, cluster : Nat, size : Nat])]
    BY <1>5
<1>6. CASE /\ s \in [kind : {"data"}, data : Seq(Int)]
           /\ Len(s.data) = SectorLen
    BY <1>6
<1> QED BY <1>1, <1>2, <1>3, <1>4, <1>5, <1>6 DEF IsSector

DirEntry == [name : STRING, cluster : Nat, size : Nat]

LEMMA EntriesTyped ==
    ASSUME NEW s, IsSector(s) PROVE Entries(s) \in Seq(DirEntry)
<1>1. CASE s.kind = "dir"
    BY <1>1, KindTyped DEF Entries, DirEntry
<1>2. CASE s.kind # "dir"
    BY <1>2 DEF Entries
<1> QED BY <1>1, <1>2

\* The first entry of a name is there when the name is.
LEMMA FirstNamed ==
    ASSUME NEW T, NEW e \in Seq(T), NEW n, n \in Names(e)
    PROVE  \E i \in DOMAIN e : /\ e[i].name = n
                               /\ \A j \in 1 .. (i - 1) : e[j].name # n
<1> DEFINE I == {i \in DOMAIN e : e[i].name = n}
<1>1. DOMAIN e = 1 .. Len(e) /\ Len(e) \in Nat
    OBVIOUS
<1>2. I \in SUBSET Nat /\ I # {}
    BY <1>1 DEF Names
<1>3. PICK i \in I : \A k \in I : i <= k
    <2> HIDE DEF I
    <2> QED BY <1>2, LeastNumber
<1>4. ASSUME NEW j \in 1 .. (i - 1), e[j].name = n PROVE FALSE
    <2>1. i \in 1 .. Len(e)
        BY <1>1
    <2>2. j \in I
        BY <1>1, <1>4, <2>1
    <2> QED BY <1>3, <2>1, <2>2
<1> QED BY <1>4

LEMMA LiveTyped ==
    ASSUME NEW T, NEW e \in Seq(T) PROVE Live(e) \in Seq(T)
<1>1. CASE "end" \in Names(e)
    <2> DEFINE P(i) == /\ e[i].name = "end"
                       /\ \A j \in 1 .. (i - 1) : e[j].name # "end"
               m == CHOOSE i \in DOMAIN e : P(i)
    <2>1. \E i \in DOMAIN e : P(i)
        BY <1>1, FirstNamed
    <2>2. m \in DOMAIN e
        <3> HIDE DEF P
        <3> QED BY <2>1
    <2>3. Live(e) = SubSeq(e, 1, m - 1)
        BY <1>1 DEF Live
    <2> HIDE DEF m
    <2>4. m \in 1 .. Len(e) /\ Len(e) \in Nat
        BY <2>2
    <2>5. \A i \in 1 .. (m - 1) : e[i] \in T
        BY <2>4
    <2>6. 1 \in Int /\ m - 1 \in Int
        BY <2>4
    <2>7. SubSeq(e, 1, m - 1) \in Seq(T)
        BY <2>5, <2>6, SubSeqProperties
    <2> QED BY <2>3, <2>7
<1>2. CASE "end" \notin Names(e)
    BY <1>2 DEF Live
<1> QED BY <1>1, <1>2

LEMMA EntryTyped ==
    ASSUME NEW T, NEW e \in Seq(T), NEW n, n \in Names(e)
    PROVE  Entry(e, n) \in T
<1> DEFINE P(i) == /\ e[i].name = n
                   /\ \A j \in 1 .. (i - 1) : e[j].name # n
           m == CHOOSE i \in DOMAIN e : P(i)
<1>1. \E i \in DOMAIN e : P(i)
    BY FirstNamed
<1>2. m \in DOMAIN e
    <2> HIDE DEF P
    <2> QED BY <1>1
<1>3. Entry(e, n) = e[m]
    BY DEF Entry
<1> HIDE DEF m
<1> QED BY <1>2, <1>3

\* An entry of the FAT is there, and is a number.
LEMMA NextTyped ==
    ASSUME NEW s, IsSector(s), NEW type \in {16, 32}, NEW c \in Nat
    PROVE  NextOf(s, type, c) \in Nat
<1> DEFINE n == FatPerSector[type]
           k == (c % n) + 1
<1>1. CASE s.kind = "fat"
    <2>1. n \in Nat \ {0}
        BY SdAssumption
    <2>2. s.next \in Seq(Nat) /\ n <= Len(s.next)
        BY <1>1, KindTyped
    <2>3. k \in 1 .. n
        <3> HIDE DEF n
        <3>1. c % n \in 0 .. (n - 1)
            BY <2>1, DivFacts
        <3> QED BY <2>1, <3>1
    <2> HIDE DEF n, k
    <2>4. k \in 1 .. Len(s.next)
        BY <2>1, <2>2, <2>3
    <2>5. s.next[k] \in Nat
        BY <2>2, <2>4
    <2> QED BY <1>1, <2>5 DEF NextOf, n, k
<1>2. CASE s.kind # "fat"
    BY <1>2 DEF NextOf
<1> QED BY <1>1, <1>2

LEMMA BytesTyped ==
    ASSUME NEW s, IsSector(s)
    PROVE  SectorBytes(s) \in Seq(Int) /\ Len(SectorBytes(s)) = SectorLen
<1>1. CASE s.kind = "data"
    BY <1>1, KindTyped DEF SectorBytes
<1>2. CASE s.kind # "data"
    <2>1. SectorLen \in Nat
        BY SdAssumption
    <2> DEFINE b == [i \in 1 .. SectorLen |-> -1]
    <2>2. b \in Seq(Int) /\ Len(b) = SectorLen
        BY <2>1
    <2> QED BY <1>2, <2>2 DEF SectorBytes
<1> QED BY <1>1, <1>2

LEMMA BlankIsSector == IsSector(Blank) /\ Blank.kind = "blank"
BY DEF IsSector, Blank

\* A number of 32 bits, and one that is no more.
LEMMA WordOf ==
    ASSUME NEW a \in Int
    PROVE  /\ a % WordModulus \in Word /\ WordModulus \in Nat \ {0}
           /\ a \in Word => a % WordModulus = a
BY SdAssumption DEF Word

LEMMA DataTyped ==
    ASSUME NEW b, IsSector(b), b.kind = "boot"
    PROVE  FirstData(b) \in Nat
<1> DEFINE fats == b.fats * b.fatSectors
           d == b.reserved + fats + b.rootSectors
<1>1. b.reserved \in Nat /\ b.rootSectors \in Nat /\ fats \in Nat
    BY KindTyped
<1>2. d \in Int
    <2> HIDE DEF fats
    <2> QED BY <1>1
<1>3. FirstData(b) = d % WordModulus
    BY DEF FirstData
<1> HIDE DEF d
<1> QED BY <1>2, <1>3, WordOf DEF Word

\* What a supported boot sector gives has the types the walks need.
LEMMA GeometryTyped ==
    ASSUME NEW b, IsSector(b), b.kind = "boot", Supported(b), NEW part \in Nat
    PROVE  FsTyped(Geometry(b, part))
<1>1. /\ b.reserved \in Nat /\ b.fats \in Nat /\ b.fatSectors \in Nat
      /\ b.rootSectors \in Nat /\ b.spc \in Nat /\ b.rootCluster \in Nat
    BY KindTyped
<1>2. b.spc \in Nat \ {0}
    BY <1>1 DEF Supported
<1> DEFINE fats == b.fats * b.fatSectors
           at == part + b.reserved
           to == part + FirstData(b)
           root == part + b.reserved + fats
           g == Geometry(b, part)
<1>3. fats \in Nat
    BY <1>1
<1>4. FirstData(b) \in Nat
    BY <1>1, DataTyped
<1>5. at \in Int /\ to \in Int /\ root \in Int
    <2> HIDE DEF fats
    <2> QED BY <1>1, <1>3, <1>4
<1>6. /\ g.spc = b.spc /\ g.type \in {16, 32} /\ g.fat = at % WordModulus
      /\ g.data = to % WordModulus
      /\ g.root \in {root % WordModulus, 0}
      /\ g.rootCluster \in {b.rootCluster, 0}
    BY DEF Geometry
<1> HIDE DEF at, to, root
<1>8. /\ at % WordModulus \in Int /\ to % WordModulus \in Int
      /\ root % WordModulus \in Int
    BY <1>5, WordOf DEF Word
<1> HIDE DEF g
<1>7. FsTyped(g)
    BY <1>1, <1>2, <1>6, <1>8 DEF FsTyped
<1> QED BY <1>7 DEF g

\* A place on the volume is a number.
LEMMA PlaceTyped ==
    ASSUME NEW f, FsTyped(f), NEW c \in Nat
    PROVE  /\ cluster_lba(f, c) \in Word /\ fat_lba(f, c) \in Word
           /\ ClusterLen(f) \in Nat \ {0}
           /\ \A p \in Nat : SectorOf(f, c, p) \in Word
<1>1. /\ WordModulus \in Nat \ {0} /\ SectorLen \in Nat \ {0}
      /\ FatPerSector[f.type] \in Nat \ {0}
      /\ f.fat \in Int /\ f.data \in Int /\ f.spc \in Nat \ {0}
    BY SdAssumption DEF FsTyped
<1>2. cluster_lba(f, c) \in Word
    <2> DEFINE k == c - 2
               s == f.spc
    <2>1. k \in Int /\ s \in Nat
        BY <1>1
    <2>2. k * s \in Int
        <3> HIDE DEF k, s
        <3> QED BY <2>1
    <2> DEFINE d == f.data + k * s
    <2>3. d \in Int
        <3> HIDE DEF k, s
        <3> QED BY <1>1, <2>2
    <2>4. cluster_lba(f, c) = d % WordModulus
        BY DEF cluster_lba
    <2> HIDE DEF d
    <2> QED BY <2>3, <2>4, WordOf
<1>3. fat_lba(f, c) \in Word
    <2> DEFINE n == FatPerSector[f.type]
               q == c \div n
               d == f.fat + q
    <2>1. q \in Nat
        <3> HIDE DEF n
        <3> QED BY <1>1, DivFacts DEF n
    <2>2. d \in Int
        <3> HIDE DEF q
        <3> QED BY <1>1, <2>1
    <2>3. fat_lba(f, c) = d % WordModulus
        BY DEF fat_lba
    <2> HIDE DEF d
    <2> QED BY <2>2, <2>3, WordOf
<1>4. ClusterLen(f) \in Nat \ {0}
    <2> DEFINE s == f.spc
    <2>1. s \in Nat \ {0}
        BY <1>1
    <2>2. s * SectorLen \in Nat \ {0}
        <3> HIDE DEF s
        <3>1. s * SectorLen \in Nat
            BY <1>1, <2>1
        <3>2. s * SectorLen >= s
            BY <1>1, <2>1
        <3> QED BY <2>1, <3>1, <3>2
    <2> QED BY <2>2 DEF ClusterLen
<1>5. ASSUME NEW p \in Nat PROVE SectorOf(f, c, p) \in Word
    <2> DEFINE a == cluster_lba(f, c)
               n == ClusterLen(f)
               r == p % n
               q == r \div SectorLen
               d == a + q
    <2>1. a \in Int /\ n \in Nat \ {0}
        BY <1>2, <1>4 DEF Word
    <2>2. r \in Nat
        <3> HIDE DEF n
        <3> QED BY <2>1, DivFacts
    <2>3. q \in Nat
        <3> HIDE DEF r
        <3> QED BY <1>1, <2>2, DivFacts
    <2>4. d \in Int
        <3> HIDE DEF a, q
        <3> QED BY <2>1, <2>3
    <2>5. SectorOf(f, c, p) = d % WordModulus
        BY DEF SectorOf
    <2> HIDE DEF d
    <2> QED BY <2>4, <2>5, WordOf
<1> QED BY <1>2, <1>3, <1>4, <1>5

LEMMA SeenTyped ==
    ASSUME mounted \in Cards
    PROVE  /\ DOMAIN Seen \subseteq Int
           /\ \A a \in DOMAIN Seen : IsSector(Seen[a])
BY DiskAssumption DEF Seen, Volume

\* A card is mounted wherever the reader looks for a sector.
LEMMA OnCard ==
    ASSUME Stages, Cached
    PROVE  /\ mounted \in Cards
           /\ stage \notin {"mount", "partition"} => mount_ok
BY DEF Stages, Cached, Mounts, OnVolume

LEMMA LbaTyped ==
    ASSUME FsTrue, DirTyped, FileTyped, Stages, Cached PROVE Lba \in Word
<1>1. WordModulus \in Nat \ {0}
    BY SdAssumption
<1>2. CASE stage = "mount"
    BY <1>1, <1>2 DEF Lba, Word
<1>3. CASE stage = "partition"
    <2>1. /\ 0 \in DOMAIN Seen /\ Seen[0].kind = "mbr"
          /\ fs.part = Seen[0].part
        BY <1>3 DEF FsTrue
    <2>2. fs.part \in Word
        BY <2>1, OnCard, SeenTyped, KindTyped
    <2> QED BY <1>3, <2>2 DEF Lba
<1>4. CASE stage \in {"open", "openNext", "seek", "copy"}
    <2>1. FsTyped(fs)
        BY <1>4, OnCard DEF FsTrue
    <2>2. stage \in {"open", "openNext"} =>
              dir.cluster \in Nat /\ dir.sector \in Nat
        BY DEF DirTyped
    <2>3. file.cur \in Nat /\ file.pos \in Nat
        BY <1>4, OnCard DEF FileTyped
    <2>4. stage = "open" => DirLba \in Word
        <3> DEFINE d == (IF fs.type = 16 THEN fs.root
                         ELSE cluster_lba(fs, dir.cluster)) + dir.sector
        <3>1. stage = "open" => cluster_lba(fs, dir.cluster) \in Int
            <4>1. Word \subseteq Int
                BY DEF Word
            <4> QED BY <2>1, <2>2, <4>1, PlaceTyped
        <3>2. fs.root \in Int
            BY <2>1 DEF FsTyped
        <3>3. stage = "open" => d \in Int
            BY <2>2, <3>1, <3>2
        <3>4. DirLba = d % WordModulus
            BY DEF DirLba
        <3> HIDE DEF d
        <3> QED BY <3>3, <3>4, WordOf
    <2>5. stage = "openNext" => fat_lba(fs, dir.cluster) \in Word
        BY <2>1, <2>2, PlaceTyped
    <2>6. /\ fat_lba(fs, file.cur) \in Word
          /\ SectorOf(fs, file.cur, file.pos) \in Word
        BY <2>1, <2>3, PlaceTyped
    <2> QED BY <1>4, <2>4, <2>5, <2>6 DEF Lba
<1> QED BY <1>2, <1>3, <1>4 DEF Cached

\* A card that answers is the one that was mounted, and is asked for the block
\* the reader needs.
LEMMA BlockNamed ==
    ASSUME FsTrue, DirTyped, FileTyped, Stages, CardTrue, Cached,
           mode = "ready"
    PROVE  slot = mounted /\ Block(Argument) = Where(Lba)
<1>1. mounted \in Cards /\ mounted # NoCard
    BY OnCard, SdAssumption
<1>2. slot = mounted /\ sd.hc = Disk[slot].hc
    BY <1>1 DEF CardTrue
<1>3. Lba \in Word /\ Lba \in Int
    BY LbaTyped DEF Word
<1>4. Lba % WordModulus = Lba
    BY <1>3, WordOf
<1> QED BY <1>2, <1>4 DEF Block, Argument, Where

LEMMA AddModulus ==
    ASSUME NEW d \in Nat \ {0}, NEW k \in Int, NEW a \in Int
    PROVE  (d * k + a) % d = a % d
<1> DEFINE b == d * k + a
           p == b \div d
           r == b % d
           q == a \div d
           s == a % d
<1>1. b \in Int
    OBVIOUS
<1>2. p \in Int /\ r \in 0 .. (d - 1) /\ b = d * p + r
    <2> HIDE DEF b
    <2> QED BY <1>1
<1>3. q \in Int /\ s \in 0 .. (d - 1) /\ a = d * q + s
    OBVIOUS
<1>4. b = d * k + a
    OBVIOUS
<1> HIDE DEF b, p, r, q, s
<1>5. d * (k + q) = d * k + d * q
    BY <1>3
<1>6. d * p + r = d * (k + q) + s
    <2>1. d * k \in Int /\ d * q \in Int /\ d * p \in Int
        BY <1>2, <1>3
    <2> QED BY <1>2, <1>3, <1>4, <1>5, <2>1
<1>7. k + q \in Int
    BY <1>3
<1>8. r = s
    BY <1>2, <1>3, <1>6, <1>7, DivUnique
<1> QED BY <1>8 DEF b, r, s

\* A sum may be cut to 32 bits on the way.
LEMMA SumOf ==
    ASSUME NEW a \in Int, NEW b \in Int
    PROVE  ((a % WordModulus) + b) % WordModulus = (a + b) % WordModulus
<1> DEFINE d == WordModulus
           k == a \div d
           r == a % d
<1>1. d \in Nat \ {0}
    BY SdAssumption
<1>2. k \in Int /\ r \in Int /\ a = d * k + r
    <2> HIDE DEF d
    <2> QED BY <1>1
<1> HIDE DEF k, r
<1>3. r + b \in Int /\ a + b = d * k + (r + b)
    <2>1. d * k \in Int
        <3> HIDE DEF d
        <3> QED BY <1>1, <1>2
    <2> DEFINE m == d * k
    <2> HIDE DEF m
    <2>2. m \in Int /\ a = m + r
        BY <1>2, <2>1 DEF m
    <2>3. a + b = m + (r + b) /\ r + b \in Int
        BY <1>2, <2>2
    <2> QED BY <2>3 DEF m
<1> HIDE DEF d
<1>4. (d * k + (r + b)) % d = (r + b) % d
    BY <1>1, <1>2, <1>3, AddModulus
<1>5. (a + b) % d = (r + b) % d
    BY <1>3, <1>4
<1> QED BY <1>5 DEF d, r

\* The numbers the code works with are the places themselves, but for 32 bits,
\* and the card gives the same sector for both.
LEMMA SeenAround ==
    ASSUME NEW l \in Int
    PROVE  /\ l \in DOMAIN Seen <=> (l % WordModulus) \in DOMAIN Seen
           /\ l \in DOMAIN Seen => Seen[l % WordModulus] = Seen[l]
<1> DEFINE w == l % WordModulus
<1>1. w \in Word /\ w \in Int
    BY WordOf DEF Word
<1>2. w % WordModulus = w
    BY <1>1, WordOf
<1>3. Where(l) = Where(w)
    BY <1>2 DEF Where
<1> QED BY <1>1, <1>3 DEF Seen

LEMMA FatAround ==
    ASSUME NEW f, FsTyped(f), NEW c \in Nat
    PROVE  FatAt(f, c) \in Int /\ fat_lba(f, c) = FatAt(f, c) % WordModulus
<1> DEFINE n == FatPerSector[f.type]
           q == c \div n
<1>1. n \in Nat \ {0}
    BY SdAssumption DEF FsTyped
<1>2. q \in Nat
    <2> HIDE DEF n
    <2> QED BY <1>1, DivFacts
<1>3. f.fat \in Int
    BY DEF FsTyped
<1>4. f.fat + q \in Int
    <2> HIDE DEF q
    <2> QED BY <1>2, <1>3
<1> QED BY <1>4 DEF FatAt, fat_lba

LEMMA SectorAround ==
    ASSUME NEW f, FsTyped(f), NEW c \in Nat, NEW p \in Nat
    PROVE  /\ SectorAt(f, c, p) \in Int
           /\ SectorOf(f, c, p) = SectorAt(f, c, p) % WordModulus
<1> DEFINE a == f.data + (c - 2) * f.spc
           r == p % ClusterLen(f)
           q == r \div SectorLen
<1>1. a \in Int
    <2> DEFINE k == c - 2
               s == f.spc
    <2>1. k \in Int /\ s \in Nat /\ f.data \in Int
        BY DEF FsTyped
    <2>2. k * s \in Int
        <3> HIDE DEF k, s
        <3> QED BY <2>1
    <2> DEFINE m == k * s
    <2> HIDE DEF m
    <2>3. f.data + m \in Int
        BY <2>1, <2>2 DEF m
    <2> QED BY <2>3 DEF m
<1>2. q \in Nat
    <2>1. ClusterLen(f) \in Nat \ {0} /\ SectorLen \in Nat \ {0}
        BY PlaceTyped, SdAssumption
    <2>2. r \in Nat
        BY <2>1, DivFacts
    <2> HIDE DEF r
    <2> QED BY <2>1, <2>2, DivFacts
<1>3. /\ SectorAt(f, c, p) = a + q
      /\ SectorOf(f, c, p) = ((a % WordModulus) + q) % WordModulus
    BY DEF SectorAt, SectorOf, cluster_lba
<1> HIDE DEF a, q
<1>4. a + q \in Int /\ ((a % WordModulus) + q) % WordModulus
                           = (a + q) % WordModulus
    BY <1>1, <1>2, SumOf
<1> QED BY <1>3, <1>4

\* The sector the reader uses is that of the volume, but for a torn block.
LEMMA SectorTrue ==
    ASSUME Stages, CacheTrue, Cached, Hit
    PROVE  /\ \/ Lba \in DOMAIN Seen /\ Sector = Seen[Lba]
              \/ torn /\ Sector = Blank
           /\ IsSector(Sector)
<1>1. cache.valid /\ cache.lba = Lba /\ Sector = cache.sector
    BY DEF Hit, Sector
<1>2. mounted \in Cards /\ (mount_ok \/ stage \in {"mount", "partition"})
    BY OnCard
<1>3. \/ Lba \in DOMAIN Seen /\ Sector = Seen[Lba]
      \/ torn /\ Sector = Blank
    BY <1>1, <1>2 DEF CacheTrue
<1> QED BY <1>2, <1>3, SeenTyped, BlankIsSector

\* The steps that leave the card and what the driver knows of it as they are.
OffCard ==
    \/ ReadCommand \/ ReadBlock \/ ReadTimeout
    \/ StartMount \/ Mount \/ MountPartition \/ Open \/ OpenNext
    \/ Read \/ Seek \/ Copy \/ Loader \/ Launch
    \/ print_status \/ List \/ ListNext \/ Tick

Initializing == Cmd0 \/ Cmd8 \/ Cmd55 \/ Acmd41 \/ Cmd58 \/ Cmd16

LEMMA SdCases ==
    [SdNext]_sdVars <=> \/ Initializing \/ hazard3_sd_boot
                        \/ OffCard
                        \/ Insert \/ Remove \/ ReadTorn
                        \/ UNCHANGED sdVars
BY DEF SdNext, Monitor, OffCard, Initializing

\* Where each step leads.
LEMMA OffCardStage ==
    ASSUME OffCard
    PROVE  /\ UNCHANGED <<cardVars, sd, history>>
           /\ stage' \in {stage, "prompt"} \cup Mounts \cup OnVolume

<1>1. CASE ReadCommand
    BY <1>1 DEF ReadCommand, Fail, cardVars, history,
        Mounts, OnVolume
<1>2. CASE ReadBlock
    BY <1>2 DEF ReadBlock, Arrives, cardVars, history,
        Mounts, OnVolume
<1>3. CASE ReadTimeout
    BY <1>3 DEF ReadTimeout, Fail, cardVars, history,
        Mounts, OnVolume
<1>4. CASE StartMount
    BY <1>4 DEF StartMount, Goto, cardVars, history,
        Mounts, OnVolume
<1>5. CASE Mount
    BY <1>5 DEF Mount, Mounted, Uses, Goto, Fail, cardVars, history,
        Mounts, OnVolume
<1>6. CASE MountPartition
    BY <1>6 DEF MountPartition, Mounted, Uses, Goto, Fail, cardVars, history,
        Mounts, OnVolume
<1>7. CASE Open
    BY <1>7 DEF Open, Opened, DirNext, Uses, Goto, Fail, cardVars, history,
        Mounts, OnVolume
<1>8. CASE OpenNext
    BY <1>8 DEF OpenNext, DirCluster, Uses, Goto, Fail, cardVars, history,
        Mounts, OnVolume
<1>9. CASE Read
    BY <1>9 DEF Read, Goto, Fail, cardVars, history,
        Mounts, OnVolume
<1>10. CASE Seek
    BY <1>10 DEF Seek, Uses, Goto, Fail, cardVars, history,
        Mounts, OnVolume
<1>11. CASE Copy
    BY <1>11 DEF Copy, Uses, Goto, cardVars, history,
        Mounts, OnVolume
<1>12. CASE Loader
    BY <1>12 DEF Loader, Goto, Fail, cardVars, history,
        Mounts, OnVolume
<1>13. CASE Launch
    BY <1>13 DEF Launch, Goto, cardVars, history,
        Mounts, OnVolume
<1>14. CASE print_status
    BY <1>14 DEF print_status, Goto, cardVars, history,
        Mounts, OnVolume
<1>15. CASE List
    BY <1>15 DEF List, DirNext, Uses, Goto, Fail, cardVars, history,
        Mounts, OnVolume
<1>16. CASE ListNext
    BY <1>16 DEF ListNext, DirCluster, Uses, Goto, Fail, cardVars, history,
        Mounts, OnVolume
<1>17. CASE Tick
    BY <1>17 DEF Tick, cardVars, history,
        Mounts, OnVolume
<1> QED BY <1>1, <1>2, <1>3, <1>4, <1>5, <1>6, <1>7, <1>8, <1>9, <1>10, <1>11,
           <1>12, <1>13, <1>14, <1>15, <1>16, <1>17
    DEF OffCard

\* Only the search of the boot sector mounts, and only once it has a card.
LEMMA MountsStage ==
    ASSUME Stages, OffCard
    PROVE  /\ mount_ok' => mount_ok \/ stage \in Mounts
           /\ stage' \in OnVolume => mount_ok'
           /\ stage' \in Mounts => stage \in Mounts /\ ~mount_ok'
           /\ stage' = stage => mount_ok' = mount_ok
<1>1. CASE StartMount
    BY <1>1 DEF StartMount, Goto, Stages, Mounts, OnVolume
<1>2. CASE Mount \/ MountPartition
    BY <1>2 DEF Mount, MountPartition, Mounted, Uses, Goto, Fail, Stages,
        Mounts, OnVolume
<1>3. CASE ~(StartMount \/ Mount \/ MountPartition)
    <2>1. mount_ok' = mount_ok
        BY <1>3 DEF OffCard, ReadCommand, ReadBlock, Arrives, ReadTimeout,
            Open, OpenNext, Read, Seek, Copy, Loader, Launch, print_status,
            List, ListNext, Tick, fsVars
    <2>2. CASE ReadCommand \/ ReadBlock \/ ReadTimeout \/ Tick
        <3>1. stage' = stage \/ stage' = "prompt"
            BY <2>2 DEF ReadCommand, ReadBlock, Arrives, ReadTimeout, Tick,
                Fail
        <3> QED BY <2>1, <3>1 DEF Stages, Mounts, OnVolume
    <2>3. CASE Open \/ OpenNext \/ Read \/ Seek \/ Copy \/ Loader \/ Launch
                 \/ List \/ ListNext
        <3>1. stage \in OnVolume
            BY <2>3 DEF Open, OpenNext, Read, Seek, Copy, Loader, Launch,
                List, ListNext, OnVolume
        <3>2. stage' \notin Mounts
            BY <2>3, <3>1 DEF Open, Opened, OpenNext, Read, Seek, Copy,
                Loader, Launch, List, ListNext, DirNext, DirCluster, Goto,
                Fail, Mounts, OnVolume
        <3> QED BY <2>1, <3>1, <3>2 DEF Stages
    <2>4. CASE print_status
        BY <2>4 DEF print_status, Goto, fsVars, Stages, Mounts, OnVolume
    <2> QED BY <1>3, <2>2, <2>3, <2>4 DEF OffCard
<1> QED BY <1>1, <1>2, <1>3

LEMMA StagesStep ==
    ASSUME Stages, CardTrue, [SdNext]_sdVars PROVE Stages'
<1>1. CASE Initializing
    <2>1. stage \in Starting /\ mount_ok' = mount_ok
        BY <1>1 DEF Initializing, Cmd0, Cmd8, Cmd55, Acmd41, Cmd58, Cmd16,
            Command, fsVars, Starting
    <2>2. ~mount_ok /\ mounted = NoCard
        BY <2>1 DEF Stages
    <2>3. /\ stage' \in Starting \cup {"prompt", "ready"}
          /\ stage' \in Starting => mounted' = NoCard
          /\ stage' = "ready" => mounted' \in Cards
        BY <1>1, <2>2 DEF Initializing, Cmd0, Cmd8, Cmd55, Acmd41, Cmd58,
            Cmd16, Goto, Fail, Starting, Answers, CardTrue
    <2> QED BY <2>1, <2>2, <2>3 DEF Stages, Starting, Mounts, OnVolume
<1>2. CASE hazard3_sd_boot
    BY <1>2 DEF hazard3_sd_boot, Goto, Stages, Starting, Mounts, OnVolume
<1>3. CASE OffCard
    <2>1. /\ mounted' = mounted
          /\ stage' \in {stage, "prompt"} \cup Mounts \cup OnVolume
        BY <1>3, OffCardStage DEF history
    <2>2. /\ mount_ok' => mount_ok \/ stage \in Mounts
          /\ stage' \in OnVolume => mount_ok'
          /\ stage' \in Mounts => stage \in Mounts /\ ~mount_ok'
          /\ stage' = stage => mount_ok' = mount_ok
        BY <1>3, MountsStage
    <2> QED BY <2>1, <2>2 DEF Stages, Starting, Mounts, OnVolume
<1>4. CASE Insert \/ Remove \/ ReadTorn \/ UNCHANGED sdVars
    <2>1. UNCHANGED <<stage, mount_ok, mounted>>
        BY <1>4 DEF Insert, Remove, ReadTorn, Arrives, sdVars, fsVars,
            history
    <2> QED BY <2>1 DEF Stages
<1> QED BY <1>1, <1>2, <1>3, <1>4, SdCases

LEMMA CardStep ==
    ASSUME Stages, CardTrue, [SdNext]_sdVars PROVE CardTrue'
<1> DEFINE SdType == [initialized : BOOLEAN, hc : BOOLEAN, v2 : BOOLEAN]
<1>1. CASE Initializing
    <2>1. stage \in Starting /\ mounted = NoCard /\ slot' = slot
        BY <1>1 DEF Initializing, Cmd0, Cmd8, Cmd55, Acmd41, Cmd58, Cmd16,
            cardVars, Starting, Stages
    <2>2. CASE Cmd0 \/ Cmd55
        <3>1. UNCHANGED <<sd, mounted>> /\ stage' \notin {"cmd58", "cmd16"}
            BY <2>2 DEF Cmd0, Cmd55, Goto, Fail
        <3> QED BY <2>1, <3>1 DEF CardTrue
    <2>3. CASE Cmd8
        <3>1. /\ UNCHANGED <<mode, mounted>>
              /\ stage' \notin {"cmd58", "cmd16"}
              /\ sd' = sd \/ /\ slot \in Cards
                             /\ sd' = [sd EXCEPT !.v2 = Disk[slot].v2]
            BY <2>3 DEF Cmd8, Goto, Fail, cardVars, Answers, CardTrue
        <3>2. sd' \in SdType
            BY <3>1, DiskAssumption DEF CardTrue
        <3> QED BY <2>1, <3>1, <3>2 DEF CardTrue
    <2>4. CASE Acmd41
        <3>1. /\ UNCHANGED <<sd, mounted>> /\ stage' # "cmd16"
              /\ stage' = "cmd58" =>
                     mode' = "ready" /\ (Disk[slot].hc => sd.v2)
            BY <2>4 DEF Acmd41, Goto, Fail
        <3> QED BY <2>1, <3>1 DEF CardTrue
    <2>5. CASE Cmd58 /\ Answers
        <3> DEFINE hc == sd.v2 /\ Disk[slot].hc
        <3>1. slot \in Cards /\ mode = "ready" /\ (Disk[slot].hc => sd.v2)
            BY <2>5 DEF Cmd58, CardTrue, Answers
        <3>2. Disk[slot].hc \in BOOLEAN /\ sd.v2 \in BOOLEAN
            BY <3>1, DiskAssumption DEF CardTrue
        <3>3. hc = Disk[slot].hc /\ hc \in BOOLEAN
            BY <3>1, <3>2
        <3>4. /\ sd' = [sd EXCEPT !.hc = hc, !.initialized = hc]
              /\ mounted' = IF hc THEN slot ELSE NoCard
              /\ stage' = IF hc THEN "ready" ELSE "cmd16"
              /\ mode' = mode
            BY <2>5 DEF Cmd58, Goto, cardVars
        <3> HIDE DEF hc
        <3>5. sd' \in SdType /\ sd'.hc = hc
            BY <3>3, <3>4 DEF CardTrue
        <3>6. NoCard \notin Cards
            BY SdAssumption
        <3>7. CASE hc
            <4>1. mounted' = slot /\ stage' = "ready"
                BY <3>4, <3>7
            <4> QED BY <2>1, <3>1, <3>3, <3>4, <3>5, <4>1 DEF CardTrue
        <3>8. CASE ~hc
            <4>1. mounted' = NoCard /\ stage' = "cmd16"
                BY <3>4, <3>8
            <4> QED BY <2>1, <3>1, <3>3, <3>4, <3>5, <4>1 DEF CardTrue
        <3> QED BY <3>7, <3>8
    <2>6. CASE Cmd16 /\ Answers
        <3>1. /\ slot \in Cards /\ mode = "ready" /\ sd.hc = Disk[slot].hc
            BY <2>6 DEF Cmd16, CardTrue, Answers
        <3>2. /\ sd' = [sd EXCEPT !.initialized = TRUE]
              /\ mounted' = slot /\ stage' = "ready" /\ mode' = mode
            BY <2>6 DEF Cmd16, Goto, cardVars
        <3>3. sd' \in SdType /\ sd'.hc = sd.hc
            BY <3>2 DEF CardTrue
        <3> QED BY <2>1, <3>1, <3>2, <3>3 DEF CardTrue
    <2>7. CASE (Cmd58 \/ Cmd16) /\ ~Answers
        <3>1. UNCHANGED <<sd, mounted, mode>> /\ stage' = "prompt"
            BY <2>7 DEF Cmd58, Cmd16, Fail, cardVars
        <3> QED BY <2>1, <3>1 DEF CardTrue
    <2> QED BY <1>1, <2>2, <2>3, <2>4, <2>5, <2>6, <2>7 DEF Initializing
<1>2. CASE hazard3_sd_boot
    BY <1>2 DEF hazard3_sd_boot, Goto, cardVars, CardTrue
<1>3. CASE OffCard
    <2>1. /\ UNCHANGED <<slot, mode, sd, mounted>>
          /\ stage' \in {stage, "prompt"} \cup Mounts \cup OnVolume
        BY <1>3, OffCardStage DEF history, cardVars
    <2>2. Answers' = Answers
        BY <2>1 DEF Answers
    <2>3. stage' = stage \/ stage' \notin {"cmd58", "cmd16"}
        BY <2>1 DEF Mounts, OnVolume
    <2> QED BY <2>1, <2>2, <2>3 DEF CardTrue
<1>4. CASE Insert \/ Remove \/ ReadTorn
    <2>1. /\ UNCHANGED <<sd, mounted>>
          /\ mode' = "native" /\ slot' \in Cards \cup {NoCard}
        BY <1>4 DEF Insert, Remove, ReadTorn, Arrives, history
    <2>2. ~Answers'
        BY <2>1 DEF Answers
    <2> QED BY <2>1, <2>2 DEF CardTrue
<1>5. CASE UNCHANGED sdVars
    BY <1>5 DEF sdVars, cardVars, history, CardTrue, Answers
<1> QED BY <1>1, <1>2, <1>3, <1>4, <1>5, SdCases

\* A command that initializes the card has no volume.
LEMMA Unmounted ==
    ASSUME Stages, Initializing \/ hazard3_sd_boot
    PROVE  ~mount_ok' /\ stage' \notin {"mount", "partition"} /\ ~Cached'
<1>1. CASE Initializing
    <2>1. stage \in Starting /\ mount_ok' = mount_ok
        BY <1>1 DEF Initializing, Cmd0, Cmd8, Cmd55, Acmd41, Cmd58, Cmd16,
            Command, fsVars, Starting
    <2>2. stage' \in Starting \cup {"prompt", "ready"}
        BY <1>1 DEF Initializing, Cmd0, Cmd8, Cmd55, Acmd41, Cmd58,
            Cmd16, Goto, Fail, Starting
    <2> QED BY <2>1, <2>2 DEF Stages, Starting, Cached
<1>2. CASE hazard3_sd_boot
    BY <1>2 DEF hazard3_sd_boot, Goto, Cached
<1> QED BY <1>1, <1>2

\* The steps that neither begin nor end a search of the volume.
Staying ==
    \/ ReadCommand \/ ReadBlock \/ ReadTimeout \/ ReadTorn
    \/ Open \/ OpenNext \/ Read \/ Seek \/ Copy \/ Loader \/ Launch
    \/ print_status \/ List \/ ListNext \/ Tick
    \/ Insert \/ Remove \/ UNCHANGED sdVars

LEMMA StayingCases ==
    [SdNext]_sdVars => \/ Initializing \/ hazard3_sd_boot
                       \/ StartMount \/ Mount \/ MountPartition \/ Staying
BY SdCases DEF OffCard, Staying

LEMMA StayingKeeps ==
    ASSUME Staying
    PROVE  /\ UNCHANGED <<fs, mount_ok, mounted>>
           /\ stage' = stage \/ stage' \notin Mounts
<1>1. CASE Open \/ OpenNext \/ Read \/ Seek \/ Copy \/ Loader \/ Launch
             \/ print_status \/ List \/ ListNext
    <2>1. UNCHANGED <<fs, mount_ok, mounted>>
        BY <1>1 DEF Open, OpenNext, Read, Seek, Copy, Loader, Launch,
            print_status, List, ListNext, Uses, fsVars, history
    <2>2. stage' \notin Mounts
        BY <1>1 DEF Open, Opened, OpenNext, Read, Seek, Copy, Loader, Launch,
            print_status, List, ListNext, DirNext, DirCluster, Goto, Fail,
            Mounts
    <2> QED BY <2>1, <2>2
<1>2. CASE ReadCommand \/ ReadBlock \/ ReadTimeout \/ ReadTorn \/ Tick
             \/ Insert \/ Remove \/ UNCHANGED sdVars
    BY <1>2 DEF ReadCommand, ReadBlock, ReadTimeout, ReadTorn, Arrives, Tick,
        Insert, Remove, Fail, sdVars, fsVars, history, Mounts
<1> QED BY <1>1, <1>2 DEF Staying

LEMMA SameVolume ==
    ASSUME mounted' = mounted PROVE Seen' = Seen /\ SeenFs' = SeenFs
BY DEF Seen, SeenFs, Where, Volume

LEMMA InMountCached ==
    ASSUME Mount \/ MountPartition
    PROVE  /\ Cached /\ Hit /\ stage \in {"mount", "partition"}
           /\ Mount => stage = "mount"
           /\ MountPartition => stage = "partition"
           /\ UNCHANGED <<mounted, torn, cache, file, want, out>>
BY DEF Mount, MountPartition, Uses, Cached, history

\* A volume that is mounted is the one its boot sector describes.
LEMMA MountedTrue ==
    ASSUME NEW part \in Nat, Mounted(part), part \in DOMAIN Seen,
           Sector = Seen[part], IsSector(Sector), Sector.kind = "boot",
           SeenFs = Geometry(Seen[part], part),
           mounted' = mounted, ~mount_ok
    PROVE  FsTrue'
<1>1. CASE Supported(Sector)
    <2>1. fs' = Geometry(Sector, part) /\ stage' \in {"open", "prompt"}
        BY <1>1 DEF Mounted, Goto, Fail
    <2>2. FsTyped(fs')
        BY <1>1, <2>1, GeometryTyped
    <2>3. SeenFs' = SeenFs
        BY SameVolume
    <2> QED BY <2>1, <2>2, <2>3 DEF FsTrue
<1>2. CASE ~Supported(Sector)
    BY <1>2 DEF Mounted, Fail, FsTrue
<1> QED BY <1>1, <1>2

LEMMA FsStep ==
    ASSUME Stages, FsTrue, CacheTrue, [SdNext]_sdVars PROVE FsTrue'
<1>1. CASE Initializing \/ hazard3_sd_boot
    BY <1>1, Unmounted DEF FsTrue
<1>2. CASE StartMount
    BY <1>2 DEF StartMount, Goto, Stages, Mounts, FsTrue
<1>3. CASE Mount
    <2>1. Cached /\ Hit /\ stage = "mount" /\ mounted' = mounted
        BY <1>3, InMountCached
    <2>2. ~mount_ok
        BY <2>1 DEF Stages, Mounts
    <2>3. IsSector(Sector) /\ (\/ 0 \in DOMAIN Seen /\ Sector = Seen[0]
                               \/ Sector.kind = "blank")
        BY <2>1, SectorTrue, BlankIsSector DEF Lba
    <2>4. CASE Sector.kind = "boot"
        <3>1. Mounted(0)
            BY <1>3, <2>4 DEF Mount
        <3>2. 0 \in DOMAIN Seen /\ Sector = Seen[0]
            BY <2>3, <2>4
        <3>3. SeenFs = Geometry(Seen[0], 0)
            BY <2>4, <3>2 DEF SeenFs
        <3> QED BY <2>1, <2>2, <2>3, <2>4, <3>1, <3>2, <3>3, MountedTrue
    <2>5. CASE Sector.kind = "mbr" /\ Sector.part # 0
        <3>1. /\ fs' = [fs EXCEPT !.part = Sector.part]
              /\ stage' = "partition" /\ mount_ok' = mount_ok
            BY <1>3, <2>5 DEF Mount, Goto
        <3>2. 0 \in DOMAIN Seen /\ Sector = Seen[0] /\ Seen' = Seen
            BY <2>1, <2>3, <2>5, SameVolume
        <3>3. fs'.part = Sector.part
            BY <2>1, <3>1 DEF FsTrue, NoFs
        <3> QED BY <2>2, <2>5, <3>1, <3>2, <3>3 DEF FsTrue
    <2>6. CASE Sector.kind # "boot" /\ ~(Sector.kind = "mbr" /\ Sector.part # 0)
        <3>1. stage' = "prompt" /\ mount_ok' = mount_ok
            BY <1>3, <2>6 DEF Mount, Fail
        <3> QED BY <2>2, <3>1 DEF FsTrue
    <2> QED BY <2>4, <2>5, <2>6
<1>4. CASE MountPartition
    <2>1. Cached /\ Hit /\ stage = "partition" /\ mounted' = mounted
        BY <1>4, InMountCached
    <2>2. ~mount_ok
        BY <2>1 DEF Stages, Mounts
    <2>3. /\ 0 \in DOMAIN Seen /\ Seen[0].kind = "mbr"
          /\ fs.part = Seen[0].part
        BY <2>1 DEF FsTrue
    <2>4. fs.part \in Nat
        BY <2>1, <2>3, OnCard, SeenTyped, KindTyped
    <2>5. IsSector(Sector)
             /\ (\/ fs.part \in DOMAIN Seen /\ Sector = Seen[fs.part]
                 \/ Sector.kind = "blank")
        BY <2>1, SectorTrue, BlankIsSector DEF Lba
    <2>6. CASE Sector.kind = "boot"
        <3>1. Mounted(fs.part)
            BY <1>4, <2>6 DEF MountPartition
        <3>2. fs.part \in DOMAIN Seen /\ Sector = Seen[fs.part]
            BY <2>5, <2>6
        <3>3. SeenFs = Geometry(Seen[fs.part], fs.part)
            BY <2>3 DEF SeenFs
        <3> QED BY <2>1, <2>2, <2>4, <2>5, <2>6, <3>1, <3>2, <3>3,
                MountedTrue
    <2>7. CASE Sector.kind # "boot"
        <3>1. stage' = "prompt" /\ mount_ok' = mount_ok
            BY <1>4, <2>7 DEF MountPartition, Fail
        <3> QED BY <2>2, <3>1 DEF FsTrue
    <2> QED BY <2>6, <2>7
<1>5. CASE Staying
    <2>1. /\ UNCHANGED <<fs, mount_ok, mounted>>
          /\ stage' = stage \/ stage' \notin Mounts
        BY <1>5, StayingKeeps
    <2>2. Seen' = Seen /\ SeenFs' = SeenFs
        BY <2>1, SameVolume
    <2>3. FsTyped(fs)' = FsTyped(fs)
        BY <2>1
    <2> QED BY <2>1, <2>2, <2>3 DEF FsTrue, Mounts
<1> QED BY <1>1, <1>2, <1>3, <1>4, <1>5, StayingCases

\* A block that has come in is the one the reader asked for.
LEMMA CacheStep ==
    ASSUME FsTrue, DirTyped, FileTyped, Stages, CardTrue, CacheTrue,
           BlockTrue, [SdNext]_sdVars
    PROVE  CacheTrue'
<1>1. CASE Initializing \/ hazard3_sd_boot
    BY <1>1, Unmounted DEF CacheTrue
<1>2. CASE StartMount
    BY <1>2 DEF StartMount, CacheAtMount, CacheTrue
<1>3. CASE Mount \/ MountPartition
    <2>1. stage \in {"mount", "partition"} /\ UNCHANGED <<mounted, torn, cache>>
        BY <1>3, InMountCached
    <2>2. Seen' = Seen
        BY <2>1, SameVolume
    <2> QED BY <2>1, <2>2 DEF CacheTrue
<1>4. CASE Staying
    <2>1. /\ UNCHANGED <<mount_ok, mounted>>
          /\ stage' = stage \/ stage' \notin Mounts
        BY <1>4, StayingKeeps
    <2>2. Seen' = Seen
        BY <2>1, SameVolume
    <2>3. CASE ReadBlock /\ Cached
        <3>1. mode = "ready" /\ io = "token"
            BY <2>3 DEF ReadBlock
        <3>2. slot = mounted /\ Block(Argument) = Where(Lba)
            BY <2>3, <3>1, BlockNamed
        <3>3. Lba \in DOMAIN Seen
            BY <2>3, <3>1 DEF BlockTrue
        <3>6. Seen[Lba] = Volume[Where(Lba)]
            BY <3>3 DEF Seen
        <3>4. cache' = [valid |-> TRUE, lba |-> Lba, sector |-> Seen[Lba]]
            BY <2>3, <3>2, <3>6 DEF ReadBlock, Arrives, Volume
        <3>5. cache'.lba = Lba /\ cache'.sector = Seen[Lba]
            BY <3>4
        <3> QED BY <2>2, <3>3, <3>5 DEF CacheTrue
    <2>4. CASE ReadTorn /\ Cached
        <3>1. /\ cache' = [valid |-> TRUE, lba |-> Lba, sector |-> Blank]
              /\ torn'
            BY <2>4 DEF ReadTorn, Arrives
        <3>2. cache'.sector = Blank
            BY <3>1
        <3> QED BY <3>1, <3>2 DEF CacheTrue
    <2>5. CASE (ReadBlock \/ ReadTorn) /\ ~Cached
        <3>1. cache' = cache /\ (torn' = torn \/ torn') /\ stage' = stage
            BY <2>5 DEF ReadBlock, ReadTorn, Arrives
        <3> QED BY <2>1, <2>2, <3>1 DEF CacheTrue
    <2>6. CASE ~(ReadBlock \/ ReadTorn)
        <3>1. cache' = cache /\ torn' = torn
            BY <1>4, <2>6 DEF Staying, ReadCommand, ReadTimeout, Open,
                OpenNext, Read, Seek, Copy, Loader, Launch, print_status,
                List, ListNext, Tick, Insert, Remove, Uses, sdVars, fsVars,
                history
        <3> QED BY <2>1, <2>2, <3>1 DEF CacheTrue, Mounts
    <2> QED BY <2>3, <2>4, <2>5, <2>6
<1> QED BY <1>1, <1>2, <1>3, <1>4, StayingCases

\* A block is only waited for where the volume has one.
LEMMA BlockTrueStep ==
    ASSUME FsTrue, DirTyped, FileTyped, Stages, CardTrue, BlockTrue, CardInv,
           [SdNext]_sdVars
    PROVE  BlockTrue'
<1>1. CASE Initializing \/ hazard3_sd_boot
    BY <1>1, Unmounted DEF BlockTrue
<1>2. CASE ReadCommand
    <2>1. CASE io' = "token"
        <3>1. /\ Answers /\ mode = "ready"
              /\ Block(Argument) \in DOMAIN Disk[slot].blocks
            BY <1>2, <2>1 DEF ReadCommand, Fail
        <3>2. UNCHANGED <<stage, fs, dir, file, mounted>>
            BY <1>2, <2>1 DEF ReadCommand, Fail, fsVars, fileVars, history
        <3>3. Cached' = Cached /\ Seen' = Seen /\ Lba' = Lba
            BY <3>2, SameVolume DEF Cached, Lba, DirLba, cluster_lba, fat_lba,
                SectorOf, ClusterLen
        <3>4. Cached => slot = mounted /\ Block(Argument) = Where(Lba)
            BY <3>1, BlockNamed
        <3>5. Cached => Lba \in DOMAIN Seen
            BY <3>1, <3>4, LbaTyped DEF Seen, Volume, Word
        <3> QED BY <3>3, <3>5 DEF BlockTrue
    <2>2. CASE io' # "token"
        BY <2>2 DEF BlockTrue
    <2> QED BY <2>1, <2>2
<1>3. CASE Tick \/ UNCHANGED sdVars
    <2>1. UNCHANGED <<io, mode, stage, fs, dir, file, mounted>>
        BY <1>3 DEF Tick, sdVars, cardVars, fsVars, fileVars, history
    <2>2. Cached' = Cached /\ Seen' = Seen /\ Lba' = Lba
        BY <2>1, SameVolume DEF Cached, Lba, DirLba, cluster_lba, fat_lba,
            SectorOf, ClusterLen
    <2> QED BY <2>1, <2>2 DEF BlockTrue
<1>4. CASE Insert \/ Remove \/ ReadTorn
    BY <1>4 DEF Insert, Remove, ReadTorn, BlockTrue
<1>5. CASE ReadBlock \/ ReadTimeout
    BY <1>5 DEF ReadBlock, ReadTimeout, Arrives, Fail, BlockTrue
<1>6. CASE Mount \/ MountPartition \/ Open \/ OpenNext \/ Seek \/ Copy
             \/ List \/ ListNext
    <2>1. Hit
        BY <1>6 DEF Mount, MountPartition, Open, OpenNext, Seek, Copy, List,
            ListNext, Uses
    <2>2. io # "token"
        BY <2>1, NoUse
    <2>3. io' # "token"
        BY <1>6, <2>2, UseIo
    <2> QED BY <2>3 DEF BlockTrue
<1>7. CASE StartMount \/ Read \/ Loader \/ Launch \/ print_status
    <2>1. stage \in {"ready", "read", "loader", "launch", "prompt"}
        BY <1>7 DEF StartMount, Read, Loader, Launch, print_status
    <2>2. io # "token"
        BY <2>1 DEF CardInv, BlockUnderWay, Cached, Listing
    <2>3. io' = io \/ io' = "idle"
        BY <1>7 DEF StartMount, Read, Loader, Launch, print_status, Fail
    <2> QED BY <2>2, <2>3 DEF BlockTrue
<1> QED BY <1>1, <1>2, <1>3, <1>4, <1>5, <1>6, <1>7, SdCases DEF OffCard

LEMMA DirStartTyped ==
    ASSUME NEW f, FsTyped(f)
    PROVE  DirStart(f) \in [cluster : Nat, sector : Nat, guard : Nat]
BY DEF DirStart, FsTyped

LEMMA MountedDir ==
    ASSUME NEW part, Mounted(part), FsTrue', stage' = "open"
    PROVE  mount_ok' /\ dir' \in [cluster : Nat, sector : Nat, guard : Nat]
<1>1. dir' = DirStart(fs') /\ mount_ok'
    BY DEF Mounted, Fail
<1>2. FsTyped(fs')
    BY <1>1 DEF FsTrue
<1> QED BY <1>1, <1>2, DirStartTyped

LEMMA DirStep ==
    ASSUME FsTrue, DirTyped, Stages, CacheTrue, FsTrue', [SdNext]_sdVars
    PROVE  DirTyped'
<1> DEFINE Place == [cluster : Nat, sector : Nat, guard : Nat]
<1> SUFFICES ASSUME stage' \in {"open", "openNext"} PROVE dir' \in Place
    BY DEF DirTyped
<1>1. CASE Mount \/ MountPartition
    <2>1. Mounted(0) \/ Mounted(fs.part)
        BY <1>1 DEF Mount, MountPartition, Goto, Fail
    <2>2. stage' = "open"
        BY <2>1 DEF Mounted, Goto, Fail
    <2> QED BY <2>1, <2>2, MountedDir
<1>2. CASE Open
    <2>1. dir \in Place
        BY <1>2 DEF Open, DirTyped
    <2>2. dir' = dir \/ dir' = [dir EXCEPT !.sector = @ + 1]
        BY <1>2 DEF Open, DirNext
    <2> QED BY <2>1, <2>2
<1>3. CASE OpenNext
    <2>1. dir \in Place /\ Cached /\ Hit
        BY <1>3 DEF OpenNext, DirTyped, Cached, Uses
    <2>2. mount_ok
        BY <1>3 DEF OpenNext, Stages, OnVolume
    <2>3. IsSector(Sector) /\ fs.type \in {16, 32}
        BY <2>1, <2>2, SectorTrue DEF FsTrue, FsTyped
    <2>4. NextOf(Sector, fs.type, dir.cluster) \in Nat
        BY <2>1, <2>3, NextTyped
    <2>5. dir' = dir \/ dir' = [cluster |-> NextOf(Sector, fs.type, dir.cluster),
                                sector |-> 0, guard |-> dir.guard + 1]
        BY <1>3 DEF OpenNext, DirCluster
    <2> QED BY <2>1, <2>4, <2>5
<1>4. CASE Loader
    <2>1. mount_ok
        BY <1>4 DEF Loader, Stages, OnVolume
    <2>2. DirStart(fs) \in Place
        BY <2>1, DirStartTyped DEF FsTrue
    <2>3. dir' = DirStart(fs)
        BY <1>4 DEF Loader, Goto, Fail
    <2> QED BY <2>2, <2>3
<1>5. CASE ReadCommand \/ ReadBlock \/ ReadTimeout \/ ReadTorn \/ Tick
             \/ Insert \/ Remove \/ UNCHANGED sdVars
    <2>1. stage' = stage /\ dir' = dir
        BY <1>5 DEF ReadCommand, ReadBlock, ReadTimeout, ReadTorn, Arrives,
            Tick, Insert, Remove, Fail, sdVars
    <2> QED BY <2>1 DEF DirTyped
<1>6. CASE Initializing \/ hazard3_sd_boot
    BY <1>6, Unmounted DEF Cached
<1>7. CASE StartMount \/ Read \/ Seek \/ Copy \/ Launch \/ print_status
             \/ List \/ ListNext
    BY <1>7 DEF StartMount, Read, Seek, Copy, Launch, print_status, List,
        ListNext, DirNext, DirCluster, Goto, Fail
<1> QED BY <1>1, <1>2, <1>3, <1>4, <1>5, <1>6, <1>7, SdCases DEF OffCard

\* How much of a sector is copied.
LEMMA ChunkTyped ==
    ASSUME NEW pos0 \in Nat, NEW want0 \in Nat
    PROVE  LET within == pos0 % SectorLen
               n == Min2(SectorLen - within, want0)
           IN  /\ within \in Nat /\ n \in Nat /\ want0 - n \in Nat
               /\ within + n <= SectorLen
<1> DEFINE within == pos0 % SectorLen
<1>1. SectorLen \in Nat \ {0}
    BY SdAssumption
<1>2. within \in 0 .. (SectorLen - 1)
    BY <1>1, DivFacts
<1> HIDE DEF within
<1>3. Min2(SectorLen - within, want0) = IF SectorLen - within < want0
                                        THEN SectorLen - within ELSE want0
    BY DEF Min2
<1>4. /\ within \in Nat /\ Min2(SectorLen - within, want0) \in Nat
      /\ want0 - Min2(SectorLen - within, want0) \in Nat
      /\ within + Min2(SectorLen - within, want0) <= SectorLen
    BY <1>1, <1>2, <1>3
<1> QED BY <1>4 DEF within

\* The bytes that one step of hazard3_fat_read appends.
Chunk == Min2(SectorLen - (file.pos % SectorLen), want)

Piece == SubSeq(SectorBytes(Sector), (file.pos % SectorLen) + 1,
                (file.pos % SectorLen) + Chunk)

LEMMA CopyPiece ==
    ASSUME Copy, FileTyped, Stages, CacheTrue
    PROVE  /\ mount_ok /\ Chunk \in Nat /\ want - Chunk \in Nat
           /\ (file.pos % SectorLen) \in Nat
           /\ (file.pos % SectorLen) + Chunk <= SectorLen
           /\ SectorBytes(Sector) \in Seq(Int)
           /\ Piece \in Seq(Int) /\ Len(Piece) = Chunk
           /\ \A i \in 1 .. Chunk :
                  Piece[i] = SectorBytes(Sector)[(file.pos % SectorLen) + i]
           /\ out' = out \o Piece
           /\ file' = [file EXCEPT !.pos = @ + Chunk]
           /\ want' = want - Chunk
<1>1. mount_ok /\ Cached /\ Hit
    BY DEF Copy, Stages, OnVolume, Uses, Cached
<1>2. file.pos \in Nat /\ want \in Nat
    BY <1>1 DEF FileTyped
<1>3. IsSector(Sector)
    BY <1>1, SectorTrue
<1>4. SectorBytes(Sector) \in Seq(Int) /\ Len(SectorBytes(Sector)) = SectorLen
    BY <1>3, BytesTyped
<1>5. /\ Chunk \in Nat /\ want - Chunk \in Nat
      /\ (file.pos % SectorLen) \in Nat
      /\ (file.pos % SectorLen) + Chunk <= SectorLen
    BY <1>2, ChunkTyped DEF Chunk
<1>6. /\ Piece \in Seq(Int) /\ Len(Piece) = Chunk
      /\ \A i \in 1 .. Chunk :
             Piece[i] = SectorBytes(Sector)[(file.pos % SectorLen) + i]
    <2> DEFINE w == file.pos % SectorLen
               b == SectorBytes(Sector)
               n == Chunk
    <2>1. /\ b \in Seq(Int) /\ w \in Nat /\ n \in Nat /\ w + n <= Len(b)
        BY <1>4, <1>5
    <2>2. Piece = SubSeq(b, w + 1, w + n)
        BY DEF Piece
    <2> HIDE DEF w, b, n
    <2>3. /\ Piece \in Seq(Int) /\ Len(Piece) = n
          /\ \A i \in 1 .. n : Piece[i] = b[w + i]
        BY <2>1, <2>2, SubSeqAt
    <2> QED BY <2>3 DEF w, b, n
<1>7. /\ out' = out \o Piece
      /\ file' = [file EXCEPT !.pos = @ + Chunk]
      /\ want' = want - Chunk
    BY DEF Copy, Piece, Chunk
<1> QED BY <1>1, <1>4, <1>5, <1>6, <1>7

\* A file that is found starts at its entry's cluster, and nothing of it has
\* been read.
LEMMA OpenFile ==
    ASSUME Open, Stages, CacheTrue, FileTyped
    PROVE  \/ UNCHANGED <<file, want, out>> /\ stage' # "read"
           \/ \E e \in DirEntry :
                 /\ file' = [first |-> e.cluster, cur |-> e.cluster, idx |-> 0,
                             size |-> e.size, pos |-> 0]
                 /\ out' = <<>>
                 /\ want' \in {want, HeaderLen, e.size}
                 /\ stage' = "read" =>
                       /\ e.size > 0 => e.cluster >= 2
                       /\ want' >= 1
                 /\ stage' \in {"read", "prompt"}
<1>1. Cached /\ Hit
    BY DEF Open, Cached, Uses
<1>2. IsSector(Sector)
    BY <1>1, SectorTrue
<1> DEFINE live == Live(Entries(Sector))
<1>3. live \in Seq(DirEntry)
    BY <1>2, EntriesTyped, LiveTyped
<1>4. CASE name \in Names(live)
    <2> DEFINE e == Entry(live, name)
    <2>1. e \in DirEntry
        <3> HIDE DEF live
        <3> QED BY <1>3, <1>4, EntryTyped
    <2>2. Opened(e)
        BY <1>4 DEF Open
    <2> HIDE DEF e
    <2>3. e.cluster \in Nat /\ e.size \in Nat
        BY <2>1 DEF DirEntry
    <2>4. /\ file' = [first |-> e.cluster, cur |-> e.cluster, idx |-> 0,
                      size |-> e.size, pos |-> 0]
          /\ out' = <<>>
          /\ want' \in {want, HeaderLen, e.size}
          /\ stage' \in {"read", "prompt"}
        BY <2>2 DEF Opened, Goto, Fail
    <2>5. stage' = "read" => /\ ~(e.size > 0 /\ e.cluster < 2)
                             /\ name = "IMG" => want' = HeaderLen
                             /\ name = "WAD" => /\ want' = e.size
                                                /\ e.size \in 1 .. MaxWad
        BY <2>2 DEF Opened, Goto, Fail
    <2>6. HeaderLen >= 1 /\ MaxWad \in Nat
        BY SdAssumption
    <2>7. stage' = "read" => /\ e.size > 0 => e.cluster >= 2
                             /\ want' >= 1
        BY <2>3, <2>5, <2>6 DEF FileTyped
    <2> QED BY <2>1, <2>4, <2>7
<1>5. CASE name \notin Names(live)
    BY <1>5 DEF Open, DirNext, Goto, Fail
<1> QED BY <1>4, <1>5

\* The next cluster that seek_current_cluster finds.
LEMMA SeekNext ==
    ASSUME Seek, Stages, FsTrue, CacheTrue, FileTyped
    PROVE  /\ mount_ok /\ UNCHANGED <<want, out, name>>
           /\ \/ file' = file /\ stage' = "prompt"
              \/ \E c \in Nat \ {0} :
                    /\ c = NextOf(Sector, fs.type, file.cur)
                    /\ file' = [file EXCEPT !.cur = c, !.idx = @ + 1]
                    /\ stage' = "read"
<1>1. mount_ok /\ Cached /\ Hit
    BY DEF Seek, Stages, OnVolume, Uses, Cached
<1>2. IsSector(Sector) /\ fs.type \in {16, 32} /\ file.cur \in Nat
    BY <1>1, SectorTrue DEF FsTrue, FsTyped, FileTyped
<1>3. NextOf(Sector, fs.type, file.cur) \in Nat
    BY <1>2, NextTyped
<1>4. UNCHANGED <<want, out, name>>
    BY DEF Seek
<1>5. \/ file' = file /\ stage' = "prompt"
      \/ /\ NextOf(Sector, fs.type, file.cur) # 0
         /\ file' = [file EXCEPT !.cur = NextOf(Sector, fs.type, file.cur),
                                 !.idx = @ + 1]
         /\ stage' = "read"
    BY DEF Seek, Goto, Fail
<1> QED BY <1>1, <1>3, <1>4, <1>5

\* The steps that leave the file as it is.
FileKept ==
    \/ ReadCommand \/ ReadBlock \/ ReadTimeout \/ ReadTorn
    \/ OpenNext \/ Read \/ Launch \/ print_status \/ List \/ ListNext
    \/ Tick \/ Insert \/ Remove \/ UNCHANGED sdVars

LEMMA FileKeeps ==
    ASSUME FileKept PROVE UNCHANGED <<file, want, out, name>>
<1>1. CASE ReadCommand \/ ReadBlock \/ ReadTimeout \/ ReadTorn \/ Tick
             \/ Insert \/ Remove \/ UNCHANGED sdVars
    BY <1>1 DEF ReadCommand, ReadBlock, ReadTimeout, ReadTorn, Arrives, Tick,
        Insert, Remove, sdVars, fileVars
<1>2. CASE OpenNext \/ Read \/ Launch \/ print_status \/ List \/ ListNext
    BY <1>2 DEF OpenNext, Read, Launch, print_status, List, ListNext,
        fileVars
<1> QED BY <1>1, <1>2 DEF FileKept

LEMMA FileCases ==
    Staying => FileKept \/ Open \/ Seek \/ Copy \/ Loader
BY DEF Staying, FileKept

LEMMA LoaderKeeps ==
    ASSUME Loader, Stages, FileTyped
    PROVE  /\ mount_ok /\ UNCHANGED <<file, out>>
           /\ want' \in Nat /\ name' \in {"IMG", "WAD"}
           /\ stage' \in {"prompt", "read", "open", "launch"}
<1>1. mount_ok
    BY DEF Loader, Stages, OnVolume
<1>2. /\ UNCHANGED <<file, out>>
      /\ want' = want \/ want' \in Payloads
      /\ name' = name \/ name' = "WAD"
      /\ stage' \in {"prompt", "read", "open", "launch"}
    BY DEF Loader, Goto, Fail
<1> QED BY <1>1, <1>2, SdAssumption DEF FileTyped

LEMMA FileStep ==
    ASSUME FsTrue, FileTyped, Stages, CacheTrue, [SdNext]_sdVars
    PROVE  FileTyped'
<1> DEFINE File == [first : Nat, cur : Nat, idx : Nat, size : Nat, pos : Nat]
<1>1. CASE Initializing \/ hazard3_sd_boot
    <2>1. name' = name
        BY <1>1 DEF Initializing, Cmd0, Cmd8, Cmd55, Acmd41, Cmd58, Cmd16,
            Command, hazard3_sd_boot, fileVars
    <2> QED BY <1>1, <2>1, Unmounted DEF FileTyped
<1>2. CASE StartMount
    <2>1. /\ file' = NoFile /\ want' = 0 /\ out' = <<>> /\ name' = name
        BY <1>2 DEF StartMount
    <2>2. NoFile \in File /\ NoFile.pos = 0
        BY DEF NoFile
    <2>3. out' \in Seq(Int) /\ Len(out') = 0
        BY <2>1
    <2> QED BY <2>1, <2>2, <2>3 DEF FileTyped
<1>3. CASE Mount \/ MountPartition
    <2>1. stage \in {"mount", "partition"} /\ UNCHANGED <<file, want, out>>
        BY <1>3, InMountCached
    <2>2. ~mount_ok
        BY <2>1 DEF Stages, Mounts
    <2>3. name' = name \/ name' = "IMG"
        BY <1>3 DEF Mount, MountPartition, Mounted
    <2> QED BY <2>1, <2>2, <2>3 DEF FileTyped
<1>4. CASE Staying
    <2>1. /\ UNCHANGED mount_ok
          /\ stage' = stage \/ stage' \notin Mounts
        BY <1>4, StayingKeeps
    <2>2. mount_ok' \/ stage' \in {"mount", "partition"} =>
              mount_ok \/ stage \in {"mount", "partition"}
        BY <2>1 DEF Mounts
    <2>3. CASE FileKept
        BY <2>1, <2>2, <2>3, FileKeeps DEF FileTyped
    <2>4. CASE Open
        <3>1. mount_ok /\ name' = name
            BY <2>4 DEF Open, Stages, OnVolume
        <3>2. CASE UNCHANGED <<file, want, out>>
            BY <2>1, <3>1, <3>2 DEF FileTyped
        <3>3. ASSUME NEW e \in DirEntry,
                     file' = [first |-> e.cluster, cur |-> e.cluster,
                              idx |-> 0, size |-> e.size, pos |-> 0],
                     out' = <<>>, want' \in {want, HeaderLen, e.size}
              PROVE  FileTyped'
            <4>1. e.cluster \in Nat /\ e.size \in Nat /\ HeaderLen \in Nat
                BY SdAssumption DEF DirEntry
            <4>2. file' \in File /\ file'.pos = 0
                BY <3>3, <4>1
            <4>3. out' \in Seq(Int) /\ Len(out') = 0
                BY <3>3
            <4>4. want' \in Nat
                BY <3>1, <3>3, <4>1 DEF FileTyped
            <4> QED BY <2>1, <3>1, <4>2, <4>3, <4>4 DEF FileTyped
        <3> QED BY <2>4, <3>2, <3>3, OpenFile
    <2>5. CASE Seek
        <3>1. mount_ok /\ UNCHANGED <<want, out, name>>
            BY <2>5, SeekNext
        <3>2. file \in File
            BY <3>1 DEF FileTyped
        <3>3. file' \in File /\ file'.pos = file.pos
            <4>1. CASE file' = file
                BY <3>2, <4>1
            <4>2. ASSUME NEW c \in Nat,
                         file' = [file EXCEPT !.cur = c, !.idx = @ + 1]
                  PROVE  file' \in File /\ file'.pos = file.pos
                <5>1. file' = [first |-> file.first, cur |-> c,
                               idx |-> file.idx + 1, size |-> file.size,
                               pos |-> file.pos]
                    BY <3>2, <4>2
                <5>2. /\ file.first \in Nat /\ file.idx + 1 \in Nat
                      /\ file.size \in Nat /\ file.pos \in Nat
                    BY <3>2
                <5> QED BY <4>2, <5>1, <5>2
            <4> QED BY <2>5, <4>1, <4>2, SeekNext
        <3> QED BY <2>1, <3>1, <3>3 DEF FileTyped
    <2>6. CASE Copy
        <3>1. /\ mount_ok /\ Chunk \in Nat /\ want - Chunk \in Nat
              /\ Piece \in Seq(Int) /\ Len(Piece) = Chunk
              /\ out' = out \o Piece
              /\ file' = [file EXCEPT !.pos = @ + Chunk]
              /\ want' = want - Chunk
            BY <2>6, CopyPiece
        <3>2. file \in File /\ out \in Seq(Int) /\ Len(out) = file.pos
            BY <3>1 DEF FileTyped
        <3>3. out' \in Seq(Int) /\ Len(out') = Len(out) + Chunk
            BY <3>1, <3>2, ConcatProperties
        <3>4. file' \in File /\ file'.pos = file.pos + Chunk
            <4>1. file' = [first |-> file.first, cur |-> file.cur,
                           idx |-> file.idx, size |-> file.size,
                           pos |-> file.pos + Chunk]
                BY <3>1, <3>2
            <4>2. /\ file.first \in Nat /\ file.cur \in Nat
                  /\ file.idx \in Nat /\ file.size \in Nat
                  /\ file.pos + Chunk \in Nat
                BY <3>1, <3>2
            <4> QED BY <4>1, <4>2
        <3>5. name' = name
            BY <2>6 DEF Copy
        <3> QED BY <2>1, <3>1, <3>2, <3>3, <3>4, <3>5 DEF FileTyped
    <2>7. CASE Loader
        BY <2>1, <2>7, LoaderKeeps DEF FileTyped
    <2> QED BY <1>4, <2>3, <2>4, <2>5, <2>6, <2>7, FileCases
<1> QED BY <1>1, <1>2, <1>3, <1>4, StayingCases

\* A file that was just opened, or a volume that was just mounted, is at the
\* beginning of its chain.
LEMMA AtStart ==
    ASSUME file'.cur = file'.first, file'.idx = 0
    PROVE  file'.cur = Chain(Seen', fs', file'.first)[file'.idx]
<1>1. \A b, f, s : Chain(b, f, s)[0] = s
    BY ChainRecursion
<1> QED BY <1>1

LEMMA NothingRead ==
    ASSUME out' = <<>> PROVE Content'
<1>1. 1 .. Len(out') = {}
    OBVIOUS
<1> QED BY <1>1 DEF Content, IsBeginning

LEMMA AtPlaceStep ==
    ASSUME FsTrue, FileTyped, Stages, CacheTrue, AtPlace, [SdNext]_sdVars
    PROVE  AtPlace'
<1>1. CASE Initializing \/ hazard3_sd_boot
    BY <1>1, Unmounted DEF AtPlace
<1>2. CASE StartMount
    BY <1>2 DEF StartMount, Stages, Mounts, AtPlace
<1>3. CASE Mount \/ MountPartition
    <2>1. stage \in {"mount", "partition"} /\ UNCHANGED <<file, want, out>>
        BY <1>3, InMountCached
    <2>2. file' = NoFile
        BY <2>1 DEF FileTyped, Stages, Mounts
    <2>3. file'.cur = file'.first /\ file'.idx = 0
        BY <2>2 DEF NoFile
    <2>4. stage' \notin {"seek", "copy", "loader", "read"}
        BY <1>3 DEF Mount, MountPartition, Mounted, Goto, Fail
    <2> QED BY <2>3, <2>4, AtStart DEF AtPlace
<1>4. CASE Staying
    <2>1. /\ UNCHANGED <<fs, mount_ok, mounted>> /\ Seen' = Seen
        BY <1>4, StayingKeeps, SameVolume
    <2> SUFFICES ASSUME mount_ok, mount_ok' PROVE AtPlace'
        BY <2>1 DEF AtPlace
    <2>2. CASE FileKept /\ ~Read
        <3>1. UNCHANGED <<file, want>>
            BY <2>2, FileKeeps
        <3>2. stage' = stage \/ stage' \notin {"seek", "copy", "loader", "read"}
            BY <2>2 DEF FileKept, ReadCommand, ReadBlock, ReadTimeout,
                ReadTorn, Arrives, OpenNext, Launch, print_status, List,
                ListNext, Tick, Insert, Remove, DirNext, DirCluster, Goto,
                Fail, sdVars
        <3> QED BY <2>1, <3>1, <3>2 DEF AtPlace
    <2>3. CASE Read
        <3>1. UNCHANGED <<file, want>>
            BY <2>3, FileKeeps DEF FileKept
        <3>2. /\ stage = "read"
              /\ \/ stage' = "prompt"
                 \/ /\ ~(want > file.size - file.pos)
                    /\ stage' \in {"copy", "seek"}
                    /\ stage' = "copy" =>
                           file.pos \div ClusterLen(fs) = file.idx
            BY <2>3 DEF Read, Goto, Fail
        <3>3. file.size \in Nat /\ file.pos \in Nat /\ want \in Nat
            BY DEF FileTyped
        <3>4. ~(want > file.size - file.pos) => file.cur # 0
            BY <3>2, <3>3 DEF AtPlace
        <3>5. ClusterLen(fs)' = ClusterLen(fs)
            BY <2>1 DEF ClusterLen
        <3> QED BY <2>1, <3>1, <3>2, <3>4, <3>5 DEF AtPlace
    <2>4. CASE Open
        <3>1. CASE UNCHANGED <<file, want, out>> /\ stage' # "read"
            <4>1. stage' \notin {"seek", "copy", "loader"}
                BY <2>4 DEF Open, Opened, DirNext, Goto, Fail
            <4> QED BY <2>1, <3>1, <4>1 DEF AtPlace
        <3>2. ASSUME NEW e \in DirEntry,
                     file' = [first |-> e.cluster, cur |-> e.cluster,
                              idx |-> 0, size |-> e.size, pos |-> 0],
                     want' \in {want, HeaderLen, e.size},
                     stage' = "read" => /\ e.size > 0 => e.cluster >= 2
                                        /\ want' >= 1,
                     stage' \in {"read", "prompt"}
              PROVE  AtPlace'
            <4>1. /\ file'.cur = e.cluster /\ file'.first = e.cluster
                  /\ file'.idx = 0 /\ file'.size = e.size /\ file'.pos = 0
                BY <3>2
            <4>2. e.cluster \in Nat /\ e.size \in Nat
                BY DEF DirEntry
            <4>3. want' \in Nat
                BY <3>2, <4>2, SdAssumption DEF FileTyped
            <4>4. stage' = "read" /\ file'.cur = 0 =>
                      file'.size - file'.pos < want'
                BY <3>2, <4>1, <4>2, <4>3
            <4> QED BY <3>2, <4>1, <4>4, AtStart DEF AtPlace
        <3> QED BY <2>4, <3>1, <3>2, OpenFile
    <2>5. CASE Seek
        <3>1. CASE file' = file /\ stage' = "prompt"
            BY <2>1, <3>1 DEF AtPlace
        <3>2. ASSUME NEW c \in Nat \ {0},
                     c = NextOf(Sector, fs.type, file.cur),
                     file' = [file EXCEPT !.cur = c, !.idx = @ + 1],
                     stage' = "read"
              PROVE  AtPlace'
            <4>1. Cached /\ Hit /\ Lba = fat_lba(fs, file.cur)
                      /\ file.cur # 0
                BY <2>5 DEF Seek, Uses, Cached, Lba, AtPlace
            <4>2. Sector.kind # "blank"
                BY <3>2 DEF NextOf
            <4>3. Lba \in DOMAIN Seen /\ Sector = Seen[Lba]
                BY <4>1, <4>2, SectorTrue, BlankIsSector
            <4>a. FatAt(fs, file.cur) \in Int
                      /\ Lba = FatAt(fs, file.cur) % WordModulus
                BY <4>1, FatAround DEF FsTrue, FileTyped
            <4>b. /\ FatAt(fs, file.cur) \in DOMAIN Seen
                  /\ Sector = Seen[FatAt(fs, file.cur)]
                BY <4>3, <4>a, SeenAround
            <4>4. c = After(Seen, fs, file.cur)
                BY <3>2, <4>1, <4>b DEF After
            <4>5. /\ file.cur = Chain(Seen, fs, file.first)[file.idx]
                  /\ file.idx \in Nat
                BY DEF AtPlace, FileTyped
            <4>6. Chain(Seen, fs, file.first)[file.idx + 1]
                    = After(Seen, fs, Chain(Seen, fs, file.first)[file.idx])
                BY <4>5, ChainRecursion
            <4>7. c = Chain(Seen, fs, file.first)[file.idx + 1]
                BY <4>4, <4>5, <4>6
            <4>8. /\ file'.cur = c /\ file'.idx = file.idx + 1
                  /\ file'.first = file.first
                BY <3>2 DEF FileTyped
            <4>9. file'.cur = Chain(Seen', fs', file'.first)[file'.idx]
                BY <2>1, <4>7, <4>8
            <4> QED BY <3>2, <4>8, <4>9 DEF AtPlace
        <3> QED BY <2>5, <3>1, <3>2, SeekNext
    <2>6. CASE Copy
        <3>1. file' = [file EXCEPT !.pos = @ + Chunk]
            BY <2>6, CopyPiece
        <3>2. /\ file'.cur = file.cur /\ file'.idx = file.idx
              /\ file'.first = file.first
            BY <3>1 DEF FileTyped
        <3>3. stage = "copy" /\ stage' \in {"read", "loader"}
            BY <2>6 DEF Copy, Goto
        <3>4. /\ file.cur = Chain(Seen, fs, file.first)[file.idx]
              /\ file.cur # 0
            BY <3>3 DEF AtPlace
        <3> QED BY <2>1, <3>2, <3>3, <3>4 DEF AtPlace
    <2>7. CASE Loader
        <3>1. file' = file /\ stage' \in {"prompt", "read", "open", "launch"}
            BY <2>7, LoaderKeeps
        <3>2. /\ file.cur = Chain(Seen, fs, file.first)[file.idx]
              /\ file.cur # 0
            BY <2>7 DEF Loader, AtPlace
        <3> QED BY <2>1, <3>1, <3>2 DEF AtPlace
    <2> QED BY <1>4, <2>2, <2>3, <2>4, <2>5, <2>6, <2>7, FileCases
<1> QED BY <1>1, <1>2, <1>3, <1>4, StayingCases

LEMMA ContentStep ==
    ASSUME FsTrue, FileTyped, Stages, CacheTrue, AtPlace, Content,
           [SdNext]_sdVars
    PROVE  Content'
<1>1. CASE Initializing \/ hazard3_sd_boot
    BY <1>1, Unmounted DEF Content
<1>2. CASE StartMount
    BY <1>2, NothingRead DEF StartMount
<1>3. CASE Mount \/ MountPartition
    <2>1. stage \in {"mount", "partition"} /\ out' = out
        BY <1>3, InMountCached
    <2>2. out' = <<>>
        BY <2>1 DEF FileTyped, Stages, Mounts
    <2> QED BY <2>2, NothingRead
<1>4. CASE Staying
    <2>1. UNCHANGED <<fs, mount_ok, mounted>> /\ Seen' = Seen
        BY <1>4, StayingKeeps, SameVolume
    <2>2. torn => torn'
        BY <1>4 DEF Staying, ReadCommand, ReadBlock, ReadTimeout, ReadTorn,
            Open, OpenNext, Read, Seek, Copy, Loader, Launch, print_status,
            List, ListNext, Tick, Insert, Remove, Uses, sdVars, history
    <2>3. CASE FileKept \/ Loader
        <3>1. UNCHANGED <<file, out>>
            BY <2>3, FileKeeps, LoaderKeeps
        <3> QED BY <2>1, <2>2, <3>1 DEF Content
    <2>4. CASE Open
        <3>1. UNCHANGED <<file, want, out>> \/ out' = <<>>
            BY <2>4, OpenFile
        <3> QED BY <2>1, <2>2, <3>1, NothingRead DEF Content
    <2>5. CASE Seek
        <3>1. out' = out /\ file'.first = file.first
            BY <2>5, SeekNext DEF FileTyped
        <3> QED BY <2>1, <2>2, <3>1 DEF Content
    <2>6. CASE Copy
        <3> SUFFICES ASSUME ~torn
                     PROVE  IsBeginning(out', Seen', fs', file'.first)
            BY <2>2 DEF Content
        <3>1. /\ mount_ok
              /\ (file.pos % SectorLen) + Chunk <= SectorLen
              /\ (file.pos % SectorLen) \in Nat /\ Chunk \in Nat
              /\ Piece \in Seq(Int) /\ Len(Piece) = Chunk
              /\ \A i \in 1 .. Chunk :
                     Piece[i] = SectorBytes(Sector)[(file.pos % SectorLen) + i]
              /\ out' = out \o Piece
              /\ file' = [file EXCEPT !.pos = @ + Chunk]
            BY <2>6, CopyPiece
        <3>2. file'.first = file.first
            BY <3>1 DEF FileTyped
        <3>3. /\ stage = "copy" /\ Cached /\ Hit
              /\ Lba = SectorOf(fs, file.cur, file.pos)
            BY <2>6 DEF Copy, Uses, Cached, Lba
        <3>4. Lba \in DOMAIN Seen /\ Sector = Seen[Lba]
            BY <3>3, SectorTrue
        <3>5. /\ out \in Seq(Int) /\ Len(out) = file.pos
              /\ fs.spc \in Nat \ {0}
            BY <3>1 DEF FileTyped, FsTrue, FsTyped
        <3>6. /\ file.cur = Chain(Seen, fs, file.first)
                                 [file.pos \div ClusterLen(fs)]
              /\ file.cur # 0
            BY <3>1, <3>3 DEF AtPlace
        <3>7. Continues(Piece, out, Seen, fs, file.first)
            <4> DEFINE w == file.pos % SectorLen
            <4>1. Chunk <= SectorLen - w
                <5>1. SectorLen \in Nat /\ w + Chunk <= SectorLen
                          /\ w \in Nat /\ Chunk \in Nat
                    BY <3>1, SdAssumption
                <5> HIDE DEF w
                <5> QED BY <5>1
            <4> DEFINE at == SectorAt(fs, file.cur, file.pos)
            <4>a. at \in Int /\ Lba = at % WordModulus
                BY <3>1, <3>3, SectorAround DEF FsTrue, FileTyped
            <4>2. at \in DOMAIN Seen /\ Sector = Seen[at]
                BY <3>4, <4>a, SeenAround
            <4>3. \A i \in 1 .. Len(Piece) :
                      Piece[i] = SectorBytes(Seen[at])[w + i]
                BY <3>1, <4>2
            <4> QED BY <3>1, <3>5, <3>6, <4>1, <4>2, <4>3 DEF Continues
        <3>8. IsBeginning(out, Seen, fs, file.first)
            BY <3>1 DEF Content
        <3>9. IsBeginning(out \o Piece, Seen, fs, file.first)
            BY <3>1, <3>5, <3>7, <3>8, BeginningGrows
        <3> QED BY <2>1, <3>1, <3>2, <3>9
    <2> QED BY <1>4, <2>3, <2>4, <2>5, <2>6, FileCases
<1> QED BY <1>1, <1>2, <1>3, <1>4, StayingCases

LEMMA InitSdInv == SdInit => SdInv
<1> SUFFICES ASSUME SdInit PROVE SdInv
    OBVIOUS
<1>1. ~mount_ok /\ stage = "prompt" /\ io = "idle" /\ name = "IMG"
    BY DEF SdInit
<1>2. Stages /\ FsTrue /\ CacheTrue /\ BlockTrue /\ DirTyped /\ FileTyped
         /\ AtPlace /\ Content
    BY <1>1 DEF Stages, Starting, Mounts, OnVolume, FsTrue, CacheTrue,
        BlockTrue, DirTyped, FileTyped, AtPlace, Content
<1>3. CardTrue
    BY SdAssumption DEF SdInit, CardTrue
<1> QED BY <1>2, <1>3, InitCardInv DEF SdInv

LEMMA SdInvStep ==
    ASSUME SdInv, [SdNext]_sdVars PROVE SdInv'
<1>1. /\ CardInv /\ Stages /\ CardTrue /\ FsTrue /\ CacheTrue
      /\ BlockTrue /\ DirTyped /\ FileTyped /\ AtPlace /\ Content
    BY DEF SdInv
<1>2. CardInv'
    BY <1>1, CardInvStep
<1>3. Stages' /\ CardTrue'
    BY <1>1, StagesStep, CardStep
<1>4. FsTrue' /\ CacheTrue'
    BY <1>1, FsStep, CacheStep
<1>5. BlockTrue'
    BY <1>1, BlockTrueStep
<1>6. DirTyped'
    BY <1>1, <1>4, DirStep
<1>7. FileTyped'
    BY <1>1, FileStep
<1>8. AtPlace'
    BY <1>1, AtPlaceStep
<1>9. Content'
    BY <1>1, ContentStep
<1> QED BY <1>2, <1>3, <1>4, <1>5, <1>6, <1>7, <1>8, <1>9 DEF SdInv

----------------------------------------------------------------------------
(***************************************************************************)
(* On a sound volume nothing goes round: what the code sees is what is     *)
(* there.                                                                  *)
(***************************************************************************)
\* A byte address names the block it is divided back to.
LEMMA BlockOfByte ==
    ASSUME NEW a \in Int, NEW d \in Nat \ {0} PROVE (a * d) \div d = a
<1> DEFINE b == a * d
           q == b \div d
           r == b % d
<1>1. b \in Int
    OBVIOUS
<1>2. q \in Int /\ r \in 0 .. (d - 1) /\ b = d * q + r
    <2> HIDE DEF b
    <2> QED BY <1>1
<1>3. d * q + r = d * a + 0
    <2>1. b = d * a
        OBVIOUS
    <2> HIDE DEF b, q, r
    <2> QED BY <1>2, <2>1
<1>4. 0 \in 0 .. (d - 1)
    OBVIOUS
<1> HIDE DEF b, q, r
<1>5. q = a
    BY <1>2, <1>3, <1>4, DivUnique
<1> QED BY <1>5 DEF q, b

LEMMA ReachTyped == Reach \in Nat /\ Reach <= WordModulus
<1>1. WordModulus \in Nat /\ SectorLen \in Nat \ {0}
    BY SdAssumption
<1>2. /\ WordModulus \div SectorLen \in Nat
      /\ SectorLen * (WordModulus \div SectorLen) <= WordModulus
    BY <1>1, DivParts
<1> DEFINE q == WordModulus \div SectorLen
<1>3. q <= WordModulus
    <2>1. q \in Nat /\ SectorLen * q <= WordModulus
        BY <1>2
    <2> HIDE DEF q
    <2>2. q <= SectorLen * q /\ SectorLen * q \in Nat
        BY <1>1, <2>1
    <2> QED BY <1>1, <2>1, <2>2
<1> QED BY <1>1, <1>2, <1>3 DEF Reach

\* A card can be asked for the blocks within its reach.
LEMMA WithinReach ==
    ASSUME NEW l \in 0 .. (Reach - 1)
    PROVE  /\ l \in DOMAIN Seen <=> l \in DOMAIN Volume
           /\ l \in DOMAIN Seen => Seen[l] = Volume[l]
<1>1. l \in Nat /\ l < Reach /\ Reach \in Nat /\ Reach <= WordModulus
    BY ReachTyped
<1>2. WordModulus \in Nat \ {0} /\ SectorLen \in Nat \ {0}
    BY SdAssumption
<1>3. l \in Word /\ l % WordModulus = l
    BY <1>1, <1>2, WordOf DEF Word
<1>4. Where(l) = l
    <2>1. CASE Disk[mounted].hc
        BY <1>3, <2>1 DEF Where
    <2>2. CASE ~Disk[mounted].hc
        <3> DEFINE q == WordModulus \div SectorLen
                   b == l * SectorLen
        <3>1. Reach = q
            BY <2>2 DEF Reach
        <3>2. q \in Nat /\ SectorLen * q <= WordModulus
            <4>1. WordModulus \in Nat
                BY <1>2
            <4> QED BY <1>2, <4>1, DivParts
        <3>3. b \in Nat /\ b < WordModulus
            <4>1. l < q
                BY <1>1, <3>1
            <4> HIDE DEF q
            <4>2. l + 1 <= q
                BY <1>1, <3>2, <4>1
            <4>3. SectorLen * (l + 1) <= SectorLen * q
                BY <1>1, <1>2, <3>2, <4>2
            <4>4. SectorLen * (l + 1) = b + SectorLen
                BY <1>1, <1>2
            <4>5. b \in Nat
                BY <1>1, <1>2
            <4>6. SectorLen * q \in Nat
                BY <1>2, <3>2
            <4> HIDE DEF b
            <4> QED BY <1>2, <3>2, <4>3, <4>4, <4>5, <4>6
        <3>4. b % WordModulus = b
            <4> HIDE DEF b
            <4> QED BY <1>2, <3>3, WordOf DEF Word
        <3>5. b \div SectorLen = l
            BY <1>1, <1>2, BlockOfByte
        <3>6. Where(l) = (b % WordModulus) \div SectorLen
            BY <1>3, <2>2 DEF Where
        <3> QED BY <3>4, <3>5, <3>6
    <2> QED BY <2>1, <2>2
<1> QED BY <1>1, <1>4 DEF Seen

\* What there is to know of a sound volume.
LEMMA SoundFacts ==
    ASSUME Sound, mounted \in Cards
    PROVE  /\ BootSector.reserved \in Nat /\ BootSector.fatSectors \in Nat
           /\ BootSector.total \in Nat /\ BootSector.spc \in Nat
           /\ VolumeStart \in Nat /\ DataStart \in Nat
           /\ BootSector.reserved <= DataStart
           /\ BootSector.reserved + BootSector.fatSectors <= DataStart
           /\ DataStart < BootSector.total
           /\ VolumeStart + BootSector.total <= Reach
<1> DEFINE b == BootSector
<1>1. /\ 0 \in DOMAIN Volume /\ VolumeStart \in DOMAIN Volume
      /\ b.kind = "boot" /\ b = Volume[VolumeStart]
    BY DEF Sound, BootSector
<1>2. IsSector(b) /\ VolumeStart \in Nat
    BY <1>1, DiskAssumption DEF Volume
<1> HIDE DEF b
<1>3. /\ b.reserved \in Nat /\ b.fats \in Nat /\ b.fats >= 1
      /\ b.fatSectors \in Nat /\ b.rootSectors \in Nat
      /\ b.total \in Nat /\ b.spc \in Nat
    BY <1>1, <1>2, KindTyped
<1> DEFINE m == b.fats * b.fatSectors
<1>4. m \in Nat /\ b.fatSectors <= m
    BY <1>3
<1>5. DataStart = b.reserved + m + b.rootSectors
    BY DEF DataStart, b
<1> HIDE DEF m
<1>6. /\ DataStart \in Nat /\ b.reserved <= DataStart
      /\ b.reserved + b.fatSectors <= DataStart
    BY <1>3, <1>4, <1>5
<1> QED BY <1>2, <1>3, <1>6 DEF Sound, b

\* The reader has found the parts of the volume where they are.
LEMMA SameLayout ==
    ASSUME Sound, mounted \in Cards
    PROVE  /\ SeenFs.type = Layout.type /\ SeenFs.fat = Layout.fat
           /\ SeenFs.data = Layout.data /\ SeenFs.spc = Layout.spc
<1> DEFINE b == BootSector
           v == VolumeStart
<1>1. /\ b.reserved \in Nat /\ b.total \in Nat /\ v \in Nat /\ DataStart \in Nat
      /\ b.reserved <= DataStart /\ DataStart < b.total
      /\ v + b.total <= Reach /\ Reach \in Nat /\ Reach <= WordModulus
    BY SoundFacts, ReachTyped
<1>2. 0 \in DOMAIN Volume /\ v \in DOMAIN Volume
    BY DEF Sound
<1>3. 0 \in 0 .. (Reach - 1) /\ v \in 0 .. (Reach - 1)
    <2> HIDE DEF b, v
    <2> QED BY <1>1
<1>4. Seen[0] = Volume[0] /\ Seen[v] = b
    BY <1>2, <1>3, WithinReach DEF BootSector
<1>5. SeenFs = Geometry(b, v)
    BY <1>4 DEF SeenFs, VolumeStart
<1>6. FirstData(b) = DataStart
    <2>1. DataStart \in Word /\ DataStart \in Int
        <3> HIDE DEF b, v
        <3> QED BY <1>1, SdAssumption DEF Word
    <2>2. FirstData(b) = DataStart % WordModulus
        BY DEF FirstData, DataStart
    <2> QED BY <2>1, <2>2, WordOf
<1>7. /\ (v + b.reserved) % WordModulus = v + b.reserved
      /\ (v + DataStart) % WordModulus = v + DataStart
    <2> HIDE DEF b, v
    <2>1. /\ v + b.reserved \in Word /\ v + DataStart \in Word
          /\ v + b.reserved \in Int /\ v + DataStart \in Int
        BY <1>1, SdAssumption DEF Word
    <2> QED BY <2>1, WordOf
<1>8. /\ SeenFs.type = IF ClusterCount(b) < Fat32Clusters THEN 16 ELSE 32
      /\ SeenFs.fat = (v + b.reserved) % WordModulus
      /\ SeenFs.data = (v + FirstData(b)) % WordModulus
      /\ SeenFs.spc = b.spc
    BY <1>5 DEF Geometry
<1>9. ClusterCount(b) = (b.total - DataStart) \div b.spc
    BY <1>6 DEF ClusterCount
<1> QED BY <1>6, <1>7, <1>8, <1>9 DEF Layout

\* The entry of a cluster of the volume is on the volume.
LEMMA SameEntry ==
    ASSUME Sound, mounted \in Cards, Layout.spc # 0,
           NEW c \in Cluster(Layout)
    PROVE  After(Seen, SeenFs, c) = After(Volume, Layout, c)
<1> DEFINE b == BootSector
           f == Layout
           n == FatPerSector[f.type]
           q == c \div n
           p == (f.count + 1) \div n
           at == FatAt(f, c)
<1>1. /\ b.reserved \in Nat /\ b.fatSectors \in Nat /\ b.total \in Nat
      /\ b.spc \in Nat /\ VolumeStart \in Nat /\ DataStart \in Nat
      /\ b.reserved + b.fatSectors <= DataStart /\ DataStart < b.total
      /\ VolumeStart + b.total <= Reach /\ Reach \in Nat
    BY SoundFacts, ReachTyped
<1>2. /\ f.type \in {16, 32} /\ f.spc = b.spc /\ b.spc # 0
      /\ f.count = (b.total - DataStart) \div b.spc
      /\ f.fat = VolumeStart + b.reserved
    BY DEF Layout
<1>3. f.count \in Nat
    <2> DEFINE t == b.total - DataStart
               s == b.spc
    <2>1. t \in Nat /\ s \in Nat \ {0}
        BY <1>1, <1>2
    <2>2. f.count = t \div s
        BY <1>2
    <2> HIDE DEF t, s, f
    <2> QED BY <2>1, <2>2, DivFacts
<1>4. n \in Nat \ {0}
    BY <1>2, SdAssumption
<1>5. c \in Nat /\ f.count + 1 \in Nat /\ c <= f.count + 1
    BY <1>3 DEF Cluster
<1>6. q \in Nat /\ p \in Nat /\ q <= p /\ p < b.fatSectors
    <2>1. p < b.fatSectors
        BY DEF Sound
    <2> HIDE DEF n, f
    <2>2. q \in Nat /\ p \in Nat
        BY <1>4, <1>5, DivFacts
    <2>3. q <= p
        BY <1>4, <1>5, DivMonotone
    <2> QED BY <2>1, <2>2, <2>3
<1>7. at = f.fat + q
    BY DEF FatAt
<1>8. at \in 0 .. (Reach - 1)
    <2> HIDE DEF f, q, p, b, at
    <2> QED BY <1>1, <1>2, <1>6, <1>7
<1>9. FatAt(SeenFs, c) = at /\ SeenFs.type = f.type
    BY SameLayout DEF FatAt
<1>10. /\ at \in DOMAIN Seen <=> at \in DOMAIN Volume
       /\ at \in DOMAIN Seen => Seen[at] = Volume[at]
    BY <1>8, WithinReach
<1> QED BY <1>9, <1>10 DEF After

\* The reader follows the chain of the file, as long as it is one of clusters
\* of the volume.
LEMMA SameChain ==
    ASSUME Sound, mounted \in Cards, Layout.spc # 0, NEW start, NEW n \in Nat,
           \A k \in 0 .. (n - 1) :
               Chain(Volume, Layout, start)[k] \in Cluster(Layout)
    PROVE  Chain(Seen, SeenFs, start)[n] = Chain(Volume, Layout, start)[n]
<1> DEFINE c == Chain(Seen, SeenFs, start)
           d == Chain(Volume, Layout, start)
           S == {m \in Nat : (\A k \in 0 .. (m - 1) : d[k] \in Cluster(Layout))
                                 => c[m] = d[m]}
<1>1. /\ c[0] = start /\ d[0] = start
      /\ \A m \in Nat : c[m + 1] = After(Seen, SeenFs, c[m])
      /\ \A m \in Nat : d[m + 1] = After(Volume, Layout, d[m])
    BY ChainRecursion
<1> HIDE DEF c, d
<1>2. 0 \in S
    BY <1>1
<1>3. ASSUME NEW m \in S PROVE m + 1 \in S
    <2>1. m \in Nat /\ m + 1 \in Nat /\ (m + 1) - 1 = m
        OBVIOUS
    <2> SUFFICES ASSUME \A k \in 0 .. m : d[k] \in Cluster(Layout)
                 PROVE  c[m + 1] = d[m + 1]
        BY <2>1
    <2>2. d[m] \in Cluster(Layout)
        BY <2>1
    <2>3. c[m] = d[m]
        BY <2>1
    <2> QED BY <1>1, <2>1, <2>2, <2>3, SameEntry
<1>4. S = Nat
    <2>1. S \in SUBSET Nat
        OBVIOUS
    <2> HIDE DEF S
    <2> QED BY <1>2, <1>3, <2>1, SetInduction
<1>5. n \in S
    BY <1>4
<1>6. \A k \in 0 .. (n - 1) : d[k] \in Cluster(Layout)
    BY DEF d
<1> QED BY <1>5, <1>6 DEF c, d

\* A sector of a cluster of the volume is on the volume.
LEMMA SameData ==
    ASSUME Sound, mounted \in Cards, Layout.spc # 0,
           NEW c \in Cluster(Layout), NEW place \in Nat
    PROVE  /\ SectorAt(SeenFs, c, place) = SectorAt(Layout, c, place)
           /\ SectorAt(Layout, c, place) \in 0 .. (Reach - 1)
<1> DEFINE b == BootSector
           f == Layout
           s == b.spc
           t == b.total - DataStart
           m == f.count
           r == place % ClusterLen(f)
           q == r \div SectorLen
           at == SectorAt(f, c, place)
<1>1. /\ b.total \in Nat /\ s \in Nat /\ VolumeStart \in Nat
      /\ DataStart \in Nat /\ DataStart < b.total
      /\ VolumeStart + b.total <= Reach /\ Reach \in Nat
    BY SoundFacts, ReachTyped
<1>2. /\ f.spc = s /\ s # 0 /\ m = t \div s /\ f.data = VolumeStart + DataStart
    BY DEF Layout
<1>3. SectorLen \in Nat \ {0} /\ s \in Nat \ {0} /\ t \in Nat
    <2> HIDE DEF f, b
    <2> QED BY <1>1, <1>2, SdAssumption
<1>4. m \in Nat /\ s * m <= t
    <2>1. t \div s \in Nat /\ s * (t \div s) <= t
        <3> HIDE DEF t, s
        <3> QED BY <1>3, DivParts
    <2> QED BY <1>2, <2>1
<1>5. q \in 0 .. (s - 1)
    <2>1. ClusterLen(f) = s * SectorLen
        BY <1>2 DEF ClusterLen
    <2> DEFINE l == s * SectorLen
    <2>2. l \in Nat \ {0}
        <3> HIDE DEF s
        <3>1. l \in Nat /\ l >= s
            BY <1>3
        <3> QED BY <1>3, <3>1
    <2>3. r \in Nat /\ r < l
        <3>1. place % l \in 0 .. (l - 1)
            <4> HIDE DEF l
            <4> QED BY <2>2, DivFacts
        <3>2. r = place % l
            BY <2>1
        <3> HIDE DEF r, l
        <3> QED BY <2>2, <3>1, <3>2
    <2>4. q \in Nat /\ SectorLen * q <= r
        <3> HIDE DEF r
        <3> QED BY <1>3, <2>3, DivParts
    <2>5. ~(q >= s)
        <3> HIDE DEF q, r, s
        <3>1. q >= s => SectorLen * q >= SectorLen * s
            BY <1>3, <2>4
        <3>2. SectorLen * s = l
            BY <1>3
        <3>3. SectorLen * q \in Nat
            BY <1>3, <2>4
        <3> HIDE DEF l
        <3> QED BY <2>2, <2>3, <2>4, <3>1, <3>2, <3>3
    <2> HIDE DEF q, s
    <2> QED BY <1>3, <2>4, <2>5
<1>6. at = f.data + (c - 2) * s + q
    BY <1>2 DEF SectorAt
<1>7. c - 2 \in Nat /\ (c - 2) + 1 <= m
    <2>1. c \in 2 .. (m + 1)
        BY DEF Cluster
    <2> HIDE DEF m
    <2> QED BY <1>4, <2>1
<1>8. (c - 2) * s \in Nat /\ (c - 2) * s + q < t
    <2> DEFINE k == c - 2
    <2>1. k \in Nat /\ k + 1 <= m
        BY <1>7
    <2> HIDE DEF k, m, q, t, s
    <2>2. s * (k + 1) <= s * m
        BY <1>3, <1>4, <2>1
    <2>3. s * (k + 1) = k * s + s
        BY <1>3, <2>1
    <2>4. k * s \in Nat /\ s * m \in Nat
        BY <1>3, <1>4, <2>1
    <2> DEFINE u == k * s
               v == s * m
    <2> HIDE DEF u, v
    <2>5. u \in Nat /\ v \in Nat /\ u + s <= v /\ v <= t
        BY <1>4, <2>2, <2>3, <2>4 DEF u, v
    <2>6. u \in Nat /\ u + q < t
        BY <1>3, <1>5, <2>5
    <2> QED BY <2>6 DEF u, k
<1>9. at \in 0 .. (Reach - 1)
    <2> DEFINE u == (c - 2) * s
    <2>1. u \in Nat /\ u + q < t /\ at = f.data + u + q
        BY <1>6, <1>8
    <2> HIDE DEF u, q, f, at
    <2>2. u + q < b.total - DataStart
        BY <2>1
    <2> HIDE DEF t, b, s
    <2>3. q \in Nat
        BY <1>3, <1>5
    <2> QED BY <1>1, <1>2, <2>1, <2>2, <2>3
<1>10. SectorAt(SeenFs, c, place) = at
    BY SameLayout DEF SectorAt, ClusterLen
<1> QED BY <1>9, <1>10

\* The beginning of the file as the code sees it is that of the file.
LEMMA DeliveredTrue ==
    ASSUME mounted \in Cards, Sound, FsTyped(fs), fs = SeenFs,
           IsBeginning(out, Seen, fs, file.first), out \in Seq(Int),
           NEW i \in 1 .. Len(out)
    PROVE  LET c == Chain(Volume, Layout, file.first)
               n == (i - 1) \div ClusterLen(Layout)
           IN  (\A k \in 0 .. (n - 1) : c[k] \in Cluster(Layout)) =>
                   /\ c[n] # 0
                   /\ c[n] \in Cluster(Layout) =>
                          IsByte(out[i], i, Volume, Layout, file.first)
<1> DEFINE c == Chain(Volume, Layout, file.first)
           n == (i - 1) \div ClusterLen(Layout)
<1>1. Layout.spc = fs.spc /\ fs.spc \in Nat \ {0}
    BY SameLayout DEF FsTyped
<1>2. ClusterLen(fs) = ClusterLen(Layout)
    BY <1>1 DEF ClusterLen
<1>3. i - 1 \in Nat /\ ClusterLen(Layout) \in Nat \ {0}
    BY <1>2, <1>1, PlaceTyped
<1>4. n \in Nat
    <2> DEFINE l == ClusterLen(Layout)
               j == i - 1
    <2>1. l \in Nat \ {0} /\ j \in Nat
        BY <1>3
    <2> HIDE DEF l, j
    <2>2. j \div l \in Nat
        BY <2>1, DivFacts
    <2> QED BY <2>2 DEF l, j
<1> SUFFICES ASSUME \A k \in 0 .. (n - 1) : c[k] \in Cluster(Layout)
             PROVE  /\ c[n] # 0
                    /\ c[n] \in Cluster(Layout) =>
                           IsByte(out[i], i, Volume, Layout, file.first)
    OBVIOUS
<1>5. Chain(Seen, fs, file.first)[n] = c[n]
    <2> HIDE DEF n
    <2> QED BY <1>1, <1>4, SameChain
<1>6. LET at == SectorAt(fs, c[n], i - 1)
      IN  /\ c[n] # 0 /\ at \in DOMAIN Seen
          /\ out[i] = SectorBytes(Seen[at])[((i - 1) % SectorLen) + 1]
    BY <1>2, <1>5 DEF IsBeginning
<1>7. ASSUME c[n] \in Cluster(Layout)
      PROVE  IsByte(out[i], i, Volume, Layout, file.first)
    <2> DEFINE at == SectorAt(Layout, c[n], i - 1)
    <2>1. SectorAt(fs, c[n], i - 1) = at /\ at \in 0 .. (Reach - 1)
        <3> HIDE DEF c, n
        <3> QED BY <1>1, <1>3, <1>7, SameData
    <2>2. at \in DOMAIN Volume /\ Seen[at] = Volume[at]
        BY <1>6, <2>1, WithinReach
    <2> QED BY <1>6, <2>1, <2>2 DEF IsByte
<1> QED BY <1>6, <1>7

\* What the loaders are given is the file, byte by byte, as the card that was
\* initialized holds it, on every sound volume and up to the first entry of the
\* FAT that names no cluster of it (hazard3_fat_read, read_sector and its
\* cache, the sums of fat_ro.c and the byte address of sd_spi.c in 32 bits).
THEOREM DeliveredCorrect == SdSpec => []Delivered
<1>1. SdInv /\ [SdNext]_sdVars => SdInv'
    BY SdInvStep
<1>2. SdInv => Delivered
    <2> SUFFICES ASSUME SdInv, mount_ok, ~torn, Sound
                 PROVE  /\ Len(out) = file.pos
                        /\ \A i \in 1 .. Len(out) :
                               LET c == Chain(Volume, Layout, file.first)
                                   n == (i - 1) \div ClusterLen(Layout)
                               IN  (\A k \in 0 .. (n - 1) :
                                        c[k] \in Cluster(Layout)) =>
                                       /\ c[n] # 0
                                       /\ c[n] \in Cluster(Layout) =>
                                              IsByte(out[i], i, Volume, Layout,
                                                     file.first)
        BY DEF Delivered
    <2>1. /\ mounted \in Cards /\ FsTyped(fs) /\ fs = SeenFs
          /\ out \in Seq(Int) /\ Len(out) = file.pos
          /\ IsBeginning(out, Seen, fs, file.first)
        BY DEF SdInv, Stages, FsTrue, FileTyped, Content
    <2> QED BY <2>1, DeliveredTrue
<1> QED BY <1>1, <1>2, InitSdInv, PTL DEF SdSpec

----------------------------------------------------------------------------
(***************************************************************************)
(* Every command winds down.                                               *)
(***************************************************************************)
Walking == stage \in {"open", "openNext", "list", "listNext"}
InRead == stage \in {"read", "seek", "copy"}

\* What is still to come after the part of the image a read belongs to: q is
\* where the read ends, in the header or in the payload.
Part(n, q) ==
    CASE n = "WAD" -> 0
      [] n = "IMG" /\ q <= HeaderLen -> 6
      [] OTHER -> 4

\* How far a command in stage s is from the prompt.
PhaseOf(s, n, q) ==
    CASE s = "prompt" -> 0
      [] s \in {"launch", "list", "listNext"} -> 1
      [] s = "loader" -> 2 + Part(n, q)
      [] s \in {"read", "seek", "copy"} -> 3 + Part(n, q)
      [] s \in {"open", "openNext"} -> IF n = "WAD" THEN 4 ELSE 10
      [] s = "partition" -> 11
      [] s = "mount" -> 12
      [] s = "ready" -> 13
      [] s = "cmd16" -> 14
      [] s = "cmd58" -> 15
      [] s \in {"cmd55", "cmd41"} -> 16
      [] s = "cmd8" -> 17
      [] s = "cmd0" -> 18

Phase == PhaseOf(stage, name, file.pos + want)

\* The sectors of the part of the root directory that is searched in one go,
\* and the clusters between the file's place and the one the reader is in.
DirSectors == IF fs.type = 16 THEN fs.rootSectors ELSE fs.spc
Reached == file.pos \div ClusterLen(fs)
Behind == Reached - file.idx

\* Within a phase: the clusters or bytes still allowed, the sectors or clusters
\* before the next of them, and whether this one has been looked at.
Ahead == IF Walking THEN fs.count - dir.guard ELSE IF InRead THEN want ELSE 0
Near == IF Walking THEN DirSectors - dir.sector
        ELSE IF InRead THEN Behind ELSE 0
Fresh == IF stage \in {"open", "list", "read"} THEN 1 ELSE 0

\* The block that is looked for: to be asked for, under way, there.
Sought == IF ~(Cached \/ Listing) \/ Hit THEN 0
          ELSE IF io = "token" THEN 1 ELSE 2

Rank == <<Phase, Ahead, Near, Fresh, Sought, InitTimeout - elapsed>>

Below(a, b) ==
    \E i \in 1 .. 6 : a[i] < b[i] /\ \A j \in 1 .. (i - 1) : a[j] = b[j]

AsksAgain == stage \in {"cmd55", "cmd41"} /\ stage' \in {"cmd55", "cmd41"}

\* Every step of a command, and of the clock while it waits, goes down in the
\* lexicographic order; only asking the card once more whether it is ready
\* stays where it is.  Putting a card in or taking it out never goes up.
WindsDown ==
    stage # "prompt" =>
        /\ \A i \in 1 .. 6 : Rank[i] \in Nat
        /\ IF Monitor \/ Tick \/ ReadTorn
           THEN Below(Rank', Rank) \/ (AsksAgain /\ Rank' = Rank)
           ELSE Rank' = Rank

ClockInv == elapsed \in 0 .. InitTimeout

\* The volume has clusters and a root directory that is not empty.
VolumeCounted ==
    /\ mount_ok => fs.count \in Nat /\ fs.rootSectors \in Nat
    /\ stage \in OnVolume => ~NoRoot(fs)

\* A walk is inside the directory and has not taken more clusters than there
\* are.
WalkBounded ==
    Walking =>
        /\ dir \in [cluster : {dir.cluster}, sector : Nat, guard : Nat]
        /\ dir.guard <= fs.count /\ dir.sector < DirSectors

\* A reader is never ahead of its place, and reads only what is wanted.
ReadBounded ==
    /\ stage \in {"read", "copy", "loader"} => file.idx <= Reached
    /\ stage = "seek" => file.idx < Reached
    /\ InRead => want > 0
    /\ stage = "loader" => want = 0

WindInv ==
    SdInv /\ ClockInv /\ VolumeCounted /\ WalkBounded /\ ReadBounded

LEMMA ClockStep ==
    ASSUME ClockInv, [SdNext]_sdVars PROVE ClockInv'
<1>0. InitTimeout \in Nat \ {0}
    BY SdAssumption
<1>1. CASE Tick
    BY <1>0, <1>1 DEF Tick, ClockInv
<1>2. CASE Initializing
    <2>1. elapsed' \in {0, elapsed}
        BY <1>2 DEF Initializing, Cmd0, Cmd8, Cmd55, Acmd41, Cmd58, Cmd16
    <2> QED BY <1>0, <2>1 DEF ClockInv
<1>3. CASE ~(Tick \/ Initializing)
    <2>1. elapsed' \in {0, elapsed}
        BY <1>3, SdCases DEF OffCard, hazard3_sd_boot, ReadCommand, ReadBlock,
            ReadTorn, ReadTimeout, Arrives, StartMount, Mount,
            MountPartition, Open, OpenNext, Read, Seek, Copy, Loader, Launch,
            print_status, List, ListNext, Insert, Remove, Uses, sdVars
    <2> QED BY <1>0, <2>1 DEF ClockInv
<1> QED BY <1>1, <1>2, <1>3

LEMMA GeometryCounted ==
    ASSUME NEW b, IsSector(b), b.kind = "boot", Supported(b), NEW part
    PROVE  /\ Geometry(b, part).count \in Nat
           /\ Geometry(b, part).rootSectors \in Nat
<1> DEFINE f == FirstData(b)
           d == b.total - f
           n == d \div b.spc
<1>1. b.rootSectors \in Nat /\ b.spc \in Nat /\ b.total \in Nat
    BY KindTyped
<1>2. f \in Nat
    BY DataTyped
<1>3. b.spc > 0 /\ f < b.total
    BY DEF Supported
<1>4. d \in Nat
    <2> HIDE DEF f
    <2> QED BY <1>1, <1>2, <1>3
<1>5. n \in Nat
    <2> HIDE DEF d
    <2> QED BY <1>1, <1>3, <1>4, DivFacts
<1>6. /\ Geometry(b, part).count = n
      /\ Geometry(b, part).rootSectors = b.rootSectors
    BY DEF Geometry, ClusterCount
<1> QED BY <1>1, <1>5, <1>6

\* Only a search of the volume leads to another, and a mount leads to one only
\* if there is a directory.
LEMMA MountedCounted ==
    ASSUME NEW part, Mounted(part), IsSector(Sector), Sector.kind = "boot",
           ~mount_ok, stage \in Mounts
    PROVE  VolumeCounted'
<1>1. CASE Supported(Sector)
    <2>1. fs' = Geometry(Sector, part)
        BY <1>1 DEF Mounted
    <2>2. fs'.count \in Nat /\ fs'.rootSectors \in Nat
        BY <1>1, <2>1, GeometryCounted
    <2>3. stage' \in OnVolume => ~NoRoot(fs')
        BY <1>1 DEF Mounted, Goto, Fail, OnVolume
    <2> QED BY <2>2, <2>3 DEF VolumeCounted
<1>2. CASE ~Supported(Sector)
    BY <1>2 DEF Mounted, Fail, VolumeCounted, OnVolume
<1> QED BY <1>1, <1>2

LEMMA CountedStep ==
    ASSUME Stages, CacheTrue, VolumeCounted, [SdNext]_sdVars
    PROVE  VolumeCounted'
<1>1. CASE Initializing \/ hazard3_sd_boot
    <2>1. ~mount_ok'
        BY <1>1, Unmounted
    <2>2. stage' \notin OnVolume
        BY <1>1 DEF Initializing, hazard3_sd_boot, Cmd0, Cmd8, Cmd55, Acmd41,
            Cmd58, Cmd16, Goto, Fail, OnVolume
    <2> QED BY <2>1, <2>2 DEF VolumeCounted
<1>2. CASE StartMount
    BY <1>2 DEF StartMount, Goto, Stages, Mounts, VolumeCounted, OnVolume
<1>3. CASE Mount \/ MountPartition
    <2>1. /\ Cached /\ Hit /\ stage \in {"mount", "partition"}
        BY <1>3, InMountCached
    <2>2. ~mount_ok /\ stage \in Mounts
        BY <2>1 DEF Stages, Mounts
    <2>3. IsSector(Sector)
        BY <2>1, SectorTrue
    <2>4. CASE mount_ok' = mount_ok /\ stage' \notin OnVolume
        BY <2>2, <2>4 DEF VolumeCounted
    <2>5. ASSUME NEW part, Mounted(part), Sector.kind = "boot"
          PROVE  VolumeCounted'
        BY <2>2, <2>3, <2>5, MountedCounted
    <2> QED BY <1>3, <2>4, <2>5 DEF Mount, MountPartition, Goto, Fail,
                OnVolume
<1>4. CASE Staying
    <2>1. UNCHANGED <<fs, mount_ok>>
        BY <1>4, StayingKeeps
    <2>2. stage' \in OnVolume => stage \in OnVolume \/ print_status
        BY <1>4 DEF Staying, ReadCommand, ReadBlock, ReadTorn, ReadTimeout,
            Arrives, Open, OpenNext, Read, Seek, Copy, Loader, Launch,
            List, ListNext, Tick, Insert, Remove, Goto, Fail,
            OnVolume, sdVars
    <2>3. print_status => ~NoRoot(fs)
        BY DEF print_status
    <2> QED BY <2>1, <2>2, <2>3 DEF VolumeCounted, NoRoot
<1> QED BY <1>1, <1>2, <1>3, <1>4, StayingCases

\* The volume is one that can be walked through.
OnSeenTyped ==
    /\ FsTyped(fs) /\ ~NoRoot(fs)
    /\ fs.count \in Nat /\ fs.rootSectors \in Nat

LEMMA VolumeWalkable ==
    ASSUME Stages, FsTrue, VolumeCounted, stage \in OnVolume
    PROVE  OnSeenTyped
BY DEF Stages, FsTrue, VolumeCounted, OnSeenTyped

\* A search begins in the first sector of a directory that has one.
LEMMA WalkBegins ==
    ASSUME NEW f, FsTyped(f), ~NoRoot(f), f.count \in Nat, f.rootSectors \in Nat
    PROVE  LET d == DirStart(f)
           IN  /\ d \in [cluster : {d.cluster}, sector : Nat, guard : Nat]
               /\ d.guard <= f.count
               /\ d.sector < (IF f.type = 16 THEN f.rootSectors ELSE f.spc)
<1>1. DirStart(f) = [cluster |-> f.rootCluster, sector |-> 0, guard |-> 0]
    BY DEF DirStart
<1>2. f.type = 16 => f.rootSectors > 0
    BY DEF NoRoot
<1>3. f.spc > 0
    BY DEF FsTyped
<1> QED BY <1>1, <1>2, <1>3

\* The next sector of a walk, if it is not at the end of its cluster.
LEMMA WalkGoesOn ==
    ASSUME NEW there, NEW fat, DirNext(there, fat), Walking, WalkBounded,
           OnSeenTyped, VolumeCounted, fs' = fs, Walking'
    PROVE  WalkBounded'
<1>1. /\ dir \in [cluster : {dir.cluster}, sector : Nat, guard : Nat]
      /\ dir.guard <= fs.count /\ dir.sector < DirSectors
    BY DEF WalkBounded
<1>2. DirSectors' = DirSectors /\ DirSectors \in Nat
    BY DEF DirSectors, OnSeenTyped, FsTyped
<1>3. CASE ~LastOfDir
    <2>1. dir' = [dir EXCEPT !.sector = @ + 1]
        BY <1>3 DEF DirNext
    <2>2. dir.sector + 1 # DirSectors
        BY <1>3 DEF LastOfDir, DirSectors
    <2>3. dir.sector \in Nat /\ dir.guard \in Nat
        BY <1>1
    <2>4. dir' = [cluster |-> dir.cluster, sector |-> dir.sector + 1,
                  guard |-> dir.guard]
        BY <1>1, <2>1
    <2>5. /\ dir'.cluster = dir.cluster /\ dir'.sector = dir.sector + 1
          /\ dir'.guard = dir.guard
        BY <2>4
    <2>6. dir' \in [cluster : {dir'.cluster}, sector : Nat, guard : Nat]
        BY <2>3, <2>4, <2>5
    <2>7. dir'.sector < DirSectors' /\ dir'.guard <= fs'.count
        BY <1>1, <1>2, <2>2, <2>3, <2>5
    <2> QED BY <2>6, <2>7 DEF WalkBounded
<1>4. CASE LastOfDir
    <2>1. dir' = dir
        BY <1>4 DEF DirNext
    <2> QED BY <1>1, <1>2, <2>1 DEF WalkBounded
<1> QED BY <1>3, <1>4

LEMMA WalkFollows ==
    ASSUME NEW there, DirCluster(there), Walking, WalkBounded,
           OnSeenTyped, fs' = fs, Walking', stage' # "prompt"
    PROVE  WalkBounded'
<1>1. dir \in [cluster : {dir.cluster}, sector : Nat, guard : Nat]
    BY DEF WalkBounded
<1> DEFINE next == NextOf(Sector, fs.type, dir.cluster)
<1>2. /\ dir.guard < fs.count
      /\ dir' = [cluster |-> next, sector |-> 0, guard |-> dir.guard + 1]
    BY DEF DirCluster, Fail
<1> HIDE DEF next
<1>3. DirSectors' = DirSectors /\ DirSectors \in Nat \ {0}
    BY DEF DirSectors, OnSeenTyped, FsTyped, NoRoot
<1>4. /\ dir'.cluster = next /\ dir'.sector = 0
      /\ dir'.guard = dir.guard + 1 /\ dir.guard \in Nat
      /\ fs.count \in Nat
    BY <1>1, <1>2 DEF OnSeenTyped
<1>5. dir' \in [cluster : {dir'.cluster}, sector : Nat, guard : Nat]
    BY <1>2, <1>4
<1> QED BY <1>2, <1>3, <1>4, <1>5 DEF WalkBounded

LEMMA WalkStep ==
    ASSUME Stages, FsTrue, FsTrue', CacheTrue, VolumeCounted, VolumeCounted',
           WalkBounded, [SdNext]_sdVars
    PROVE  WalkBounded'
<1> SUFFICES ASSUME Walking' PROVE WalkBounded'
    BY DEF WalkBounded
<1>1. CASE ReadCommand \/ ReadBlock \/ ReadTimeout \/ ReadTorn \/ Tick
             \/ Insert \/ Remove \/ UNCHANGED sdVars
    <2>1. UNCHANGED <<stage, dir, fs>>
        BY <1>1 DEF ReadCommand, ReadBlock, ReadTimeout, ReadTorn, Arrives,
            Tick, Insert, Remove, Fail, Walking, sdVars, fsVars
    <2>2. Walking
        BY <2>1 DEF Walking
    <2> QED BY <2>1, <2>2 DEF WalkBounded, DirSectors
<1>2. CASE Initializing \/ hazard3_sd_boot
    BY <1>2 DEF Initializing, hazard3_sd_boot, Cmd0, Cmd8, Cmd55, Acmd41,
        Cmd58, Cmd16, Goto, Fail, Walking
<1>3. CASE StartMount \/ Read \/ Seek \/ Copy \/ Launch
    BY <1>3 DEF StartMount, Read, Seek, Copy, Launch, Goto, Fail, Walking
<1>4. CASE Mount \/ MountPartition
    <2>1. PICK part : Mounted(part)
        BY <1>4 DEF Mount, MountPartition, Goto, Fail, Walking
    <2>2. dir' = DirStart(fs') /\ ~NoRoot(fs') /\ mount_ok'
        BY <2>1 DEF Mounted, Fail, Walking
    <2>3. FsTyped(fs') /\ fs'.count \in Nat /\ fs'.rootSectors \in Nat
        BY <2>2 DEF FsTrue, VolumeCounted
    <2> QED BY <2>2, <2>3, WalkBegins DEF WalkBounded, DirSectors
<1>5. CASE Loader \/ print_status
    <2>1. fs' = fs /\ dir' = DirStart(fs) /\ mount_ok
        BY <1>5 DEF Loader, print_status, Goto, Fail, Walking, fsVars, Stages,
            OnVolume
    <2>2. ~NoRoot(fs)
        BY <1>5 DEF Loader, print_status, VolumeCounted, OnVolume
    <2>3. FsTyped(fs) /\ fs.count \in Nat /\ fs.rootSectors \in Nat
        BY <2>1 DEF FsTrue, VolumeCounted
    <2> QED BY <2>1, <2>2, <2>3, WalkBegins DEF WalkBounded, DirSectors
<1>6. CASE Open \/ List
    <2>1. Walking /\ stage \in OnVolume /\ fs' = fs
        BY <1>6 DEF Open, List, Walking, OnVolume
    <2>2. OnSeenTyped
        BY <2>1, VolumeWalkable
    <2>3. DirNext("open", "openNext") \/ DirNext("list", "listNext")
        BY <1>6 DEF Open, Opened, List, Goto, Fail, Walking
    <2> QED BY <2>1, <2>2, <2>3, WalkGoesOn
<1>7. CASE OpenNext \/ ListNext
    <2>1. Walking /\ stage \in OnVolume /\ fs' = fs
        BY <1>7 DEF OpenNext, ListNext, Walking, OnVolume
    <2>2. OnSeenTyped
        BY <2>1, VolumeWalkable
    <2>3. DirCluster("open") \/ DirCluster("list")
        BY <1>7 DEF OpenNext, ListNext
    <2>4. stage' # "prompt"
        BY DEF Walking
    <2> QED BY <2>1, <2>2, <2>3, <2>4, WalkFollows
<1> QED BY <1>1, <1>2, <1>3, <1>4, <1>5, <1>6, <1>7, SdCases DEF OffCard

\* What a read of a chunk does to the place.
LEMMA ChunkRead ==
    ASSUME Copy, FileTyped, Stages, FsTrue, CacheTrue
    PROVE  /\ mount_ok /\ fs' = fs /\ ClusterLen(fs) \in Nat \ {0}
           /\ Chunk \in Nat /\ want \in Nat /\ file.pos \in Nat
           /\ file'.pos = file.pos + Chunk /\ file'.idx = file.idx
           /\ want' = want - Chunk /\ want' \in Nat
           /\ want > 0 => Chunk > 0
           /\ file'.pos + want' = file.pos + want
           /\ stage' = IF want' > 0 THEN "read" ELSE "loader"
           /\ name' = name
<1>1. /\ mount_ok /\ Chunk \in Nat /\ want - Chunk \in Nat
      /\ file' = [file EXCEPT !.pos = @ + Chunk]
      /\ want' = want - Chunk
    BY CopyPiece
<1>2. /\ file \in [first : Nat, cur : Nat, idx : Nat, size : Nat, pos : Nat]
      /\ want \in Nat
    BY <1>1 DEF FileTyped
<1>3. file' = [first |-> file.first, cur |-> file.cur, idx |-> file.idx,
               size |-> file.size, pos |-> file.pos + Chunk]
    BY <1>1, <1>2
<1>4. file'.pos = file.pos + Chunk /\ file'.idx = file.idx /\ file.pos \in Nat
    BY <1>2, <1>3
<1>5. ClusterLen(fs) \in Nat \ {0}
    BY <1>1, PlaceTyped DEF FsTrue
<1>6. want > 0 => Chunk > 0
    <2> DEFINE w == file.pos % SectorLen
    <2>1. w \in 0 .. (SectorLen - 1) /\ SectorLen \in Nat \ {0}
        BY <1>4, SdAssumption, DivFacts
    <2> HIDE DEF w
    <2>2. Chunk = IF SectorLen - w < want THEN SectorLen - w ELSE want
        BY DEF Chunk, Min2, w
    <2> QED BY <1>2, <2>1, <2>2
<1>7. fs' = fs /\ name' = name
      /\ stage' = IF want' > 0 THEN "read" ELSE "loader"
    BY DEF Copy, Goto
<1>8. file'.pos + want' = file.pos + want
    BY <1>1, <1>2, <1>4
<1> QED BY <1>1, <1>2, <1>4, <1>5, <1>6, <1>7, <1>8

\* A file that is opened wants something, and the reader is at its beginning.
LEMMA OpenReads ==
    ASSUME Open, Stages, FsTrue, CacheTrue, FileTyped, stage' = "read"
    PROVE  /\ fs' = fs /\ name' = name
           /\ file'.pos = 0 /\ file'.idx = 0 /\ want' \in Nat /\ want' > 0
           /\ name = "IMG" => want' = HeaderLen
           /\ Reached' = 0
<1>1. mount_ok /\ FsTyped(fs)
    BY DEF Open, Stages, OnVolume, FsTrue
<1>2. PICK e \in DirEntry :
          /\ file' = [first |-> e.cluster, cur |-> e.cluster, idx |-> 0,
                      size |-> e.size, pos |-> 0]
          /\ want' \in {want, HeaderLen, e.size}
          /\ want' >= 1
    BY OpenFile
<1>3. file'.pos = 0 /\ file'.idx = 0
    BY <1>2
<1>4. want \in Nat /\ HeaderLen \in Nat /\ e.size \in Nat
    BY <1>1, SdAssumption DEF FileTyped, DirEntry
<1>5. want' \in Nat /\ want' > 0
    BY <1>2, <1>4
<1>6. fs' = fs /\ name' = name
    BY DEF Open
<1>7. name = "IMG" => want' = HeaderLen
    BY DEF Open, Opened, DirNext, Goto, Fail
<1>8. ClusterLen(fs) \in Nat \ {0}
    BY <1>1, PlaceTyped
<1>9. Reached' = 0 \div ClusterLen(fs)
    BY <1>3, <1>6 DEF Reached, ClusterLen
<1>10. Reached' = 0
    <2> DEFINE n == ClusterLen(fs)
    <2>1. n \in Nat \ {0} /\ Reached' = 0 \div n
        BY <1>8, <1>9
    <2> HIDE DEF n
    <2> QED BY <2>1
<1> QED BY <1>3, <1>5, <1>6, <1>7, <1>10

\* A reader that has found the next cluster is one nearer to its place.
LEMMA SeekReads ==
    ASSUME Seek, Stages, FsTrue, CacheTrue, FileTyped, stage' # "prompt"
    PROVE  /\ fs' = fs /\ stage' = "read" /\ UNCHANGED <<want, name>>
           /\ file.idx \in Nat /\ file'.idx = file.idx + 1
           /\ file'.pos = file.pos /\ Reached' = Reached
<1>1. mount_ok /\ UNCHANGED <<want, name>>
    BY SeekNext
<1>2. PICK c \in Nat \ {0} : /\ file' = [file EXCEPT !.cur = c, !.idx = @ + 1]
                             /\ stage' = "read"
    BY SeekNext
<1>3. file \in [first : Nat, cur : Nat, idx : Nat, size : Nat, pos : Nat]
    BY <1>1 DEF FileTyped
<1>4. file'.idx = file.idx + 1 /\ file'.pos = file.pos /\ file.idx \in Nat
    BY <1>2, <1>3
<1>5. fs' = fs
    BY DEF Seek
<1>6. Reached' = Reached
    BY <1>4, <1>5 DEF Reached, ClusterLen
<1> QED BY <1>1, <1>2, <1>4, <1>5, <1>6

\* What is asked for after the header is a payload.
LEMMA LoaderReads ==
    ASSUME Loader, FileTyped, Stages, stage' = "read"
    PROVE  /\ mount_ok /\ UNCHANGED <<fs, file, name>>
           /\ want' \in Nat /\ want' > 0
           /\ name = "IMG" /\ file.pos = HeaderLen
<1>1. mount_ok /\ UNCHANGED <<fs, file>>
    BY DEF Loader, Stages, OnVolume, fsVars
<1>2. name = "IMG" /\ Len(out) = HeaderLen /\ want' \in Payloads /\ name' = name
    BY DEF Loader, Goto, Fail
<1>3. file.pos = HeaderLen
    BY <1>1, <1>2 DEF FileTyped
<1>4. want' \in Nat /\ want' > 0
    BY <1>2, SdAssumption
<1> QED BY <1>1, <1>2, <1>3, <1>4

LEMMA ReadStep ==
    ASSUME Stages, FsTrue, CacheTrue, FileTyped, FileTyped', AtPlace,
           ReadBounded, [SdNext]_sdVars
    PROVE  ReadBounded'
<1>1. CASE ReadCommand \/ ReadBlock \/ ReadTimeout \/ ReadTorn \/ Tick
             \/ Insert \/ Remove \/ UNCHANGED sdVars
    <2>1. \/ stage' = "prompt"
          \/ UNCHANGED <<stage, file, want, fs>>
        BY <1>1 DEF ReadCommand, ReadBlock, ReadTimeout, ReadTorn, Arrives,
            Tick, Insert, Remove, Fail, sdVars, fsVars, fileVars
    <2> QED BY <2>1 DEF ReadBounded, Reached, ClusterLen, InRead
<1>2. CASE Initializing \/ hazard3_sd_boot \/ StartMount \/ Launch
             \/ print_status
    BY <1>2 DEF Initializing, hazard3_sd_boot, Cmd0, Cmd8, Cmd55, Acmd41,
        Cmd58, Cmd16, StartMount, Launch, print_status, Goto, Fail,
        ReadBounded, InRead
<1>3. CASE Mount \/ MountPartition \/ List \/ OpenNext \/ ListNext
    BY <1>3 DEF Mount, MountPartition, Mounted, List, OpenNext, ListNext,
        DirNext, DirCluster, Goto, Fail, ReadBounded, InRead
<1>4. CASE Open
    <2>1. stage' \in {"read", "open", "openNext", "prompt"}
        BY <1>4 DEF Open, Opened, DirNext, Goto, Fail
    <2>2. CASE stage' = "read"
        <3>1. file'.idx = 0 /\ want' > 0 /\ Reached' = 0
            BY <1>4, <2>2, OpenReads
        <3> QED BY <2>2, <3>1 DEF ReadBounded
    <2>3. CASE stage' # "read"
        BY <2>1, <2>3 DEF ReadBounded, InRead
    <2> QED BY <2>2, <2>3
<1>5. CASE Read
    <2>1. /\ UNCHANGED <<fs, file, want>> /\ stage = "read"
          /\ \/ stage' = "prompt"
             \/ stage' = IF Reached = file.idx THEN "copy" ELSE "seek"
        BY <1>5 DEF Read, Goto, Fail, fsVars, fileVars, Reached
    <2>2. Reached' = Reached
        BY <2>1 DEF Reached, ClusterLen
    <2>3. file.idx \in Nat /\ Reached \in Nat
        <3>1. mount_ok
            BY <2>1 DEF Stages, OnVolume
        <3>2. file.idx \in Nat /\ file.pos \in Nat
            BY <3>1 DEF FileTyped
        <3>3. ClusterLen(fs) \in Nat \ {0}
            BY <3>1, PlaceTyped DEF FsTrue
        <3> QED BY <3>2, <3>3, DivFacts DEF Reached
    <2>4. file.idx <= Reached /\ want > 0
        BY <2>1 DEF ReadBounded, InRead
    <2> QED BY <2>1, <2>2, <2>3, <2>4 DEF ReadBounded, InRead
<1>6. CASE Seek
    <2>1. CASE stage' = "prompt"
        BY <2>1 DEF ReadBounded, InRead
    <2>2. CASE stage' # "prompt"
        <3>1. /\ stage' = "read" /\ want' = want /\ Reached' = Reached
              /\ file'.idx = file.idx + 1 /\ file.idx \in Nat
            BY <1>6, <2>2, SeekReads
        <3>2. stage = "seek"
            BY <1>6 DEF Seek
        <3>3. file.idx < Reached /\ want > 0
            BY <3>2 DEF ReadBounded, InRead
        <3>4. Reached \in Nat
            <4>1. mount_ok
                BY <3>2 DEF Stages, OnVolume
            <4>2. file.pos \in Nat
                BY <4>1 DEF FileTyped
            <4>3. ClusterLen(fs) \in Nat \ {0}
                BY <4>1, PlaceTyped DEF FsTrue
            <4> QED BY <4>2, <4>3, DivFacts DEF Reached
        <3>5. file'.idx <= Reached'
            BY <3>1, <3>3, <3>4
        <3> QED BY <3>1, <3>3, <3>5 DEF ReadBounded, InRead
    <2> QED BY <2>1, <2>2
<1>7. CASE Copy
    <2>1. /\ fs' = fs /\ ClusterLen(fs) \in Nat \ {0} /\ mount_ok
          /\ Chunk \in Nat /\ file.pos \in Nat
          /\ file'.pos = file.pos + Chunk /\ file'.idx = file.idx
          /\ want' \in Nat
          /\ stage' = IF want' > 0 THEN "read" ELSE "loader"
        BY <1>7, ChunkRead
    <2>2. file.idx = Reached
        BY <1>7, <2>1 DEF Copy, AtPlace, Reached
    <2>3. file.pos + Chunk \in Nat /\ file.pos <= file.pos + Chunk
        BY <2>1
    <2>4. Reached <= (file.pos + Chunk) \div ClusterLen(fs)
        BY <2>1, <2>3, DivMonotone DEF Reached
    <2>5. Reached' = (file.pos + Chunk) \div ClusterLen(fs)
        BY <2>1 DEF Reached, ClusterLen
    <2>6. file'.idx <= Reached'
        BY <2>1, <2>2, <2>4, <2>5
    <2>7. want' > 0 \/ want' = 0
        BY <2>1
    <2> QED BY <2>1, <2>6, <2>7 DEF ReadBounded, InRead
<1>8. CASE Loader
    <2>1. stage' \in {"prompt", "read", "open", "launch"} /\ stage = "loader"
        BY <1>8, LoaderKeeps DEF Loader
    <2>2. CASE stage' = "read"
        <3>1. UNCHANGED <<fs, file>> /\ want' > 0
            BY <1>8, <2>2, LoaderReads
        <3>2. file'.idx <= Reached'
            BY <2>1, <3>1 DEF ReadBounded, Reached, ClusterLen
        <3> QED BY <2>2, <3>1, <3>2 DEF ReadBounded
    <2>3. CASE stage' # "read"
        BY <2>1, <2>3 DEF ReadBounded, InRead
    <2> QED BY <2>2, <2>3
<1> QED BY <1>1, <1>2, <1>3, <1>4, <1>5, <1>6, <1>7, <1>8, SdCases
    DEF OffCard

LEMMA PartValues ==
    ASSUME NEW n, NEW q
    PROVE  /\ Part(n, q) \in {0, 4, 6}
           /\ n = "WAD" => Part(n, q) = 0
           /\ n = "IMG" => Part(n, q) = IF q <= HeaderLen THEN 6 ELSE 4
BY DEF Part

LEMMA PhaseValues ==
    ASSUME NEW n, NEW q
    PROVE  /\ PhaseOf("prompt", n, q) = 0
           /\ \A s \in {"launch", "list", "listNext"} : PhaseOf(s, n, q) = 1
           /\ PhaseOf("loader", n, q) = 2 + Part(n, q)
           /\ \A s \in {"read", "seek", "copy"} :
                  PhaseOf(s, n, q) = 3 + Part(n, q)
           /\ \A s \in {"open", "openNext"} :
                  PhaseOf(s, n, q) = IF n = "WAD" THEN 4 ELSE 10
           /\ PhaseOf("partition", n, q) = 11 /\ PhaseOf("mount", n, q) = 12
           /\ PhaseOf("ready", n, q) = 13
           /\ PhaseOf("cmd16", n, q) = 14 /\ PhaseOf("cmd58", n, q) = 15
           /\ \A s \in {"cmd55", "cmd41"} : PhaseOf(s, n, q) = 16
           /\ PhaseOf("cmd8", n, q) = 17 /\ PhaseOf("cmd0", n, q) = 18
<1>1. PhaseOf("prompt", n, q) = 0
    BY DEF PhaseOf
<1>2. \A s \in {"launch", "list", "listNext"} : PhaseOf(s, n, q) = 1
    BY DEF PhaseOf
<1>3. PhaseOf("loader", n, q) = 2 + Part(n, q)
    BY DEF PhaseOf
<1>4. \A s \in {"read", "seek", "copy"} : PhaseOf(s, n, q) = 3 + Part(n, q)
    BY DEF PhaseOf
<1>5. \A s \in {"open", "openNext"} :
          PhaseOf(s, n, q) = IF n = "WAD" THEN 4 ELSE 10
    BY DEF PhaseOf
<1>6. PhaseOf("partition", n, q) = 11 /\ PhaseOf("mount", n, q) = 12
    BY DEF PhaseOf
<1>7. /\ PhaseOf("ready", n, q) = 13
      /\ PhaseOf("cmd16", n, q) = 14 /\ PhaseOf("cmd58", n, q) = 15
    BY DEF PhaseOf
<1>8. /\ \A s \in {"cmd55", "cmd41"} : PhaseOf(s, n, q) = 16
      /\ PhaseOf("cmd8", n, q) = 17 /\ PhaseOf("cmd0", n, q) = 18
    BY DEF PhaseOf
<1> QED BY <1>1, <1>2, <1>3, <1>4, <1>5, <1>6, <1>7, <1>8

\* Only the prompt is at the end.
LEMMA PhaseTyped ==
    ASSUME Stages PROVE Phase \in Nat /\ (stage # "prompt" => Phase > 0)
<1> DEFINE q == file.pos + want
<1>1. Phase = PhaseOf(stage, name, q) /\ Part(name, q) \in {0, 4, 6}
    BY PartValues DEF Phase
<1> HIDE DEF q
<1> QED BY <1>1, PhaseValues DEF Stages, Starting, Mounts, OnVolume

LEMMA AtPrompt ==
    ASSUME stage' = "prompt" PROVE Phase' = 0
BY PhaseValues DEF Phase

LEMMA RankTyped ==
    ASSUME WindInv
    PROVE  /\ Phase \in Nat /\ Ahead \in Nat /\ Near \in Nat /\ Fresh \in Nat
           /\ Sought \in Nat /\ InitTimeout - elapsed \in Nat
           /\ \A i \in 1 .. 6 : Rank[i] \in Nat
<1>0. Stages /\ FsTrue /\ FileTyped /\ VolumeCounted /\ WalkBounded
         /\ ReadBounded /\ ClockInv
    BY DEF WindInv, SdInv
<1>1. Phase \in Nat
    BY <1>0, PhaseTyped
<1>2. Fresh \in Nat /\ Sought \in Nat
    BY DEF Fresh, Sought
<1>3. InitTimeout - elapsed \in Nat
    BY <1>0, SdAssumption DEF ClockInv
<1>4. Ahead \in Nat /\ Near \in Nat
    <2>1. CASE Walking
        <3>1. OnSeenTyped
            BY <1>0, <2>1, VolumeWalkable DEF Walking, OnVolume
        <3>2. fs.count \in Nat /\ DirSectors \in Nat
            BY <3>1 DEF OnSeenTyped, FsTyped, DirSectors
        <3>3. /\ dir.sector \in Nat /\ dir.guard \in Nat
              /\ dir.guard <= fs.count /\ dir.sector < DirSectors
            BY <1>0, <2>1 DEF WalkBounded
        <3> QED BY <2>1, <3>2, <3>3 DEF Ahead, Near
    <2>2. CASE InRead
        <3>1. mount_ok
            BY <1>0, <2>2 DEF InRead, Stages, OnVolume
        <3>2. want \in Nat /\ file.idx \in Nat /\ file.pos \in Nat
            BY <1>0, <3>1 DEF FileTyped
        <3>3. ClusterLen(fs) \in Nat \ {0}
            BY <1>0, <3>1, PlaceTyped DEF FsTrue
        <3>4. Reached \in Nat
            BY <3>2, <3>3, DivFacts DEF Reached
        <3>5. file.idx <= Reached
            BY <1>0, <2>2, <3>2, <3>4 DEF ReadBounded, InRead
        <3>6. ~Walking
            BY <2>2 DEF Walking, InRead
        <3>7. Behind \in Nat
            BY <3>2, <3>4, <3>5 DEF Behind
        <3> QED BY <2>2, <3>2, <3>6, <3>7 DEF Ahead, Near
    <2>3. CASE ~Walking /\ ~InRead
        BY <2>3 DEF Ahead, Near
    <2> QED BY <2>1, <2>2, <2>3
<1>5. ASSUME NEW i \in 1 .. 6 PROVE Rank[i] \in Nat
    BY <1>1, <1>2, <1>3, <1>4 DEF Rank
<1> QED BY <1>1, <1>2, <1>3, <1>4, <1>5

LEMMA BelowAt ==
    ASSUME NEW a, NEW b, NEW i \in 1 .. 6, a[i] < b[i],
           \A j \in 1 .. (i - 1) : a[j] = b[j]
    PROVE  Below(a, b)
BY DEF Below

LEMMA BelowCases ==
    ASSUME NEW a, NEW b,
           \/ a[1] < b[1]
           \/ a[1] = b[1] /\ a[2] < b[2]
           \/ a[1] = b[1] /\ a[2] = b[2] /\ a[3] < b[3]
           \/ a[1] = b[1] /\ a[2] = b[2] /\ a[3] = b[3] /\ a[4] < b[4]
           \/ /\ a[1] = b[1] /\ a[2] = b[2] /\ a[3] = b[3] /\ a[4] = b[4]
              /\ a[5] < b[5]
           \/ /\ a[1] = b[1] /\ a[2] = b[2] /\ a[3] = b[3] /\ a[4] = b[4]
              /\ a[5] = b[5] /\ a[6] < b[6]
    PROVE  Below(a, b)
<1>1. CASE a[1] < b[1]
    BY <1>1, BelowAt
<1>2. CASE a[1] = b[1] /\ a[2] < b[2]
    <2>1. \A j \in 1 .. (2 - 1) : a[j] = b[j]
        BY <1>2
    <2> QED BY <1>2, <2>1, BelowAt
<1>3. CASE a[1] = b[1] /\ a[2] = b[2] /\ a[3] < b[3]
    <2>1. \A j \in 1 .. (3 - 1) : a[j] = b[j]
        BY <1>3
    <2> QED BY <1>3, <2>1, BelowAt
<1>4. CASE a[1] = b[1] /\ a[2] = b[2] /\ a[3] = b[3] /\ a[4] < b[4]
    <2>1. \A j \in 1 .. (4 - 1) : a[j] = b[j]
        BY <1>4
    <2> QED BY <1>4, <2>1, BelowAt
<1>5. CASE a[1] = b[1] /\ a[2] = b[2] /\ a[3] = b[3] /\ a[4] = b[4]
           /\ a[5] < b[5]
    <2>1. \A j \in 1 .. (5 - 1) : a[j] = b[j]
        BY <1>5
    <2> QED BY <1>5, <2>1, BelowAt
<1>6. CASE a[1] = b[1] /\ a[2] = b[2] /\ a[3] = b[3] /\ a[4] = b[4]
           /\ a[5] = b[5] /\ a[6] < b[6]
    <2>1. \A j \in 1 .. (6 - 1) : a[j] = b[j]
        BY <1>6
    <2> QED BY <1>6, <2>1, BelowAt
<1> QED BY <1>1, <1>2, <1>3, <1>4, <1>5, <1>6

\* One component is lower, and none before it is changed.
LEMMA Lower ==
    ASSUME \/ Phase' < Phase
           \/ /\ Phase' = Phase
              /\ \/ Ahead' < Ahead
                 \/ /\ Ahead' = Ahead
                    /\ \/ Near' < Near
                       \/ /\ Near' = Near
                          /\ \/ Fresh' < Fresh
                             \/ /\ Fresh' = Fresh
                                /\ \/ Sought' < Sought
                                   \/ /\ Sought' = Sought
                                      /\ InitTimeout - elapsed'
                                             < InitTimeout - elapsed
    PROVE  Below(Rank', Rank)
<1>1. /\ Rank[1] = Phase /\ Rank[2] = Ahead /\ Rank[3] = Near
      /\ Rank[4] = Fresh /\ Rank[5] = Sought
      /\ Rank[6] = InitTimeout - elapsed
    BY DEF Rank
<1>2. /\ Rank'[1] = Phase' /\ Rank'[2] = Ahead' /\ Rank'[3] = Near'
      /\ Rank'[4] = Fresh' /\ Rank'[5] = Sought'
      /\ Rank'[6] = InitTimeout - elapsed'
    BY DEF Rank
<1> QED BY <1>1, <1>2, BelowCases

\* A command that goes back to the prompt is at the end.
LEMMA PromptLower ==
    ASSUME Stages, stage # "prompt", stage' = "prompt"
    PROVE  Below(Rank', Rank)
<1>1. Phase' = 0 /\ Phase > 0
    BY AtPrompt, PhaseTyped
<1> QED BY <1>1, Lower

\* What the driver does in between changes nothing but the block and the clock.
LEMMA InBetween ==
    ASSUME UNCHANGED <<stage, fs, dir, name, file, want>>
    PROVE  /\ UNCHANGED <<Phase, Ahead, Near, Fresh>>
           /\ Cached' = Cached /\ Listing' = Listing /\ Lba' = Lba
<1>1. Phase' = Phase /\ Fresh' = Fresh
    BY DEF Phase, Fresh
<1>2. DirSectors' = DirSectors /\ Behind' = Behind
    BY DEF DirSectors, Behind, Reached, ClusterLen
<1>3. (Walking' <=> Walking) /\ (InRead' <=> InRead)
    BY DEF Walking, InRead
<1>4. Ahead' = Ahead /\ Near' = Near
    BY <1>2, <1>3 DEF Ahead, Near
<1>5. Cached' = Cached /\ Listing' = Listing /\ Lba' = Lba
    BY DEF Cached, Listing, Lba, DirLba, cluster_lba, fat_lba, SectorOf,
        ClusterLen
<1> QED BY <1>1, <1>4, <1>5

\* hazard3_sd_init goes from command to command, and asks again with ACMD41.
LEMMA InitWinds ==
    ASSUME WindInv, Initializing
    PROVE  Below(Rank', Rank) \/ (AsksAgain /\ Rank' = Rank)
<1>0. Stages
    BY DEF WindInv, SdInv
<1>1. CASE stage' = "prompt"
    <2>1. stage # "prompt"
        BY DEF Initializing, Cmd0, Cmd8, Cmd55, Acmd41, Cmd58, Cmd16
    <2> QED BY <1>0, <1>1, <2>1, PromptLower
<1>2. CASE AsksAgain
    <2>1. UNCHANGED <<name, file, want, elapsed>>
        BY <1>2 DEF Initializing, Cmd0, Cmd8, Cmd55, Acmd41, Cmd58, Cmd16,
            Command, Goto, Fail, AsksAgain, fileVars
    <2>2. Phase' = 16 /\ Phase = 16
        BY <1>2, PhaseValues DEF Phase, AsksAgain
    <2>3. /\ Ahead = 0 /\ Near = 0 /\ Fresh = 0 /\ Sought = 0
          /\ Ahead' = 0 /\ Near' = 0 /\ Fresh' = 0 /\ Sought' = 0
        BY <1>2 DEF AsksAgain, Ahead, Near, Fresh, Sought, Walking, InRead,
            Cached, Listing
    <2> QED BY <1>2, <2>1, <2>2, <2>3 DEF Rank
<1>3. CASE stage' # "prompt" /\ ~AsksAgain
    <2>1. \/ stage = "cmd0" /\ stage' = "cmd8"
          \/ stage = "cmd8" /\ stage' = "cmd55"
          \/ stage = "cmd41" /\ stage' = "cmd58"
          \/ stage = "cmd58" /\ stage' \in {"cmd16", "ready"}
          \/ stage = "cmd16" /\ stage' = "ready"
        BY <1>3 DEF Initializing, Cmd0, Cmd8, Cmd55, Acmd41, Cmd58, Cmd16,
            Goto, Fail, AsksAgain
    <2>2. Phase' < Phase
        BY <2>1, PhaseValues DEF Phase
    <2> QED BY <2>2, Lower
<1> QED BY <1>1, <1>2, <1>3

\* A block is asked for, comes in, or does not; the clock runs.
LEMMA BlockWinds ==
    ASSUME WindInv, stage # "prompt",
           ReadCommand \/ ReadBlock \/ ReadTorn \/ ReadTimeout \/ Tick
    PROVE  Below(Rank', Rank)
<1>0. Stages /\ CardInv /\ ClockInv
    BY DEF WindInv, SdInv
<1>1. CASE stage' = "prompt"
    BY <1>0, <1>1, PromptLower
<1>2. CASE ReadCommand /\ stage' # "prompt"
    <2>1. /\ UNCHANGED <<stage, fs, cache, dir, name, file, want>>
          /\ io = "idle" /\ io' = "token" /\ ~Hit /\ (Cached \/ Listing)
        BY <1>2 DEF ReadCommand, Fail, fsVars, fileVars
    <2>2. /\ UNCHANGED <<Phase, Ahead, Near, Fresh>>
          /\ Cached' = Cached /\ Listing' = Listing /\ Lba' = Lba
        BY <2>1, InBetween
    <2>3. ~Hit'
        BY <2>1, <2>2 DEF Hit
    <2>4. Sought = 2 /\ Sought' = 1
        BY <2>1, <2>2, <2>3 DEF Sought
    <2> QED BY <2>2, <2>4, Lower
<1>3. CASE ReadBlock \/ ReadTorn
    <2>1. /\ UNCHANGED <<stage, fs, dir, name, file, want>>
          /\ io = "token"
          /\ Cached => cache'.valid /\ cache'.lba = Lba
          /\ ~Cached => io' = "done"
        BY <1>3 DEF ReadBlock, ReadTorn, Arrives, fileVars
    <2>2. /\ UNCHANGED <<Phase, Ahead, Near, Fresh>>
          /\ Cached' = Cached /\ Listing' = Listing /\ Lba' = Lba
        BY <2>1, InBetween
    <2>3. Hit'
        BY <2>1, <2>2 DEF Hit
    <2>4. Sought = 1 /\ Sought' = 0
        BY <1>0, <2>1, <2>2, <2>3 DEF Sought, CardInv, BlockUnderWay
    <2> QED BY <2>2, <2>4, Lower
<1>4. CASE ReadTimeout
    BY <1>1, <1>4 DEF ReadTimeout, Fail
<1>5. CASE Tick
    <2>1. /\ UNCHANGED <<stage, fs, cache, dir, name, file, want, io>>
          /\ elapsed' = elapsed + 1
        BY <1>5 DEF Tick, fsVars, fileVars
    <2>2. /\ UNCHANGED <<Phase, Ahead, Near, Fresh>>
          /\ Cached' = Cached /\ Listing' = Listing /\ Lba' = Lba
        BY <2>1, InBetween
    <2>3. Sought' = Sought
        BY <2>1, <2>2 DEF Sought, Hit
    <2>4. InitTimeout - elapsed' < InitTimeout - elapsed
        BY <1>0, <2>1, SdAssumption DEF ClockInv
    <2> QED BY <2>2, <2>3, <2>4, Lower
<1> QED BY <1>1, <1>2, <1>3, <1>4, <1>5

\* The search for the volume.
LEMMA MountWinds ==
    ASSUME WindInv, StartMount \/ Mount \/ MountPartition
    PROVE  Below(Rank', Rank)
<1>0. Stages
    BY DEF WindInv, SdInv
<1>1. stage # "prompt"
    BY DEF StartMount, Mount, MountPartition
<1>2. CASE stage' = "prompt"
    BY <1>0, <1>1, <1>2, PromptLower
<1>3. CASE stage' # "prompt"
    <2>1. \/ stage = "ready" /\ stage' = "mount"
          \/ stage = "mount" /\ stage' = "partition"
          \/ stage \in {"mount", "partition"} /\ stage' = "open"
        BY <1>3 DEF StartMount, Mount, MountPartition, Mounted, Goto, Fail
    <2>2. Phase' < Phase
        BY <2>1, PhaseValues DEF Phase
    <2> QED BY <2>2, Lower
<1> QED BY <1>2, <1>3

\* A walk takes the next sector, looks for the next cluster, or takes it.
LEMMA WalkWinds ==
    ASSUME WindInv, WindInv', stage # "prompt",
           Open \/ OpenNext \/ List \/ ListNext
    PROVE  Below(Rank', Rank)
<1>0. /\ Stages /\ FsTrue /\ CacheTrue /\ FileTyped /\ VolumeCounted
      /\ WalkBounded
    BY DEF WindInv, SdInv
<1>1. /\ Walking /\ stage \in OnVolume /\ fs' = fs
    BY DEF Open, OpenNext, List, ListNext, Walking, OnVolume
<1>2. OnSeenTyped
    BY <1>0, <1>1, VolumeWalkable
<1>3. /\ dir \in [cluster : {dir.cluster}, sector : Nat, guard : Nat]
      /\ DirSectors' = DirSectors /\ DirSectors \in Nat /\ fs.count \in Nat
    BY <1>0, <1>1, <1>2 DEF WalkBounded, DirSectors, OnSeenTyped, FsTyped
<1>4. CASE stage' = "prompt"
    BY <1>0, <1>4, PromptLower
<1>5. CASE Open /\ stage' = "read"
    <2>1. /\ name' = name /\ file'.pos = 0 /\ want' \in Nat
          /\ name = "IMG" => want' = HeaderLen
        BY <1>0, <1>5, OpenReads
    <2>2. HeaderLen \in Nat /\ stage = "open" /\ name \in {"IMG", "WAD"}
        BY <1>0, <1>5, SdAssumption DEF Open, FileTyped
    <2> DEFINE q == file'.pos + want'
    <2>3. name = "IMG" => q <= HeaderLen
        BY <2>1, <2>2
    <2>4. Phase' = PhaseOf("read", name, q)
        BY <1>5, <2>1 DEF Phase
    <2> HIDE DEF q
    <2>5. Phase' = 3 + (IF name = "WAD" THEN 0 ELSE 6)
        BY <2>2, <2>3, <2>4, PhaseValues, PartValues
    <2>6. Phase = IF name = "WAD" THEN 4 ELSE 10
        BY <2>2, PhaseValues DEF Phase
    <2>7. Phase' < Phase
        BY <2>5, <2>6
    <2> QED BY <2>7, Lower
<1>6. CASE (Open \/ List) /\ stage' \notin {"prompt", "read"}
    <2>1. \/ Open /\ DirNext("open", "openNext") /\ stage = "open"
          \/ List /\ DirNext("list", "listNext") /\ stage = "list"
        BY <1>6 DEF Open, Opened, List, Goto, Fail
    <2>2. name' = name
        BY <1>6 DEF Open, List, fileVars
    <2>3. \/ stage = "open" /\ stage' \in {"open", "openNext"}
          \/ stage = "list" /\ stage' \in {"list", "listNext"}
        BY <1>6, <2>1 DEF DirNext, Goto, Fail
    <2>4. Phase' = Phase /\ Walking' /\ Fresh = 1
        BY <2>2, <2>3, PhaseValues DEF Phase, Walking, Fresh
    <2>5. CASE ~LastOfDir
        <3>1. dir' = [dir EXCEPT !.sector = @ + 1]
            BY <2>1, <2>5 DEF DirNext
        <3>2. /\ dir'.sector = dir.sector + 1 /\ dir'.guard = dir.guard
              /\ dir.sector \in Nat
            BY <1>3, <3>1
        <3>3. Ahead' = Ahead
            BY <1>1, <2>4, <3>2 DEF Ahead
        <3>4. Near' = DirSectors - (dir.sector + 1)
              /\ Near = DirSectors - dir.sector
            BY <1>1, <1>3, <2>4, <3>2 DEF Near
        <3>5. Near' < Near
            BY <1>3, <3>2, <3>4
        <3> QED BY <2>4, <3>3, <3>5, Lower
    <2>6. CASE LastOfDir
        <3>1. dir' = dir /\ stage' \in {"openNext", "listNext"}
            BY <1>6, <2>1, <2>6 DEF DirNext, Goto, Fail
        <3>2. Ahead' = Ahead /\ Near' = Near
            BY <1>1, <1>3, <2>4, <3>1 DEF Ahead, Near
        <3>3. Fresh' = 0
            BY <3>1 DEF Fresh
        <3> QED BY <2>4, <3>2, <3>3, Lower
    <2> QED BY <2>5, <2>6
<1>7. CASE (OpenNext \/ ListNext) /\ stage' # "prompt"
    <2>1. \/ /\ stage = "openNext" /\ stage' = "open"
             /\ DirCluster("open")
          \/ /\ stage = "listNext" /\ stage' = "list"
             /\ DirCluster("list")
        BY <1>7 DEF OpenNext, ListNext, DirCluster, Goto, Fail
    <2>2. name' = name
        BY <1>7 DEF OpenNext, ListNext, fileVars
    <2>3. Phase' = Phase /\ Walking'
        BY <2>1, <2>2, PhaseValues DEF Phase, Walking
    <2>4. dir'.guard = dir.guard + 1 /\ dir.guard \in Nat
        BY <1>3, <1>7, <2>1 DEF DirCluster, Fail
    <2>5. Ahead = fs.count - dir.guard /\ Ahead' = fs.count - (dir.guard + 1)
        BY <1>1, <2>3, <2>4 DEF Ahead
    <2>6. Ahead' < Ahead
        BY <1>3, <2>4, <2>5
    <2> QED BY <2>3, <2>6, Lower
<1>8. stage' = "read" => Open
    BY DEF Open, OpenNext, List, ListNext, DirNext, DirCluster, Goto, Fail
<1> QED BY <1>4, <1>5, <1>6, <1>7, <1>8

\* A reader checks its place, finds a cluster, or copies; a loader goes on.
LEMMA ReadWinds ==
    ASSUME WindInv, stage # "prompt",
           Read \/ Seek \/ Copy \/ Loader \/ Launch
    PROVE  Below(Rank', Rank)
<1>0. /\ Stages /\ FsTrue /\ CacheTrue /\ FileTyped /\ ReadBounded
    BY DEF WindInv, SdInv
<1>1. CASE stage' = "prompt"
    BY <1>0, <1>1, PromptLower
<1>2. CASE Launch
    BY <1>1, <1>2 DEF Launch, Goto
<1>3. CASE Read /\ stage' # "prompt"
    <2>1. /\ UNCHANGED <<fs, file, want, name>> /\ stage = "read"
          /\ stage' \in {"copy", "seek"}
        BY <1>3 DEF Read, Goto, Fail, fsVars, fileVars
    <2>2. Phase' = Phase
        BY <2>1, PhaseValues DEF Phase
    <2>3. InRead /\ InRead' /\ ~Walking /\ ~Walking'
        BY <2>1 DEF InRead, Walking
    <2>4. Ahead' = Ahead
        BY <2>1, <2>3 DEF Ahead
    <2>5. Behind' = Behind
        BY <2>1 DEF Behind, Reached, ClusterLen
    <2>6. Near' = Near
        BY <2>3, <2>5 DEF Near
    <2>7. Fresh = 1 /\ Fresh' = 0
        BY <2>1 DEF Fresh
    <2> QED BY <2>2, <2>4, <2>6, <2>7, Lower
<1>4. CASE Seek /\ stage' # "prompt"
    <2>1. /\ stage' = "read" /\ UNCHANGED <<want, name>>
          /\ file.idx \in Nat /\ file'.idx = file.idx + 1
          /\ file'.pos = file.pos /\ Reached' = Reached
        BY <1>0, <1>4, SeekReads
    <2>2. stage = "seek"
        BY <1>4 DEF Seek
    <2>3. Phase' = Phase
        BY <2>1, <2>2, PhaseValues DEF Phase
    <2>4. InRead /\ InRead' /\ ~Walking /\ ~Walking'
        BY <2>1, <2>2 DEF InRead, Walking
    <2>5. Ahead' = Ahead
        BY <2>1, <2>4 DEF Ahead
    <2>6. Reached \in Nat
        <3>1. mount_ok
            BY <1>0, <2>2 DEF Stages, OnVolume
        <3>2. file.pos \in Nat
            BY <1>0, <3>1 DEF FileTyped
        <3>3. ClusterLen(fs) \in Nat \ {0}
            BY <1>0, <3>1, PlaceTyped DEF FsTrue
        <3> QED BY <3>2, <3>3, DivFacts DEF Reached
    <2>7. Near = Reached - file.idx /\ Near' = Reached - (file.idx + 1)
        BY <2>1, <2>4 DEF Near, Behind
    <2>8. Near' < Near
        BY <2>1, <2>6, <2>7
    <2> QED BY <2>3, <2>5, <2>8, Lower
<1>5. CASE Copy
    <2>1. /\ Chunk \in Nat /\ want \in Nat
          /\ want' = want - Chunk /\ want' \in Nat
          /\ want > 0 => Chunk > 0
          /\ file'.pos + want' = file.pos + want
          /\ stage' = IF want' > 0 THEN "read" ELSE "loader"
          /\ name' = name
        BY <1>0, <1>5, ChunkRead
    <2>2. stage = "copy"
        BY <1>5 DEF Copy
    <2> DEFINE q == file.pos + want
    <2>3. Phase = PhaseOf(stage, name, q) /\ Phase' = PhaseOf(stage', name, q)
        BY <2>1 DEF Phase
    <2> HIDE DEF q
    <2>4. Part(name, q) \in Nat
        BY PartValues
    <2>5. CASE want' > 0
        <3>1. Phase' = Phase
            BY <2>1, <2>2, <2>3, <2>5, PhaseValues
        <3>2. InRead /\ InRead' /\ ~Walking /\ ~Walking'
            BY <2>1, <2>2, <2>5 DEF InRead, Walking
        <3>3. Ahead = want /\ Ahead' = want'
            BY <3>2 DEF Ahead
        <3>4. want > 0
            BY <1>0, <3>2 DEF ReadBounded
        <3>5. Ahead' < Ahead
            BY <2>1, <3>3, <3>4
        <3> QED BY <3>1, <3>5, Lower
    <2>6. CASE ~(want' > 0)
        <3>1. Phase = 3 + Part(name, q) /\ Phase' = 2 + Part(name, q)
            BY <2>1, <2>2, <2>3, <2>6, PhaseValues
        <3>2. Phase' < Phase
            BY <2>4, <3>1
        <3> QED BY <3>2, Lower
    <2> QED BY <2>5, <2>6
<1>6. CASE Loader /\ stage' # "prompt"
    <2>1. stage = "loader" /\ want = 0 /\ mount_ok /\ HeaderLen \in Nat \ {0}
        BY <1>0, <1>6, SdAssumption DEF Loader, ReadBounded, Stages, OnVolume
    <2>2. file.pos \in Nat /\ Len(out) = file.pos
        BY <1>0, <2>1 DEF FileTyped
    <2>3. Phase = 2 + Part(name, file.pos)
        <3>1. file.pos + want = file.pos
            BY <2>1, <2>2
        <3> QED BY <2>1, <3>1, PhaseValues DEF Phase
    <2>4. CASE stage' = "read"
        <3>1. /\ UNCHANGED <<file, name>> /\ want' \in Nat /\ want' > 0
              /\ name = "IMG" /\ file.pos = HeaderLen
            BY <1>0, <1>6, <2>4, LoaderReads
        <3>2. Phase = 8
            BY <2>1, <2>3, <3>1, PartValues
        <3> DEFINE q == file.pos + want'
        <3>3. q = HeaderLen + want'
            BY <3>1
        <3>4. ~(q <= HeaderLen)
            <4>1. \A h \in Nat, w \in Nat : w > 0 => ~(h + w <= h)
                OBVIOUS
            <4>2. HeaderLen \in Nat /\ want' \in Nat /\ want' > 0
                BY <2>1, <3>1
            <4>3. ~(HeaderLen + want' <= HeaderLen)
                BY ONLY <4>1, <4>2
            <4> QED BY <3>3, <4>3
        <3>5. Phase' = PhaseOf("read", "IMG", q)
            BY <2>4, <3>1 DEF Phase
        <3> HIDE DEF q
        <3>6. Phase' = 7
            BY <3>4, <3>5, PhaseValues, PartValues
        <3>7. Phase' < Phase
            BY <3>2, <3>6
        <3> QED BY <3>7, Lower
    <2>5. CASE stage' = "open"
        <3>1. name = "IMG" /\ Len(out) > HeaderLen /\ name' = "WAD"
            BY <1>6, <2>5 DEF Loader, Goto, Fail
        <3>2. Phase = 6
            BY <2>1, <2>2, <2>3, <3>1, PartValues
        <3>3. Phase' = 4
            BY <2>5, <3>1, PhaseValues DEF Phase
        <3>4. Phase' < Phase
            BY <3>2, <3>3
        <3> QED BY <3>4, Lower
    <2>6. CASE stage' = "launch"
        <3>1. Phase' = 1
            BY <2>6, PhaseValues DEF Phase
        <3>2. Part(name, file.pos) \in Nat
            BY PartValues
        <3>3. Phase' < Phase
            BY <2>3, <3>1, <3>2
        <3> QED BY <3>3, Lower
    <2>7. stage' \in {"prompt", "read", "open", "launch"}
        BY <1>0, <1>6, LoaderKeeps
    <2> QED BY <1>6, <2>4, <2>5, <2>6, <2>7
<1> QED BY <1>1, <1>2, <1>3, <1>4, <1>5, <1>6

\* Putting a card in or taking it out changes nothing of a command.
LEMMA CardOnly ==
    ASSUME Insert \/ Remove \/ UNCHANGED sdVars
    PROVE  Rank' = Rank
<1>1. UNCHANGED <<stage, fs, cache, dir, name, file, want, io, elapsed>>
    BY DEF Insert, Remove, sdVars, fsVars, fileVars
<1>2. /\ UNCHANGED <<Phase, Ahead, Near, Fresh>>
      /\ Cached' = Cached /\ Listing' = Listing /\ Lba' = Lba
    BY <1>1, InBetween
<1>3. Sought' = Sought
    BY <1>1, <1>2 DEF Sought, Hit
<1> QED BY <1>1, <1>2, <1>3 DEF Rank

LEMMA WindsStep ==
    ASSUME WindInv, WindInv', [SdNext]_sdVars
    PROVE  WindsDown
<1> SUFFICES ASSUME stage # "prompt" PROVE WindsDown
    BY DEF WindsDown
<1>1. \A i \in 1 .. 6 : Rank[i] \in Nat
    BY RankTyped
<1>2. CASE Monitor \/ Tick \/ ReadTorn
    <2>1. \/ Initializing
          \/ ReadCommand \/ ReadBlock \/ ReadTorn \/ ReadTimeout \/ Tick
          \/ StartMount \/ Mount \/ MountPartition
          \/ Open \/ OpenNext \/ List \/ ListNext
          \/ Read \/ Seek \/ Copy \/ Loader \/ Launch
        BY <1>2 DEF Monitor, Initializing
    <2>2. Below(Rank', Rank) \/ (AsksAgain /\ Rank' = Rank)
        BY <2>1, InitWinds, BlockWinds, MountWinds, WalkWinds, ReadWinds
    <2> QED BY <1>1, <1>2, <2>2 DEF WindsDown
<1>3. CASE ~(Monitor \/ Tick \/ ReadTorn)
    <2>1. Insert \/ Remove \/ UNCHANGED sdVars
        BY <1>3 DEF SdNext, hazard3_sd_boot, print_status
    <2>2. Rank' = Rank
        BY <2>1, CardOnly
    <2> QED BY <1>1, <1>3, <2>2 DEF WindsDown
<1> QED BY <1>2, <1>3

LEMMA InitWindInv == SdInit => WindInv
<1> SUFFICES ASSUME SdInit PROVE WindInv
    OBVIOUS
<1>1. SdInv
    BY InitSdInv
<1>2. ~mount_ok /\ stage = "prompt" /\ elapsed = 0
    BY DEF SdInit
<1>3. ClockInv
    BY <1>2, SdAssumption DEF ClockInv
<1>4. VolumeCounted /\ WalkBounded /\ ReadBounded
    BY <1>2 DEF VolumeCounted, WalkBounded, ReadBounded, Walking, InRead,
        OnVolume
<1> QED BY <1>1, <1>3, <1>4 DEF WindInv

\* Every command comes nearer to the prompt with each of its steps, whatever the
\* card answers and whatever chains its volume has (hazard3_sd_init, the guards
\* of hazard3_fat_open_83 and of the listing, hazard3_fat_read).
THEOREM CommandWindsDown == SdSpec => [][WindsDown]_sdVars
<1>1. WindInv /\ [SdNext]_sdVars => WindInv'
    <2> SUFFICES ASSUME WindInv, [SdNext]_sdVars PROVE WindInv'
        OBVIOUS
    <2>1. /\ SdInv /\ Stages /\ FsTrue /\ CacheTrue /\ FileTyped /\ AtPlace
          /\ ClockInv /\ VolumeCounted /\ WalkBounded /\ ReadBounded
        BY DEF WindInv, SdInv
    <2>2. SdInv' /\ FsTrue' /\ FileTyped'
        BY <2>1, SdInvStep DEF SdInv
    <2>3. ClockInv' /\ VolumeCounted'
        BY <2>1, ClockStep, CountedStep
    <2>4. WalkBounded'
        BY <2>1, <2>2, <2>3, WalkStep
    <2>5. ReadBounded'
        BY <2>1, <2>2, ReadStep
    <2> QED BY <2>2, <2>3, <2>4, <2>5 DEF WindInv
<1>2. WindInv /\ WindInv' /\ [SdNext]_sdVars => [WindsDown]_sdVars
    BY WindsStep
<1> QED BY <1>1, <1>2, InitWindInv, PTL DEF SdSpec

=============================================================================
