------------------------------- MODULE SaoBus -------------------------------
(***************************************************************************)
(* The I2C bus of the SAO connector and its two masters: Hazard3 with the  *)
(* driver of src/doom/hazard3_sao.c, which gives the bridge one command    *)
(* after the other, and the ESP32 with the client of                       *)
(* src/examples/esp32-sao-shared, which sends whole transactions to a      *)
(* proxy in the FPGA over a serial line.                                   *)
(*                                                                         *)
(* The bridge, the proxy and the device on the bus are hardware.  A        *)
(* sequence of Hazard3 that has begun goes on to its STOP before the proxy *)
(* is granted the bus; a command that would begin one is rejected while    *)
(* the proxy wants it or has it.  An accepted command clears the flags of  *)
(* the one before.  A START that times out has not taken the bus, and a    *)
(* STOP leaves it in any case.  The device has a register pointer, which   *)
(* is set by a write and moves with every byte; its position register is   *)
(* not written.  A byte it sends is written <<register, value>>.           *)
(***************************************************************************)
EXTENDS Integers, Sequences

CONSTANTS
    Device, Absent, Invalid,    \* an address that answers, one that does
                                \* not, and one above 0x7f
    Reg, Value,
    Position, Led,              \* the registers the client uses
    MaxFaults                   \* bound on lost frames, late answers and
                                \* restarts of the ESP32

ASSUME SaoAssumption ==
    /\ Device # Absent /\ Device # Invalid /\ Absent # Invalid
    /\ Position \in Reg /\ Led \in Reg /\ Position # Led
    /\ {0, 1} \subseteq Value
    /\ MaxFaults \in Nat

VARIABLES
    bus,            \* who is between START and STOP, and the device's turn
    regs, ptr,      \* the device
    engine,         \* the bridge: its command and its flags
    drv,            \* the call the driver is in
    ret,            \* what the last call returned
    acted,          \* history: what the device took from this call
    proxy,          \* the proxy and the request it has
    toProxy, toEsp, \* the serial line
    esp,            \* the client: step of app_main, and where it is in it
    got,            \* its last result
    faults,         \* for the bound
    restarts        \* history: how often the ESP32 has restarted

device == <<bus, regs, ptr>>
hazard3 == <<engine, drv, ret, acted>>
line == <<toProxy, toEsp>>
espVars == <<proxy, line, esp, got, faults, restarts>>
saoVars == <<device, hazard3, espVars>>

Address == {Device, Absent, Invalid}
\* Where nothing answers, and where no value is sent, one of each does.
Operands(op) ==
    [address : {Device}, reg : IF op = "probe" THEN {Position} ELSE Reg,
     value : IF op = "write" THEN Value ELSE {0}]
    \cup [address : {Absent, Invalid}, reg : {Position}, value : {0}]

Calls ==
    {c \in [op : {"probe", "read", "write"}, address : Address, reg : Reg,
            value : Value] :
        [address |-> c.address, reg |-> c.reg, value |-> c.value]
            \in Operands(c.op)}
    \cup [op : {"scan", "recover"}, address : {Device}, reg : {Position},
          value : {0}]

NoCall == [op |-> "none", address |-> Device, reg |-> Position, value |-> 0]
NoValue == <<"none", 0>>
NoResult == [call |-> NoCall, rc |-> "OK", value |-> NoValue]
Next1(r) == CHOOSE n \in Reg : n # r \/ Reg = {r}

\* What app_main does, in order.
EspPlan ==
    <<[cmd |-> "info", address |-> "zero", reg |-> Position, value |-> 0],
      [cmd |-> "recover", address |-> "zero", reg |-> Position, value |-> 0],
      [cmd |-> "probe", address |-> Absent, reg |-> Position, value |-> 0],
      [cmd |-> "probe", address |-> Device, reg |-> Position, value |-> 0],
      [cmd |-> "read", address |-> Device, reg |-> Position, value |-> 0],
      [cmd |-> "write", address |-> Device, reg |-> Led, value |-> 1],
      [cmd |-> "read", address |-> Device, reg |-> Led, value |-> 0],
      [cmd |-> "write", address |-> Device, reg |-> Led, value |-> 0]>>

NoRequest == EspPlan[1]
NotYet == [rc |-> "none", request |-> NoRequest, value |-> NoValue]

SaoInit ==
    /\ bus = [by |-> "none", turn |-> "idle"]
    /\ regs = [r \in Reg |-> 0] /\ ptr = Position
    /\ engine = [cmd |-> "none", byte |-> NoValue, done |-> FALSE, ack |-> FALSE,
                 timeout |-> FALSE, rejected |-> FALSE, rx |-> NoValue]
    /\ drv = [call |-> NoCall, script |-> <<>>, rc |-> "OK", left |-> {},
              value |-> NoValue, pc |-> "idle"]
    /\ ret = NoResult
    /\ acted = <<>>
    /\ proxy = [state |-> "idle", request |-> NoRequest]
    /\ toProxy = <<>> /\ toEsp = <<>>
    /\ esp = [step |-> 1, waiting |-> FALSE]
    /\ got = NotYet
    /\ faults = 0 /\ restarts = 0

----------------------------------------------------------------------------
(* The device on the bus: what one byte does to it.                        *)

DeviceStart(by) == bus' = [by |-> by, turn |-> "address"]
DeviceStop == bus' = [by |-> "none", turn |-> "idle"]

\* Whether the byte is acknowledged.
Acked(byte) ==
    CASE bus.turn = "address" -> byte[1] = Device
      [] bus.turn \in {"reg", "data"} -> TRUE
      [] OTHER -> FALSE

DeviceTakes(byte) ==
    CASE bus.turn = "address" ->
           /\ bus' = [bus EXCEPT !.turn = IF byte[1] # Device THEN "deaf"
                                          ELSE byte[2]]
           /\ UNCHANGED <<regs, ptr, acted>>
      [] bus.turn = "reg" ->
           /\ ptr' = byte[1] /\ bus' = [bus EXCEPT !.turn = "data"]
           /\ UNCHANGED <<regs, acted>>
      [] bus.turn = "data" ->
           /\ regs' = [regs EXCEPT ![ptr] = IF ptr = Position THEN @ ELSE byte[1]]
           /\ ptr' = Next1(ptr)
           /\ acted' = Append(acted, <<ptr, byte[1]>>)
           /\ UNCHANGED bus
      [] OTHER -> UNCHANGED <<device, acted>>

----------------------------------------------------------------------------
(* The bridge, as Hazard3 sees it.                                         *)

Wanted == proxy.state \in {"pending", "owns"}

Command(c) ==
    IF Wanted /\ bus.by # "hazard3"
    THEN engine' = [engine EXCEPT !.rejected = TRUE, !.done = FALSE,
                                  !.ack = FALSE, !.timeout = FALSE]
    ELSE engine' = [engine EXCEPT !.cmd = c[1], !.byte = c[2], !.done = FALSE,
                                  !.ack = FALSE, !.timeout = FALSE,
                                  !.rejected = FALSE]

Completed(timeout, ack, rx) ==
    engine' = [engine EXCEPT !.cmd = "none", !.byte = NoValue, !.done = TRUE,
                             !.ack = ack, !.timeout = timeout, !.rx = rx]

KeepsCall == UNCHANGED <<drv, ret, espVars>>

EngineStart ==
    /\ engine.cmd = "start"
    /\ DeviceStart("hazard3") /\ Completed(FALSE, FALSE, NoValue)
    /\ UNCHANGED <<regs, ptr, acted>> /\ KeepsCall

EngineStop ==
    /\ engine.cmd = "stop"
    /\ DeviceStop
    /\ \E timeout \in BOOLEAN : Completed(timeout, FALSE, NoValue)
    /\ UNCHANGED <<regs, ptr, acted>> /\ KeepsCall

EngineWrite ==
    /\ engine.cmd = "write"
    /\ Completed(FALSE, Acked(engine.byte), NoValue)
    /\ DeviceTakes(engine.byte)
    /\ KeepsCall

\* The one byte that is read is not acknowledged.
EngineRead ==
    /\ engine.cmd = "read" /\ bus.turn = "read"
    /\ Completed(FALSE, FALSE, <<ptr, regs[ptr]>>)
    /\ ptr' = Next1(ptr) /\ bus' = [bus EXCEPT !.turn = "deaf"]
    /\ UNCHANGED <<regs, acted>> /\ KeepsCall

EngineRecover ==
    /\ engine.cmd = "recover"
    /\ \E recovered \in BOOLEAN : Completed(FALSE, recovered, NoValue)
    /\ UNCHANGED <<device, acted>> /\ KeepsCall

\* The clock is stretched beyond 10 ms.
EngineTimesOut ==
    /\ engine.cmd \in {"start", "write", "read"}
    /\ Completed(TRUE, FALSE, NoValue)
    /\ UNCHANGED <<device, acted>> /\ KeepsCall

Hangs ==
    /\ engine.cmd \notin {"none", "hung", "abort"}
    /\ faults < MaxFaults /\ faults' = faults + 1
    /\ engine' = [engine EXCEPT !.cmd = "hung"]
    /\ UNCHANGED <<device, drv, ret, acted, proxy, line, esp, got, restarts>>

Engine ==
    \/ EngineStart \/ EngineStop \/ EngineWrite \/ EngineRead
    \/ EngineRecover \/ EngineTimesOut \/ Hangs

----------------------------------------------------------------------------
(* hazard3_sao.c                                                           *)

AddressWrite(a) == <<"write", <<a, "reg">>>>
AddressRead(a) == <<"write", <<a, "read">>>>
Byte(b) == <<"write", <<b, "byte">>>>
START == <<"start", NoValue>>
STOP == <<"stop", NoValue>>
READ == <<"read", NoValue>>
RECOVER == <<"recover", NoValue>>

probe(c) == <<START, AddressWrite(c.address), STOP>>

write_reg8(c) ==
    <<START, AddressWrite(c.address), Byte(c.reg), Byte(c.value), STOP>>

\* Fault: the bus is left between the two halves of a read.
ReadInTwo(c) ==
    <<START, AddressWrite(c.address), Byte(c.reg), STOP,
      START, AddressRead(c.address), READ, STOP>>

read_reg8(c) ==
    <<START, AddressWrite(c.address), Byte(c.reg),
      START, AddressRead(c.address), READ, STOP>>

Script(c) ==
    CASE c.op \in {"probe", "scan"} -> probe(c)
      [] c.op = "write" -> write_reg8(c)
      [] c.op = "read" -> read_reg8(c)
      [] c.op = "recover" -> <<RECOVER>>

DriverIdle == drv.pc = "idle"

Returned(c, rc, value) ==
    /\ ret' = [call |-> c, rc |-> rc, value |-> value]
    /\ drv' = [drv EXCEPT !.pc = "returned", !.call = NoCall, !.script = <<>>,
                          !.rc = "OK", !.left = {}, !.value = NoValue]

\* The caller has taken the result.
Taken ==
    /\ drv.pc = "returned"
    /\ drv' = [drv EXCEPT !.pc = "idle"]
    /\ ret' = NoResult /\ acted' = <<>>
    /\ UNCHANGED <<device, engine, espVars>>

\* A call begins; an address above 0x7f is refused.  The scan probes one
\* address after the other, here Device and Absent.
Begin(c) ==
    /\ DriverIdle
    /\ UNCHANGED acted
    /\ IF c.address = Invalid
       THEN Returned(c, "ARGUMENT", NoValue)
       ELSE /\ drv' = [call |-> c, script |-> Script(c), rc |-> "OK",
                       left |-> IF c.op = "scan" THEN {Absent} ELSE {},
                       value |-> NoValue, pc |-> "issue"]
            /\ UNCHANGED ret
    /\ UNCHANGED <<device, engine, espVars>>

\* SAO_COMMAND, and SAO_TXDATA before it.
Issue ==
    /\ drv.pc = "issue"
    /\ Command(Head(drv.script))
    /\ drv' = [drv EXCEPT !.pc = "wait"]
    /\ UNCHANGED <<device, ret, acted, espVars>>

\* sao_wait_done, sao_write_byte, hazard3_sao_recover
Outcome ==
    CASE engine.rejected -> "REJECTED"
      [] ~engine.rejected /\ engine.timeout -> "TIMEOUT"
      [] ~engine.rejected /\ ~engine.timeout /\ ~engine.ack
             /\ Head(drv.script)[1] = "write" -> "NACK"
      [] ~engine.rejected /\ ~engine.timeout /\ ~engine.ack
             /\ Head(drv.script)[1] = "recover" -> "TIMEOUT"
      [] OTHER -> "OK"

Answered == engine.rejected \/ (engine.cmd = "none" /\ engine.done)

First == Len(drv.script) = Len(Script(drv.call))

\* Fault: a command that fails ends the call.
EndsWithout(rc) == rc # "OK"

\* A first START that fails ends the call; any other failure goes to STOP.
EndsCall(rc) == First /\ rc # "OK"

\* The call ends, or the scan goes on with the next address.
Ends(rc, value) ==
    IF drv.left # {}
    THEN LET a == CHOOSE x \in drv.left : TRUE
             c == [drv.call EXCEPT !.address = a]
         IN /\ drv' = [drv EXCEPT !.call = c, !.script = Script(c),
                                  !.left = @ \ {a}, !.rc = "OK",
                                  !.pc = "issue"]
            /\ UNCHANGED ret
    ELSE Returned(drv.call, rc, value)

\* What the driver does with the outcome of a command.
Seen(outcome) ==
    LET first == Head(drv.script)
        rc == IF drv.rc = "OK" THEN outcome ELSE drv.rc
        value == IF first = READ /\ outcome = "OK" THEN engine.rx ELSE drv.value
    IN IF EndsCall(outcome) \/ Len(drv.script) = 1
       THEN Ends(rc, value)
       ELSE /\ drv' = [drv EXCEPT !.rc = rc, !.value = value, !.pc = "issue",
                           !.script = IF rc = "OK" THEN Tail(@) ELSE <<STOP>>]
            /\ UNCHANGED ret

See ==
    /\ drv.pc = "wait" /\ Answered
    /\ Seen(Outcome)
    /\ UNCHANGED <<device, engine, acted, espVars>>

\* The spins run out: ABORT, which leaves the bus.
SpinsRunOut ==
    /\ drv.pc = "wait" /\ engine.cmd = "hung"
    /\ engine' = [engine EXCEPT !.cmd = "none", !.byte = NoValue, !.done = TRUE]
    /\ IF bus.by = "hazard3" THEN DeviceStop ELSE UNCHANGED bus
    /\ Seen("TIMEOUT")
    /\ UNCHANGED <<regs, ptr, acted, espVars>>

Driver == Issue \/ See \/ SpinsRunOut

----------------------------------------------------------------------------
(* The proxy.                                                              *)

Receive ==
    /\ proxy.state = "idle" /\ toProxy # <<>>
    /\ toProxy' = Tail(toProxy)
    /\ proxy' = [state |-> IF Head(toProxy).cmd = "info" THEN "answer"
                           ELSE "pending",
                 request |-> Head(toProxy)]
    /\ UNCHANGED <<device, hazard3, toEsp, esp, got, faults, restarts>>

Grant ==
    /\ proxy.state = "pending"
    /\ bus.by = "none" /\ engine.cmd = "none"
    /\ proxy' = [proxy EXCEPT !.state = "owns"]
    /\ bus' = [bus EXCEPT !.by = "esp"]
    /\ UNCHANGED <<regs, ptr, hazard3, line, esp, got, faults, restarts>>

Reply(status, value) ==
    /\ toEsp' = Append(toEsp, [status |-> status, cmd |-> proxy.request.cmd,
                               address |-> proxy.request.address,
                               value |-> value])
    /\ proxy' = [proxy EXCEPT !.state = "idle"]
    /\ UNCHANGED <<hazard3, toProxy, esp, got, faults, restarts>>

Info ==
    /\ proxy.state = "answer"
    /\ Reply("OK", NoValue)
    /\ UNCHANGED device

\* The transaction, with its STOP or ABORT.
Transact ==
    /\ proxy.state = "owns"
    /\ DeviceStop
    /\ LET r == proxy.request IN
       \/ r.address = Absent /\ Reply("NACK", NoValue) /\ UNCHANGED <<regs, ptr>>
       \/ Reply("TIMEOUT", NoValue) /\ UNCHANGED regs /\ ptr' \in {ptr, r.reg}
       \/ /\ r.address # Absent
          /\ CASE r.cmd = "read" ->
                    /\ Reply("OK", <<r.reg, regs[r.reg]>>)
                    /\ ptr' = Next1(r.reg) /\ UNCHANGED regs
               [] r.cmd = "write" ->
                    /\ Reply("OK", NoValue)
                    /\ regs' = [regs EXCEPT ![r.reg] = r.value]
                    /\ ptr' = Next1(r.reg)
               [] OTHER -> Reply("OK", NoValue) /\ UNCHANGED <<regs, ptr>>

GrantTimesOut ==
    /\ proxy.state = "pending" /\ bus.by = "hazard3"
    /\ Reply("BUSY", NoValue)
    /\ UNCHANGED device

\* A frame is lost in either direction.
Lose ==
    /\ faults < MaxFaults /\ faults' = faults + 1
    /\ \/ toProxy # <<>> /\ toProxy' = Tail(toProxy) /\ UNCHANGED toEsp
       \/ toEsp # <<>> /\ toEsp' = Tail(toEsp) /\ UNCHANGED toProxy
    /\ UNCHANGED <<device, hazard3, proxy, esp, got, restarts>>

Proxy == Receive \/ Grant \/ Info \/ Transact \/ GrantTimesOut \/ Lose

----------------------------------------------------------------------------
(* The client on the ESP32.                                                *)

EspRunning == esp.step <= Len(EspPlan)
Request == EspPlan[esp.step]

transact ==
    /\ EspRunning /\ ~esp.waiting
    /\ toProxy' = Append(toProxy, Request)
    /\ esp' = [esp EXCEPT !.waiting = TRUE]
    /\ got' = NotYet
    /\ UNCHANGED <<device, hazard3, proxy, toEsp, faults, restarts>>

\* Fault: whatever comes is taken for the answer.
AnyAnswer(answer) == answer.status

Result(answer) ==
    IF answer.cmd # Request.cmd \/ answer.address # Request.address
    THEN "PROTOCOL" ELSE answer.status

\* app_main: where it goes on with a result.
Ended == Len(EspPlan) + 1

FollowingStep(rc) ==
    CASE Request.cmd = "info" -> IF rc = "OK" THEN esp.step + 1 ELSE esp.step
      [] Request.cmd = "read" /\ Request.reg = Position ->
             IF rc = "OK" THEN esp.step + 1 ELSE Ended
      [] Request.cmd = "write" /\ Request.value = 1 ->
             IF rc = "OK" THEN esp.step + 1 ELSE esp.step + 2
      [] OTHER -> esp.step + 1

GoesOn(rc, value) ==
    /\ esp' = [step |-> FollowingStep(rc), waiting |-> FALSE]
    /\ got' = [rc |-> rc, request |-> Request, value |-> value]

receive_response ==
    /\ esp.waiting /\ toEsp # <<>>
    /\ LET answer == Head(toEsp) IN GoesOn(Result(answer), answer.value)
    /\ toEsp' = Tail(toEsp)
    /\ UNCHANGED <<device, hazard3, proxy, toProxy, faults, restarts>>

\* 250 ms pass: the answer is lost, or late.
NothingComes == toProxy = <<>> /\ toEsp = <<>> /\ proxy.state = "idle"

TimesOut ==
    /\ esp.waiting
    /\ \/ NothingComes /\ UNCHANGED faults
       \/ ~NothingComes /\ toEsp = <<>> /\ faults < MaxFaults /\ faults' = faults + 1
    /\ GoesOn("UART", NoValue)
    /\ UNCHANGED <<device, hazard3, proxy, line, restarts>>

\* The ESP32 restarts; sao_fpga_bridge_init flushes what has arrived.
Restart ==
    /\ faults < MaxFaults /\ faults' = faults + 1
    /\ esp' = [step |-> 1, waiting |-> FALSE]
    /\ toEsp' = <<>>
    /\ got' = NotYet
    /\ restarts' = restarts + 1
    /\ UNCHANGED <<device, hazard3, proxy, toProxy>>

Client == transact \/ receive_response \/ TimesOut \/ Restart

SaoNext == Engine \/ Driver \/ Proxy \/ Client

----------------------------------------------------------------------------
\* A call that returned OK did what it says: the value read is that of the
\* register that was asked for, the value written went to that register and
\* nothing else was written, and the device that was probed is there.  The
\* ESP32 uses the same register pointer in between.
ResultTrue ==
    drv.pc = "returned" /\ ret.rc = "OK" =>
        CASE ret.call.op = "read" -> ret.value[1] = ret.call.reg /\ acted = <<>>
          [] ret.call.op = "write" ->
                 acted = <<<<ret.call.reg, ret.call.value>>>>
          [] ret.call.op = "probe" -> ret.call.address = Device
          [] OTHER -> TRUE

\* A value the client takes for that of a register is of that register,
\* whichever frames were lost and whichever answers came late, although an
\* answer does not name its register, as long as the client has restarted at
\* most once: the order of its plan and the failures that end it keep the
\* answers of two reads apart.  (After two restarts requests of three runs can
\* be on the line, and the answer of an earlier read is taken.)
EspValueTrue ==
    restarts <= 1 /\ got.rc = "OK" /\ got.request.cmd = "read" =>
        got.value[1] = got.request.reg
=============================================================================
