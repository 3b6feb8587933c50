----------------------------- MODULE I2cDriver -----------------------------
(***************************************************************************)
(* The users of the SAO driver on Hazard3: the `sao` and `i2c` commands of *)
(* the monitor (src/src/sao_console.c) and the I2CDriver screen            *)
(* (src/src/i2cdriver_hdmi.c) with its prompt for hexadecimal operands.    *)
(* The screen itself is in HdmiVideo: here a presentation succeeds or      *)
(* fails.  What is drawn (the heat map, the log, the trace) is left out;   *)
(* an operand is chosen when its prompt is executed, of which only the     *)
(* number of digits is kept.                                               *)
(***************************************************************************)
EXTENDS SaoBus

VARIABLES
    where,          \* "prompt" of the monitor, or of the screen: "draw",
                    \* "key", "call"
    mode, length,   \* ui_prompt_mode, ui_prompt_length
    clkdiv          \* the I2C rate, kHz

guiVars == <<where, mode, length, clkdiv>>
vars == <<saoVars, guiVars>>

SAO_I2C_HZ == 100

Init ==
    /\ SaoInit
    /\ where = "prompt" /\ mode = "none" /\ length = 0
    /\ clkdiv = SAO_I2C_HZ

----------------------------------------------------------------------------
(* The console of the monitor.                                             *)

\* execute_line and execute_sao; an address above 0x7f is not even passed.
ConsoleCommand ==
    /\ where = "prompt"
    /\ \E c \in Calls : c.address # Invalid /\ Begin(c)
    /\ UNCHANGED guiVars

\* Its result is printed.
ConsoleResult ==
    /\ where = "prompt"
    /\ Taken
    /\ UNCHANGED guiVars

\* command_gui: the bridge and the display are there.
EnterGui ==
    /\ where = "prompt" /\ DriverIdle
    /\ where' = "draw"
    /\ mode' = "none" /\ length' = 0
    /\ clkdiv' = SAO_I2C_HZ
    /\ UNCHANGED saoVars

----------------------------------------------------------------------------
(* The screen.                                                             *)

hazard3_sao_init(rate) == clkdiv' = rate

\* The prompt starts empty when the screen is entered again.
Leaves == where' = "prompt" /\ mode' = "none" /\ length' = 0

Closes == hazard3_sao_init(SAO_I2C_HZ)

\* refresh_screen; when it fails, the screen is left.
Draw ==
    /\ where = "draw" /\ DriverIdle
    /\ \/ where' = "key" /\ UNCHANGED <<mode, length, clkdiv>>
       \/ Leaves /\ Closes
    /\ UNCHANGED saoVars

Key == where = "key" /\ DriverIdle

Redraws == where' = "draw" /\ UNCHANGED <<clkdiv, saoVars>>

\* The status is drawn again every 200 ms.
Refresh ==
    /\ Key
    /\ Redraws /\ UNCHANGED <<mode, length>>

\* Q, Ctrl-X, and Escape outside a prompt.
Quit ==
    /\ Key
    /\ Leaves
    /\ hazard3_sao_init(SAO_I2C_HZ)
    /\ UNCHANGED saoVars

\* 1 and 4
set_speed ==
    /\ Key /\ mode = "none"
    /\ \E rate \in {100, 400} : hazard3_sao_init(rate)
    /\ where' = "draw"
    /\ UNCHANGED <<saoVars, mode, length>>

\* P, R and W
prompt_begin ==
    /\ Key /\ mode = "none"
    /\ mode' \in {"probe", "read", "write"} /\ length' = 0
    /\ Redraws

prompt_required ==
    CASE mode = "probe" -> 2 [] mode = "read" -> 4 [] mode = "write" -> 6
      [] OTHER -> 0

Digit ==
    /\ Key /\ mode # "none"
    /\ length < prompt_required /\ length' = length + 1
    /\ Redraws /\ UNCHANGED mode

Backspace ==
    /\ Key /\ mode # "none"
    /\ length' = IF length = 0 THEN 0 ELSE length - 1
    /\ Redraws /\ UNCHANGED mode

Cancel ==
    /\ Key /\ mode # "none"
    /\ mode' = "none" /\ length' = 0
    /\ Redraws

\* prompt_execute
Incomplete ==
    /\ Key /\ mode # "none" /\ length # prompt_required
    /\ Redraws /\ UNCHANGED <<mode, length>>

\* perform_probe, perform_read, perform_write, perform_recover and
\* perform_scan: the call, and what the screen says of it.
Performs(c) ==
    /\ Begin(c)
    /\ where' = "call"
    /\ UNCHANGED clkdiv

prompt_execute ==
    /\ Key /\ mode # "none" /\ length = prompt_required
    /\ \E c \in Calls : c.op = mode /\ Performs(c)
    /\ mode' = "none" /\ length' = 0

\* S and X
ScanOrRecover ==
    /\ Key /\ mode = "none"
    /\ \E c \in Calls : c.op \in {"scan", "recover"} /\ Performs(c)
    /\ UNCHANGED <<mode, length>>

Performed ==
    /\ where = "call"
    /\ Taken
    /\ where' = "draw"
    /\ UNCHANGED <<mode, length, clkdiv>>

Screen ==
    \/ Draw \/ Refresh \/ Quit \/ set_speed
    \/ prompt_begin \/ Digit \/ Backspace \/ Cancel \/ Incomplete
    \/ prompt_execute \/ ScanOrRecover \/ Performed

Next ==
    \/ SaoNext /\ UNCHANGED guiVars
    \/ ConsoleCommand \/ ConsoleResult \/ EnterGui \/ Screen

Spec == Init /\ [][Next]_vars

----------------------------------------------------------------------------
TypeOK ==
    /\ bus.by \in {"none", "hazard3", "esp"}
    /\ bus.turn \in {"idle", "address", "reg", "data", "read", "deaf"}
    /\ regs \in [Reg -> Value] /\ ptr \in Reg
    /\ drv.pc \in {"idle", "issue", "wait", "returned"} /\ drv.call.address \in {Device, Absent}
    /\ proxy.state \in {"idle", "pending", "owns", "answer"}
    /\ esp.step \in 1 .. Ended /\ esp.waiting \in BOOLEAN
    /\ where \in {"prompt", "draw", "key", "call"}
    /\ mode \in {"none", "probe", "read", "write"} /\ length \in 0 .. 6
    /\ clkdiv \in {100, 400}

\* Between its calls Hazard3 does not hold the bus, whatever failed in them,
\* so the ESP32 is never kept off it; and the monitor finds the bus at its
\* documented rate, however the screen was left.
BusReleased ==
    /\ drv.pc \in {"idle", "returned"} => bus.by # "hazard3"
    /\ where = "prompt" => clkdiv = SAO_I2C_HZ
=============================================================================
