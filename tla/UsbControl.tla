----------------------------- MODULE UsbControl -----------------------------
(***************************************************************************)
(* Control transfers on endpoint 0 of the bootloader                       *)
(* (src/bootloader-serv/fw): the polling loop and the device state of      *)
(* usb.c, the packet machine of usb_ctrl_ep0.c, the standard requests of   *)
(* usb_ctrl_std.c, the transaction engine of the USB core that shares the  *)
(* buffer descriptors with them, and a host.                               *)
(*                                                                         *)
(* The engine answers the host at any moment, also between the moment the  *)
(* firmware has looked at the descriptors and the moment it acts on what   *)
(* it saw.  Any packet of a transaction may be lost or damaged.  The host  *)
(* may give a transfer up, reset the bus or suspend it; the console may    *)
(* detach the device.  Data are counted in units, PktLen of which make a   *)
(* full packet; the k-th unit of request n is <<n, k>>, so a unit that     *)
(* reaches the wrong request is seen.                                      *)
(***************************************************************************)
EXTENDS Integers, Sequences

CONSTANTS
    PktLen,         \* EP0_PKT_LEN
    Requests,       \* the requests the host may make
    Alternates,     \* the alternate settings of the interface
    MaxRequests     \* bound: control transfers in one behaviour

(***************************************************************************)
(* A request: its kind, wLength, wValue, and the room or the data its      *)
(* handler provides for the data stage.                                    *)
(***************************************************************************)
Kind == {"read", "write", "address", "config", "interface", "unknown"}
Request == [kind : Kind, len : Nat, value : Nat, room : Nat]

ASSUME UsbAssumption ==
    /\ PktLen \in Nat \ {0}
    /\ MaxRequests \in Nat
    /\ Requests \subseteq Request
    /\ \A r \in Requests : (r.kind = "read" => r.len > 0)
                           /\ (r.kind \notin {"read", "write"} => r.len = 0)

VARIABLES
    serv,           \* the firmware is built with ULX5M_SERV_TEST
    \* the host
    stage,          \* of the transfer it is making
    hreq, n,        \* the request of this transfer, and how many it has made
    hdata, hdt,     \* data moved so far, data toggle of the next packet
    haddr,          \* the address it uses
    \* the engine
    rst, suspend,   \* bus reset asserted or pending; bus suspended
    evt, cel,       \* notifications not read; lockout of endpoint 0
    setup_bd, out_bd, in_bd, out_dt, in_dt, addr,
    \* the firmware
    state, suspended, conf, intf_alt,       \* of g_usb
    ctrl, req, xfer,                        \* g_usb.ctrl
    pc, seen,       \* where usb_poll stands, and the descriptors as it saw them
    \* history
    accepted,       \* addresses the host has seen assigned since the reset
    acked,          \* writes whose last acknowledge has reached the device
    delivered       \* completions run for writes

hostVars == <<stage, hreq, n, hdata, hdt, haddr>>
busVars == <<rst, suspend>>
bdVars == <<setup_bd, out_bd, in_bd, out_dt, in_dt>>
engineVars == <<evt, cel, bdVars, addr>>
devVars == <<state, suspended, conf, intf_alt>>
ctrlVars == <<ctrl, req, xfer>>
pollVars == <<pc, seen>>
history == <<accepted, acked, delivered>>
vars == <<serv, hostVars, busVars, engineVars, devVars, ctrlVars, pollVars,
          history>>

Stage == {"idle", "setup", "data", "status"}
Rst == {"none", "asserted", "pending"}
BdState == {"none", "data", "stall", "ok", "err"}
DevState == {"disconnected", "connected", "default", "configured"}
Ctrl == {"IDLE", "DATA_IN", "DATA_OUT", "STATUS_DONE_OUT", "STATUS_DONE_IN",
         "STALL"}
PC == {"idle", "evt", "peek", "act"}

Smaller(a, b) == IF a < b THEN a ELSE b

\* Units from + 1 to upto of the data of request id.
Units(id, from, upto) == [k \in 1 .. (upto - from) |-> <<id, from + k>>]

Bd(st, data) == [st |-> st, data |-> data]
NoBd == Bd("none", <<>>)
Ready == Bd("data", <<>>)
StallBd == Bd("stall", <<>>)

NoReq == [kind |-> "unknown", len |-> 0, value |-> 0, room |-> 0, id |-> 0]
NoXfer == [len |-> 0, ofs |-> 0, data |-> <<>>]
Seen(s, o, i) == [setup |-> s, out |-> o, in |-> i]

Init ==
    /\ serv \in BOOLEAN
    /\ stage = "idle" /\ hreq = NoReq /\ n = 0 /\ hdata = <<>> /\ hdt = 1
    /\ haddr = 0
    /\ rst = "none" /\ suspend = FALSE
    /\ evt = FALSE /\ cel = FALSE
    /\ setup_bd = NoBd /\ out_bd = NoBd /\ in_bd = NoBd
    /\ out_dt = 0 /\ in_dt = 0 /\ addr = 0
    /\ state = "connected" /\ suspended = FALSE /\ conf = 0 /\ intf_alt = 0
    /\ ctrl = "IDLE" /\ req = NoReq /\ xfer = NoXfer
    /\ pc = "idle" /\ seen = Seen("none", "none", "none")
    /\ accepted = {} /\ acked = {} /\ delivered = <<>>

----------------------------------------------------------------------------
(***************************************************************************)
(* The host.  It talks to a device it has reset, leaves it the recovery    *)
(* time to notice the reset, and makes one transfer at a time.             *)
(***************************************************************************)
IsRead(r) == r.kind = "read"

\* In a data stage the device sends; in a status stage it is the other way.
DeviceSends == IF stage = "data" THEN IsRead(hreq) ELSE ~IsRead(hreq)

Online == state \notin {"disconnected", "connected"} /\ rst = "none" /\ ~suspend

StartTransfer ==
    /\ Online
    /\ stage = "idle"
    /\ n < MaxRequests
    /\ \E r \in Requests :
           hreq' = [kind |-> r.kind, len |-> r.len, value |-> r.value,
                    room |-> r.room, id |-> n + 1]
    /\ n' = n + 1
    /\ stage' = "setup"
    /\ hdata' = <<>> /\ hdt' = 1
    /\ UNCHANGED <<serv, haddr, busVars, engineVars, devVars, ctrlVars,
                   pollVars, history>>

HostIdle ==
    /\ stage' = "idle" /\ hreq' = NoReq /\ hdata' = <<>> /\ hdt' = 1

GiveUp ==
    /\ stage # "idle"
    /\ HostIdle
    /\ UNCHANGED <<serv, n, haddr, busVars, engineVars, devVars, ctrlVars,
                   pollVars, history>>

BusReset ==
    /\ state # "disconnected"
    /\ rst = "none"
    /\ rst' = "asserted" /\ suspend' = FALSE
    /\ HostIdle
    /\ haddr' = 0
    /\ accepted' = {} /\ acked' = {}
    /\ UNCHANGED <<serv, n, engineVars, devVars, ctrlVars, pollVars, delivered>>

BusResetEnds ==
    /\ rst = "asserted"
    /\ rst' = "pending"
    /\ UNCHANGED <<serv, hostVars, suspend, engineVars, devVars, ctrlVars,
                   pollVars, history>>

Suspend ==
    /\ Online
    /\ stage = "idle"
    /\ suspend' = TRUE
    /\ UNCHANGED <<serv, hostVars, rst, engineVars, devVars, ctrlVars, pollVars,
                   history>>

Resume ==
    /\ suspend
    /\ suspend' = FALSE
    /\ UNCHANGED <<serv, hostVars, rst, engineVars, devVars, ctrlVars, pollVars,
                   history>>

(***************************************************************************)
(* One transaction: the token is heard only at the address of the device.  *)
(* A transaction that is not answered, or answered with NAK, changes       *)
(* nothing and is left out; the host repeats it or gives up.               *)
(***************************************************************************)
Heard == Online /\ haddr = addr

HostMoves(to) ==
    /\ stage' = to
    /\ UNCHANGED <<hreq, n, haddr>>

\* The stage after the data moved so far.
NextStage(data, packet) ==
    IF Len(data) = hreq.len \/ (IsRead(hreq) /\ Len(packet) < PktLen)
    THEN "status" ELSE "data"

SetupTransaction(damaged, ack) ==
    /\ Heard
    /\ stage = "setup"
    /\ ~cel /\ setup_bd.st = "data"
    /\ evt' = TRUE
    /\ IF damaged
       THEN /\ setup_bd' = Bd("err", <<>>)
            /\ UNCHANGED <<cel, out_dt, hostVars>>
       ELSE /\ setup_bd' = Bd("ok", <<hreq>>)
            /\ cel' = TRUE
            /\ out_dt' = 1
            /\ IF ack
               THEN /\ HostMoves(IF hreq.len = 0 THEN "status" ELSE "data")
                    /\ UNCHANGED <<hdata, hdt>>
               ELSE UNCHANGED hostVars
    /\ UNCHANGED <<serv, busVars, out_bd, in_bd, in_dt, addr, devVars, ctrlVars,
                   pollVars, history>>

\* The host has seen the end of the transfer.
HostDone ==
    /\ HostIdle
    /\ UNCHANGED n
    /\ IF hreq.kind = "address"
       THEN haddr' = hreq.value /\ accepted' = accepted \cup {hreq.value}
       ELSE UNCHANGED <<haddr, accepted>>

\* A data packet of the device reaches the host, with this toggle.
HostReceives(packet, dt) ==
    IF dt # hdt THEN UNCHANGED <<hostVars, accepted>>
    ELSE IF stage = "status" THEN HostDone
    ELSE /\ hdata' = hdata \o packet
         /\ stage' = NextStage(hdata', packet)
         /\ hdt' = IF stage' = "status" THEN 1 ELSE 1 - hdt
         /\ UNCHANGED <<hreq, n, haddr, accepted>>

InTransaction(arrives, ack) ==
    /\ Heard
    /\ stage \in {"data", "status"} /\ DeviceSends
    /\ ~cel /\ in_bd.st = "data"
    /\ evt' = TRUE
    /\ IF arrives
       THEN HostReceives(in_bd.data, in_dt)
       ELSE UNCHANGED <<hostVars, accepted>>
    /\ IF arrives /\ ack
       THEN /\ in_bd' = Bd("ok", in_bd.data)
            /\ in_dt' = 1 - in_dt
            /\ acked' = IF stage = "status" /\ in_dt = hdt
                           /\ hreq.kind = "write"
                        THEN acked \cup {hreq.id} ELSE acked
       ELSE UNCHANGED <<in_bd, in_dt, acked>>
    /\ UNCHANGED <<serv, busVars, cel, setup_bd, out_bd, out_dt, addr, devVars,
                   ctrlVars, pollVars, delivered>>

\* The packet the host sends next: data of a write, or an empty status packet.
HostPacket ==
    IF stage = "status" THEN <<>>
    ELSE Units(hreq.id, Len(hdata), Smaller(hreq.len, Len(hdata) + PktLen))

\* The acknowledge of its packet reaches the host.
HostSent ==
    IF stage = "status" THEN HostDone
    ELSE /\ hdata' = hdata \o HostPacket
         /\ stage' = NextStage(hdata', HostPacket)
         /\ hdt' = IF stage' = "status" THEN 1 ELSE 1 - hdt
         /\ UNCHANGED <<hreq, n, haddr, accepted>>

OutTransaction(damaged, ack) ==
    /\ Heard
    /\ stage \in {"data", "status"} /\ ~DeviceSends
    /\ ~cel
    /\ IF damaged
       THEN /\ out_bd.st \in {"data", "stall"}
            /\ out_bd' = Bd("err", <<>>)
            /\ evt' = TRUE
            /\ UNCHANGED <<out_dt, hostVars, accepted>>
       ELSE /\ \/ /\ out_dt # hdt
                  /\ UNCHANGED <<out_bd, out_dt, evt>>
               \/ /\ out_dt = hdt
                  /\ out_bd.st = "data"
                  /\ out_bd' = Bd("ok", HostPacket)
                  /\ out_dt' = 1 - out_dt
                  /\ evt' = TRUE
            /\ IF ack THEN HostSent ELSE UNCHANGED <<hostVars, accepted>>
    /\ UNCHANGED <<serv, busVars, cel, setup_bd, in_bd, in_dt, addr, devVars,
                   ctrlVars, pollVars, acked, delivered>>

\* A descriptor queued for STALL answers so; the host ends the transfer.
StallTransaction(received) ==
    /\ Heard
    /\ stage \in {"data", "status"}
    /\ ~cel
    /\ evt' = TRUE
    /\ IF DeviceSends
       THEN /\ in_bd.st = "stall"
            /\ in_bd' = Bd("ok", <<>>)
            /\ UNCHANGED out_bd
       ELSE /\ out_dt = hdt /\ out_bd.st = "stall"
            /\ out_bd' = Bd("ok", <<>>)
            /\ UNCHANGED in_bd
    /\ IF received
       THEN HostIdle /\ UNCHANGED <<n, haddr>>
       ELSE UNCHANGED hostVars
    /\ UNCHANGED <<serv, busVars, cel, setup_bd, out_dt, in_dt, addr, devVars,
                   ctrlVars, pollVars, history>>

HostStep ==
    \/ StartTransfer \/ GiveUp
    \/ BusReset \/ BusResetEnds \/ Suspend \/ Resume
    \/ \E fault, ack \in BOOLEAN :
           \/ SetupTransaction(fault, ack)
           \/ InTransaction(fault, ack)
           \/ OutTransaction(fault, ack)
    \/ \E received \in BOOLEAN : StallTransaction(received)

----------------------------------------------------------------------------
(***************************************************************************)
(* usb_connect and usb_disconnect, on a key of the console, between two    *)
(* polls.  The pull-up is gone at once, and the host sees the device go.   *)
(***************************************************************************)
usb_disconnect ==
    /\ pc = "idle"
    /\ state # "disconnected"
    /\ state' = "disconnected" /\ suspended' = FALSE
    /\ HostIdle /\ haddr' = 0
    /\ rst' = "none" /\ suspend' = FALSE
    /\ accepted' = {} /\ acked' = {}
    /\ UNCHANGED <<serv, n, engineVars, conf, intf_alt, ctrlVars, pollVars,
                   delivered>>

usb_connect ==
    /\ pc = "idle"
    /\ state = "disconnected"
    /\ state' = "connected"
    /\ UNCHANGED <<serv, hostVars, busVars, engineVars, suspended, conf,
                   intf_alt, ctrlVars, pollVars, history>>

(***************************************************************************)
(* usb_bus_reset: the descriptors, the lockout and the address go; the     *)
(* configuration that was chosen stays.                                    *)
(***************************************************************************)
usb_ep0_reset ==
    /\ ctrl' = "IDLE"
    /\ setup_bd' = Ready /\ out_bd' = NoBd /\ in_bd' = NoBd
    /\ out_dt' = 0 /\ in_dt' = 1

usb_bus_reset ==
    /\ rst' = "none"
    /\ usb_ep0_reset
    /\ cel' = FALSE /\ addr' = 0
    /\ state' = "default"

(***************************************************************************)
(* usb_poll up to the event counter.  A build for the SERV core looks at   *)
(* endpoint 0 even when no event is pending.                               *)
(***************************************************************************)
NextPc == IF evt THEN "evt" ELSE IF serv THEN "peek" ELSE "idle"

PollReset ==
    /\ pc = "idle"
    /\ state # "disconnected"
    /\ rst = "pending"
    /\ usb_bus_reset
    /\ suspended' = suspend
    /\ pc' = IF suspend THEN "idle" ELSE NextPc
    /\ UNCHANGED <<serv, hostVars, suspend, evt, conf, intf_alt, req, xfer,
                   seen, history>>

PollDevice ==
    /\ pc = "idle"
    /\ state \notin {"disconnected", "connected"}
    /\ rst = "none"
    /\ suspended' = suspend
    /\ pc' = IF suspend THEN "idle" ELSE NextPc
    /\ UNCHANGED <<serv, hostVars, busVars, engineVars, state, conf, intf_alt,
                   ctrlVars, seen, history>>

\* Reading the counter clears it, whatever has arrived since it was seen.
ReadEvents ==
    /\ pc = "evt"
    /\ evt' = FALSE
    /\ pc' = "peek"
    /\ UNCHANGED <<serv, hostVars, busVars, cel, bdVars, addr, devVars, ctrlVars,
                   seen, history>>

----------------------------------------------------------------------------
(***************************************************************************)
(* usb_ep0_poll looks at the three descriptors, then acts on what it saw.  *)
(***************************************************************************)
Peek ==
    /\ pc = "peek"
    /\ seen' = Seen(setup_bd.st, out_bd.st, in_bd.st)
    /\ pc' = "act"
    /\ UNCHANGED <<serv, hostVars, busVars, engineVars, devVars, ctrlVars,
                   history>>

(***************************************************************************)
(* The completion callback of a transfer: a standard address is taken from *)
(* the request as it then is; a write hands its data to its handler.       *)
(***************************************************************************)
cb_done ==
    /\ addr' = IF req.kind = "address" THEN req.value ELSE addr
    /\ delivered' = IF req.kind = "write"
                    THEN Append(delivered, [id |-> req.id, data |-> xfer.data])
                    ELSE delivered

AfterAct(next) ==
    /\ pc' = next
    /\ UNCHANGED <<serv, hostVars, busVars, evt, seen, accepted, acked>>

StatusInDone ==
    /\ pc = "act"
    /\ ctrl = "STATUS_DONE_IN" /\ seen.in = "ok"
    /\ ctrl' = "IDLE"
    /\ in_bd' = NoBd
    /\ cb_done
    /\ AfterAct("peek")
    /\ UNCHANGED <<cel, setup_bd, out_bd, out_dt, in_dt, devVars, req, xfer>>

StatusOutDone ==
    /\ pc = "act"
    /\ ctrl = "STATUS_DONE_OUT" /\ "ok" \in {seen.in, seen.out}
    /\ in_bd' = IF seen.in = "ok" \/ serv THEN NoBd ELSE in_bd
    /\ IF seen.out = "ok"
       THEN /\ ctrl' = "IDLE"
            /\ out_bd' = NoBd
            /\ cb_done
       ELSE UNCHANGED <<ctrl, out_bd, addr, delivered>>
    /\ AfterAct("peek")
    /\ UNCHANGED <<cel, setup_bd, out_dt, in_dt, devVars, req, xfer>>

StallRefresh ==
    /\ pc = "act"
    /\ ctrl = "STALL" /\ (seen.in # "stall" \/ seen.out # "stall")
    /\ in_bd' = IF seen.in # "stall" THEN StallBd ELSE in_bd
    /\ out_bd' = IF seen.out # "stall" THEN StallBd ELSE out_bd
    /\ AfterAct("peek")
    /\ UNCHANGED <<cel, setup_bd, out_dt, in_dt, addr, devVars, ctrlVars,
                   delivered>>

\* Fault: every event is looked at, whatever else has been seen.
NotActedIgnored == pc = "act"

\* None of the three steps above.
NotActed ==
    /\ pc = "act"
    /\ ~(ctrl = "STATUS_DONE_IN" /\ seen.in = "ok")
    /\ ~(ctrl = "STATUS_DONE_OUT" /\ "ok" \in {seen.in, seen.out})
    /\ ~(ctrl = "STALL" /\ (seen.in # "stall" \/ seen.out # "stall"))

RetrySetup ==
    /\ NotActed
    /\ seen.setup = "err"
    /\ setup_bd' = Ready
    /\ AfterAct("peek")
    /\ UNCHANGED <<cel, out_bd, in_bd, out_dt, in_dt, addr, devVars, ctrlVars,
                   delivered>>

RetryOut ==
    /\ NotActed
    /\ seen.setup # "err" /\ seen.out = "err"
    /\ out_bd' = Ready
    /\ AfterAct("peek")
    /\ UNCHANGED <<cel, setup_bd, in_bd, out_dt, in_dt, addr, devVars, ctrlVars,
                   delivered>>

(***************************************************************************)
(* usb_handle_control_data: send the next packet of a read, or store the   *)
(* packet of a write and ask for the next.  A packet that is not full ends *)
(* a read, so a read of full packets ends with an empty one.               *)
(***************************************************************************)
PacketUnits(x) == Smaller(PktLen, x.len - x.ofs)

SendPacket(r, x, out) ==
    /\ in_bd' = Bd("data", Units(r.id, x.ofs, x.ofs + PacketUnits(x)))
    /\ xfer' = [x EXCEPT !.ofs = x.ofs + PacketUnits(x)]
    /\ IF PacketUnits(x) < PktLen
       THEN out_bd' = Ready /\ ctrl' = "STATUS_DONE_OUT"
       ELSE out_bd' = out /\ ctrl' = "DATA_IN"

StorePacket(x, packet, in) ==
    LET y == [x EXCEPT !.ofs = x.ofs + Len(packet), !.data = x.data \o packet]
    IN  /\ xfer' = y
        /\ IF y.ofs = y.len
           THEN /\ in_bd' = Bd("data", <<>>)
                /\ out_bd' = NoBd
                /\ ctrl' = "STATUS_DONE_IN"
           ELSE /\ out_bd' = Ready
                /\ in_bd' = in
                /\ ctrl' = "DATA_OUT"

(***************************************************************************)
(* usb_handle_control_request with the handlers of usb_ctrl_std.c and of   *)
(* the function drivers: a configuration or an alternate setting is taken  *)
(* at once, the rest of a request when it completes.                       *)
(***************************************************************************)
\* A descriptor that is there has a length.
get_descriptor(r) == r.room > 0

\* Interfaces belong to the configuration that was chosen.
usb_desc_find_intf(r) == conf # 0 /\ r.value \in Alternates

Handled(r) ==
    CASE r.kind = "unknown" -> FALSE
      [] r.kind = "read" -> get_descriptor(r)
      [] r.kind = "write" -> r.len <= r.room
      [] r.kind = "interface" -> usb_desc_find_intf(r)
      [] OTHER -> TRUE

\* The data stage of a read is as long as its data, if that is shorter.
XferLen(r) == IF IsRead(r) THEN Smaller(r.len, r.room) ELSE r.len

set_configuration(r) ==
    /\ conf' = r.value
    /\ intf_alt' = 0
    /\ state' = IF r.value = 0 THEN "default" ELSE "configured"
    /\ UNCHANGED suspended

set_interface(r) ==
    /\ intf_alt' = r.value
    /\ UNCHANGED <<conf, state, suspended>>

StandardEffect(r) ==
    CASE r.kind = "config" -> set_configuration(r)
      [] r.kind = "interface" -> set_interface(r)
      [] OTHER -> UNCHANGED devVars

\* Fault: the address is taken when it is asked for.
AddressAtSetupEager(r) == IF r.kind = "address" THEN r.value ELSE addr

\* _set_address leaves it to the completion callback.
AddressAtSetup(r) == addr

\* Fault: the data toggle of the last transfer is kept.
ToggleAtSetupKept == in_dt

ToggleAtSetup == 1

HandleSetup ==
    /\ NotActed
    /\ seen.setup = "ok"
    /\ LET r == setup_bd.data[1]
           x == [len |-> XferLen(r), ofs |-> 0, data |-> <<>>]
       IN  /\ req' = r
           /\ addr' = AddressAtSetup(r)
           /\ IF Handled(r)
              THEN /\ StandardEffect(r)
                   /\ IF IsRead(r)
                      THEN SendPacket(r, x, NoBd)
                      ELSE StorePacket(x, <<>>, NoBd)
              ELSE /\ xfer' = NoXfer
                   /\ in_bd' = StallBd /\ out_bd' = StallBd
                   /\ ctrl' = "STALL"
                   /\ UNCHANGED devVars
    /\ in_dt' = ToggleAtSetup
    /\ cel' = FALSE
    /\ setup_bd' = Ready
    /\ AfterAct("idle")
    /\ UNCHANGED <<out_dt, delivered>>

DataOut ==
    /\ NotActed
    /\ seen.setup \notin {"ok", "err"} /\ seen.out = "ok"
    /\ IF ctrl = "DATA_OUT"
       THEN StorePacket(xfer, out_bd.data, in_bd)
       ELSE out_bd' = NoBd /\ UNCHANGED <<in_bd, ctrl, xfer>>
    /\ AfterAct("peek")
    /\ UNCHANGED <<cel, setup_bd, out_dt, in_dt, addr, devVars, req, delivered>>

DataIn ==
    /\ NotActed
    /\ seen.setup \notin {"ok", "err"} /\ seen.out \notin {"ok", "err"}
    /\ seen.in = "ok"
    /\ IF ctrl = "DATA_IN"
       THEN SendPacket(req, xfer, out_bd)
       ELSE in_bd' = NoBd /\ UNCHANGED <<out_bd, ctrl, xfer>>
    /\ AfterAct("peek")
    /\ UNCHANGED <<cel, setup_bd, out_dt, in_dt, addr, devVars, req, delivered>>

\* Fault: the events are forgotten when nothing is left to do.
NothingToDoForgets ==
    /\ NotActed
    /\ seen.setup \notin {"ok", "err"} /\ seen.out \notin {"ok", "err"}
    /\ seen.in # "ok"
    /\ pc' = "idle"
    /\ evt' = FALSE
    /\ UNCHANGED <<serv, hostVars, busVars, cel, bdVars, addr, devVars, ctrlVars,
                   seen, history>>

NothingToDo ==
    /\ NotActed
    /\ seen.setup \notin {"ok", "err"} /\ seen.out \notin {"ok", "err"}
    /\ seen.in # "ok"
    /\ AfterAct("idle")
    /\ UNCHANGED <<cel, bdVars, addr, devVars, ctrlVars, delivered>>

Poll ==
    \/ PollReset \/ PollDevice \/ ReadEvents \/ Peek
    \/ StatusInDone \/ StatusOutDone \/ StallRefresh
    \/ RetrySetup \/ RetryOut \/ HandleSetup \/ DataOut \/ DataIn
    \/ NothingToDo

Next ==
    \/ HostStep
    \/ usb_connect
    \/ usb_disconnect
    \/ Poll

Spec == Init /\ [][Next]_vars

----------------------------------------------------------------------------
(***************************************************************************)
(* The main loop polls for ever; a host that has started a transfer goes   *)
(* on with it, and not every packet is lost.                               *)
(***************************************************************************)
GoodTransaction ==
    \/ SetupTransaction(FALSE, TRUE)
    \/ InTransaction(TRUE, TRUE)
    \/ OutTransaction(FALSE, TRUE)
    \/ StallTransaction(TRUE)

FairSpec ==
    /\ Spec
    /\ WF_vars(Poll) /\ WF_vars(BusResetEnds)
    /\ SF_vars(GoodTransaction)

TypeOK ==
    /\ serv \in BOOLEAN
    /\ stage \in Stage /\ n \in 0 .. MaxRequests
    /\ hdt \in {0, 1} /\ out_dt \in {0, 1} /\ in_dt \in {0, 1}
    /\ rst \in Rst /\ suspend \in BOOLEAN
    /\ evt \in BOOLEAN /\ cel \in BOOLEAN
    /\ {setup_bd.st, out_bd.st, in_bd.st} \subseteq BdState
    /\ state \in DevState /\ suspended \in BOOLEAN
    /\ ctrl \in Ctrl /\ pc \in PC
    /\ xfer.ofs \in 0 .. xfer.len
    /\ Len(out_bd.data) <= PktLen /\ Len(in_bd.data) <= PktLen

\* The device answers at an address other than 0 only when the host has seen
\* the end of the transfer that assigned it: a device that moved earlier, or on
\* a request the host took for failed, could not be reached any more.
AddressAssigned == rst = "none" /\ state \in {"default", "configured"} =>
                       addr = 0 \/ addr \in accepted

\* A write whose end host and device have both seen reaches its handler once,
\* whole and before any later request, in spite of repeated packets, of requests
\* that interrupt it and of what the firmware saw before the engine went on.
DeliveredIds == {delivered[i].id : i \in 1 .. Len(delivered)}

WritesDelivered ==
    /\ \A i \in 1 .. Len(delivered) :
           /\ delivered[i].data = Units(delivered[i].id, 0, Len(delivered[i].data))
           /\ \A j \in 1 .. (i - 1) : delivered[j].id < delivered[i].id
    /\ \A id \in acked \ DeliveredIds : ctrl = "STATUS_DONE_IN" /\ req.id = id

\* A host that has all packets of a read holds the data of its own request, from
\* the first unit on, as many as it asked for or as there are.
ReadExact ==
    stage = "status" /\ IsRead(hreq) =>
        hdata = Units(hreq.id, 0, Smaller(hreq.len, hreq.room))

\* Every transfer ends, with event gating and without, but for two cases in which
\* the host must give up.  The acknowledge of a last packet that is full was
\* lost: the device waits for it and has no buffer for the status packet.  Or the
\* acknowledge of a new address was lost: the device stays at the old one.
LastAckLost ==
    /\ stage = "status" /\ IsRead(hreq)
    /\ ctrl = "DATA_IN" /\ in_bd.st = "data" /\ Len(in_bd.data) = PktLen

AddressAckLost ==
    /\ haddr # addr
    /\ ctrl = "STATUS_DONE_IN" /\ in_bd.st = "data"

TransferEnds ==
    stage # "idle" ~> (stage = "idle" \/ LastAckLost \/ AddressAckLost)
=============================================================================
