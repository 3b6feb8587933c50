-------------------------- MODULE UsbControlProofs --------------------------
(***************************************************************************)
(* The control endpoint keeps its promises to the host, for every set of   *)
(* requests, every length of a packet and every number of transfers.       *)
(*                                                                         *)
(* SeenTrue says why a firmware that acts on descriptors it looked at      *)
(* earlier is not misled: the engine leaves alone what it has answered,    *)
(* and answers nothing while a SETUP packet waits.  The shapes say what    *)
(* the descriptors hold in each state of the endpoint; Link, how far host  *)
(* and device can be apart in a transfer, with the data toggles telling    *)
(* on which side a packet is; Before, that nothing of a transfer is done   *)
(* when its SETUP packet comes again.                                      *)
(*                                                                         *)
(* ControlTypeCorrect adds Fits: no packet is longer than its buffer, and  *)
(* no transfer runs past its length.                                       *)
(***************************************************************************)
EXTENDS UsbControl, SequenceTheorems, TLAPS

Live == rst = "none" /\ state \in {"default", "configured"}

\* What the host has asked for, as it stands in the SETUP packet.
HostReq == [kind : Kind, len : Nat, value : Nat, room : Nat, id : Nat]

\* Only reads and writes have a data stage, and a read always has one.
Asked(r) ==
    /\ IsRead(r) => r.len > 0
    /\ r.kind \notin {"read", "write"} => r.len = 0

Unit == Nat \X Nat
Descriptor == [st : BdState, data : Seq(Unit)]

Types ==
    /\ serv \in BOOLEAN
    /\ stage \in Stage /\ hreq \in HostReq /\ n \in Nat
    /\ hdata \in Seq(Unit) /\ hdt \in {0, 1}
    /\ rst \in Rst
    /\ cel \in BOOLEAN
    /\ setup_bd \in [st : BdState, data : Seq(HostReq)]
    /\ out_bd \in Descriptor /\ in_bd \in Descriptor
    /\ out_dt \in {0, 1} /\ in_dt \in {0, 1}
    /\ addr \in Nat
    /\ state \in DevState /\ ctrl \in Ctrl
    /\ req \in HostReq
    /\ xfer \in [len : Nat, ofs : Nat, data : Seq(Unit)]
    /\ pc \in PC
    /\ seen \in [setup : BdState, out : BdState, in : BdState]
    /\ acked \subseteq Nat
    /\ delivered \in Seq([id : Nat, data : Seq(Unit)])

\* A host that talks to no device makes no transfer, and the firmware of a
\* device that has not been reset does not look at its descriptors.
Quiet ==
    /\ ~Live => stage = "idle" /\ acked = {} /\ accepted = {}
    /\ state \in {"disconnected", "connected"} => pc = "idle"

\* The transfer the host makes is its latest.
Transfer ==
    /\ stage # "idle" => hreq.id = n /\ Asked(hreq)
    /\ stage = "setup" => hdata = <<>> /\ hdt = 1

\* Endpoint 0 is locked out while a SETUP packet waits for the firmware.
Waits ==
    /\ cel <=> setup_bd.st = "ok"
    /\ cel => /\ Len(setup_bd.data) = 1
              /\ setup_bd.data[1].id <= n
              /\ Asked(setup_bd.data[1])

\* What the firmware has seen of a descriptor the engine is done with is still
\* so; and once it has seen a SETUP packet, what it saw of the others is.
SeenTrue ==
    pc = "act" =>
        /\ seen.setup \in {"ok", "err"} => setup_bd.st = seen.setup
        /\ seen.out \in {"ok", "err"} => out_bd.st = seen.out
        /\ seen.in = "ok" => in_bd.st = "ok"
        /\ seen.setup = "ok" => seen.in = in_bd.st /\ seen.out = out_bd.st

\* The packet of a write that comes next ends here.
Upto(r, from) == Smaller(r.len, from + PktLen)

\* What the descriptors hold in each state of the control endpoint.
Stalls ==
    IF ctrl = "STALL"
    THEN in_bd.st \in {"stall", "ok"} /\ out_bd.st \in {"stall", "ok", "err"}
    ELSE in_bd.st \in {"none", "data", "ok"} /\ out_bd.st # "stall"

IdleShape ==
    ctrl = "IDLE" => /\ out_bd.st = "none"
                     /\ ~IsRead(req) => in_bd.st = "none"

SendShape ==
    ctrl \in {"DATA_IN", "STATUS_DONE_OUT"} =>
        /\ IsRead(req)
        /\ xfer.len = XferLen(req) /\ xfer.ofs <= xfer.len
        /\ Len(in_bd.data) <= xfer.ofs \/ in_bd.st = "none"
        /\ in_bd.st # "none" =>
              in_bd.data = Units(req.id, xfer.ofs - Len(in_bd.data), xfer.ofs)
        /\ ctrl = "DATA_IN" =>
              /\ in_bd.st \in {"data", "ok"} /\ Len(in_bd.data) = PktLen
              /\ out_bd.st = "none"
        /\ ctrl = "STATUS_DONE_OUT" =>
              /\ xfer.ofs = xfer.len
              /\ in_bd.st # "none" => Len(in_bd.data) < PktLen

StoreShape ==
    ctrl \in {"DATA_OUT", "STATUS_DONE_IN"} =>
        /\ ~IsRead(req)
        /\ xfer.len = req.len
        /\ xfer.data = Units(req.id, 0, xfer.ofs)
        /\ \A i \in 1 .. Len(delivered) : delivered[i].id < req.id
        /\ ctrl = "DATA_OUT" =>
              /\ xfer.ofs < xfer.len
              /\ in_bd.st = "none" /\ in_dt = 1
              /\ out_bd.st \in {"data", "ok", "err"}
              /\ out_bd.st = "ok" =>
                    out_bd.data = Units(req.id, xfer.ofs, Upto(req, xfer.ofs))
        /\ ctrl = "STATUS_DONE_IN" =>
              /\ xfer.ofs = xfer.len
              /\ in_bd.st \in {"data", "ok"} /\ out_bd.st = "none"
              /\ in_bd.st = "data" => in_dt = 1

\* Host and device in a read.
ReadLink ==
    IsRead(hreq) =>
        /\ stage = "data" =>
              /\ ctrl \in {"STALL", "DATA_IN", "STATUS_DONE_OUT"}
              /\ ctrl = "DATA_IN" =>
                    \/ /\ in_bd.st = "data" /\ hdt = in_dt
                       /\ hdata = Units(hreq.id, 0, xfer.ofs - PktLen)
                    \/ /\ (in_bd.st = "data" /\ hdt # in_dt)
                          \/ (in_bd.st = "ok" /\ hdt = in_dt)
                       /\ hdata = Units(hreq.id, 0, xfer.ofs)
              /\ ctrl = "STATUS_DONE_OUT" =>
                    /\ in_bd.st = "data" /\ hdt = in_dt
                    /\ out_bd.st = "data"
                    /\ hdata = Units(hreq.id, 0, xfer.ofs - Len(in_bd.data))
        /\ stage = "status" =>
              hdata = Units(hreq.id, 0, Smaller(hreq.len, hreq.room))

\* Host and device in another transfer.
WriteLink ==
    ~IsRead(hreq) =>
        /\ stage = "data" =>
              /\ Len(hdata) < hreq.len
              /\ ctrl \in {"STALL", "DATA_OUT", "STATUS_DONE_IN"}
              /\ ctrl = "DATA_OUT" =>
                    \/ /\ out_bd.st \in {"data", "err"} /\ hdt = out_dt
                       /\ Len(hdata) = xfer.ofs
                    \/ /\ out_bd.st \in {"data", "err"} /\ hdt # out_dt
                       /\ xfer.ofs = Upto(hreq, Len(hdata))
                    \/ /\ out_bd.st = "ok" /\ hdt = out_dt
                       /\ Len(hdata) = Upto(hreq, xfer.ofs)
                    \/ /\ out_bd.st = "ok" /\ hdt # out_dt
                       /\ Len(hdata) = xfer.ofs
              /\ ctrl = "STATUS_DONE_IN" =>
                    /\ in_bd.st = "data"
                    /\ hdt # out_dt /\ Upto(hreq, Len(hdata)) = hreq.len
        /\ stage = "status" =>
              /\ hdt = 1
              /\ ctrl \in {"STALL", "DATA_OUT", "STATUS_DONE_IN", "IDLE"}
              /\ ctrl = "DATA_OUT" =>
                    out_bd.st = "ok" /\ Upto(hreq, xfer.ofs) = hreq.len

\* The device serves the request the host makes, or it has just got it.
Link ==
    stage \in {"data", "status"} =>
        IF cel
        THEN /\ setup_bd.data[1] = hreq
             /\ hdata = <<>> /\ hdt = 1 /\ out_dt = 1
             /\ stage = (IF hreq.len = 0 THEN "status" ELSE "data")
        ELSE req = hreq /\ ReadLink /\ WriteLink

\* A transfer that both sides have ended.
Ended == ctrl = "STATUS_DONE_IN" /\ in_bd.st = "ok"

\* No write is delivered, and none has ended, when its SETUP packet comes.
Before ==
    /\ req.id <= n
    /\ \A i \in 1 .. Len(delivered) : delivered[i].id <= n
    /\ stage = "setup" =>
          /\ \A i \in 1 .. Len(delivered) : delivered[i].id < n
          /\ Ended => req.id < n
    /\ cel =>
          /\ \A i \in 1 .. Len(delivered) : delivered[i].id < setup_bd.data[1].id
          /\ Ended => req.id < setup_bd.data[1].id

DeliveredWhole ==
    \A i \in 1 .. Len(delivered) :
        /\ delivered[i].data = Units(delivered[i].id, 0, Len(delivered[i].data))
        /\ \A j \in 1 .. (i - 1) : delivered[j].id < delivered[i].id

AckedEnds ==
    \A id \in acked \ DeliveredIds : Ended /\ req.id = id /\ req.kind = "write"

AddressEnds == Live /\ Ended /\ req.kind = "address" => req.value \in accepted

IInv ==
    /\ Types /\ Quiet /\ Transfer /\ Waits /\ SeenTrue
    /\ Stalls /\ IdleShape /\ SendShape /\ StoreShape
    /\ Link /\ Before
    /\ DeliveredWhole /\ AckedEnds /\ AddressEnds /\ AddressAssigned

----------------------------------------------------------------------------
(***************************************************************************)
(* The units of a request.                                                 *)
(***************************************************************************)
LEMMA SmallerIs ==
    ASSUME NEW a \in Int, NEW b \in Int
    PROVE  /\ Smaller(a, b) \in {a, b}
           /\ Smaller(a, b) <= a /\ Smaller(a, b) <= b
BY DEF Smaller

LEMMA UnitsAre ==
    ASSUME NEW id \in Nat, NEW a \in Nat, NEW b \in Nat, a <= b
    PROVE  /\ Units(id, a, b) \in Seq(Unit)
           /\ Len(Units(id, a, b)) = b - a
           /\ \A k \in 1 .. (b - a) : Units(id, a, b)[k] = <<id, a + k>>
<1> DEFINE m == b - a
<1>1. m \in Nat
    OBVIOUS
<1>2. \A k \in 1 .. m : <<id, a + k>> \in Unit
    BY DEF Unit
<1>3. Units(id, a, b) \in [1 .. m -> Unit]
    BY <1>2 DEF Units
<1>4. Units(id, a, b) \in Seq(Unit) /\ Len(Units(id, a, b)) = m
    BY <1>1, <1>3
<1> QED BY <1>4 DEF Units

LEMMA UnitsFirst ==
    ASSUME NEW id \in Nat, NEW b \in Nat
    PROVE  /\ Units(id, 0, b) \in Seq(Unit)
           /\ Len(Units(id, 0, b)) = b
           /\ \A k \in 1 .. b : Units(id, 0, b)[k] = <<id, k>>
<1>1. 0 \in Nat /\ 0 <= b
    OBVIOUS
<1>2. b - 0 = b /\ \A k \in 1 .. b : 0 + k = k
    OBVIOUS
<1>4. /\ Units(id, 0, b) \in Seq(Unit) /\ Len(Units(id, 0, b)) = b - 0
      /\ \A k \in 1 .. (b - 0) : Units(id, 0, b)[k] = <<id, 0 + k>>
    BY <1>1, UnitsAre
<1>3. \A k \in 1 .. b : Units(id, 0, b)[k] = <<id, k>>
    BY <1>2, <1>4
<1> QED BY <1>2, <1>3, <1>4

\* No units at all.
LEMMA UnitsNone ==
    ASSUME NEW id \in Nat, NEW a \in Nat PROVE Units(id, a, a) = <<>>
<1>1. Units(id, a, a) \in Seq(Unit) /\ Len(Units(id, a, a)) = 0
    BY UnitsAre
<1> QED BY <1>1, EmptySeq

LEMMA JoinIs ==
    ASSUME NEW S, NEW s \in Seq(S), NEW t \in Seq(S), NEW u \in Seq(S),
           Len(u) = Len(s) + Len(t),
           \A k \in 1 .. Len(s) : u[k] = s[k],
           \A k \in 1 .. Len(t) : u[Len(s) + k] = t[k]
    PROVE  s \o t = u
<1>1. /\ s \o t \in Seq(S) /\ Len(s \o t) = Len(s) + Len(t)
      /\ \A i \in 1 .. Len(s) + Len(t) : (s \o t)[i] =
             IF i <= Len(s) THEN s[i] ELSE t[i - Len(s)]
    BY ConcatProperties
<1>2. Len(s) \in Nat /\ Len(t) \in Nat
    OBVIOUS
<1>3. \A i \in 1 .. Len(s \o t) : (s \o t)[i] = u[i]
    <2> SUFFICES ASSUME NEW i \in 1 .. Len(s) + Len(t) PROVE (s \o t)[i] = u[i]
        BY <1>1
    <2>1. CASE i <= Len(s)
        BY <1>1, <1>2, <2>1
    <2>2. CASE i > Len(s)
        <3>1. i - Len(s) \in 1 .. Len(t) /\ Len(s) + (i - Len(s)) = i
            BY <1>2, <2>2
        <3>2. u[i] = t[i - Len(s)]
            BY <3>1
        <3>3. (s \o t)[i] = t[i - Len(s)]
            BY <1>1, <1>2, <2>2
        <3> QED BY <3>2, <3>3
    <2> QED BY <1>2, <2>1, <2>2
<1> QED BY <1>1, <1>3, SeqEqual

\* Data that are appended in order stay the units of the request from the first.
LEMMA UnitsJoin ==
    ASSUME NEW id \in Nat, NEW a \in Nat, NEW b \in Nat, a <= b
    PROVE  Units(id, 0, a) \o Units(id, a, b) = Units(id, 0, b)
<1>1. /\ Units(id, 0, a) \in Seq(Unit) /\ Len(Units(id, 0, a)) = a
      /\ \A k \in 1 .. a : Units(id, 0, a)[k] = <<id, k>>
    BY UnitsFirst
<1>2. /\ Units(id, a, b) \in Seq(Unit) /\ Len(Units(id, a, b)) = b - a
      /\ \A k \in 1 .. (b - a) : Units(id, a, b)[k] = <<id, a + k>>
    BY UnitsAre
<1>3. /\ Units(id, 0, b) \in Seq(Unit) /\ Len(Units(id, 0, b)) = b
      /\ \A k \in 1 .. b : Units(id, 0, b)[k] = <<id, k>>
    BY UnitsFirst
<1>4. a + (b - a) = b /\ \A k \in 1 .. (b - a) : a + k \in 1 .. b
    OBVIOUS
<1>5. \A k \in 1 .. a : Units(id, 0, b)[k] = Units(id, 0, a)[k]
    BY <1>1, <1>3
<1>6. \A k \in 1 .. (b - a) : Units(id, 0, b)[a + k] = Units(id, a, b)[k]
    BY <1>2, <1>3, <1>4
<1> DEFINE s == Units(id, 0, a)
           t == Units(id, a, b)
           u == Units(id, 0, b)
<1> HIDE DEF s, t, u
<1>7. s \in Seq(Unit) /\ t \in Seq(Unit) /\ u \in Seq(Unit)
    BY <1>1, <1>2, <1>3 DEF s, t, u
<1>8. Len(s) = a /\ Len(t) = b - a /\ Len(u) = Len(s) + Len(t)
    BY <1>1, <1>2, <1>3, <1>4 DEF s, t, u
<1>9. /\ \A k \in 1 .. Len(s) : u[k] = s[k]
      /\ \A k \in 1 .. Len(t) : u[Len(s) + k] = t[k]
    BY <1>1, <1>2, <1>5, <1>6 DEF s, t, u
<1>10. s \o t = u
    BY <1>7, <1>8, <1>9, JoinIs
<1> QED BY <1>10 DEF s, t, u

LEMMA Packets == PktLen \in Nat /\ PktLen > 0
BY UsbAssumption

LEMMA TransferLength ==
    ASSUME NEW r \in HostReq PROVE XferLen(r) \in Nat /\ XferLen(r) <= r.len
BY SmallerIs DEF XferLen, HostReq

LEMMA DeliveredIs ==
    ASSUME Types, NEW i \in 1 .. Len(delivered)
    PROVE  delivered[i].id \in Nat /\ delivered[i].data \in Seq(Unit)
<1>1. delivered \in Seq([id : Nat, data : Seq(Unit)])
    BY DEF Types
<1>2. delivered[i] \in [id : Nat, data : Seq(Unit)]
    BY <1>1, ElementOfSeq
<1> QED BY <1>2

LEMMA InitInv == Init => IInv
<1> SUFFICES ASSUME Init PROVE IInv
    OBVIOUS
<1> USE DEF Init
<1>1. Types
    BY EmptySeq DEF Types, Stage, HostReq, Kind, NoReq, Rst, NoBd, Bd, BdState,
                    Descriptor, DevState, Ctrl, NoXfer, PC, Seen
<1>2. Quiet /\ Transfer
    BY DEF Quiet, Transfer, Live
<1>3. Waits
    BY DEF Waits, NoBd, Bd
<1>4. SeenTrue /\ Link /\ AddressEnds /\ AddressAssigned /\ AckedEnds
    BY DEF SeenTrue, Link, AddressEnds, AddressAssigned, Ended, AckedEnds, Live
<1>5. Stalls /\ IdleShape /\ SendShape /\ StoreShape
    BY DEF Stalls, IdleShape, SendShape, StoreShape, NoBd, Bd
<1>6. Len(delivered) = 0
    BY EmptySeq
<1>7. Before /\ DeliveredWhole
    BY <1>6 DEF Before, DeliveredWhole, NoReq
<1> QED BY <1>1, <1>2, <1>3, <1>4, <1>5, <1>7 DEF IInv

----------------------------------------------------------------------------
(***************************************************************************)
(* Steps that move no data.                                                *)
(***************************************************************************)

\* The shapes follow from the descriptors and the state of the endpoint.
Shapes == Stalls /\ IdleShape /\ SendShape /\ StoreShape

LEMMA SameShapes ==
    ASSUME Shapes, UNCHANGED <<out_bd, in_bd, in_dt, ctrlVars, delivered>>
    PROVE  Shapes'
<1>1. /\ out_bd' = out_bd /\ in_bd' = in_bd /\ in_dt' = in_dt
      /\ ctrl' = ctrl /\ req' = req /\ xfer' = xfer /\ delivered' = delivered
    BY DEF ctrlVars
<1> QED BY <1>1 DEF Shapes, Stalls, IdleShape, SendShape, StoreShape

\* The device looks, or the bus changes, and nothing else happens.
LEMMA LookStep ==
    ASSUME IInv, Types', Quiet', SeenTrue', Live' => Live,
           UNCHANGED <<stage, hreq, n, hdata, hdt, cel, bdVars, addr, ctrlVars,
                       accepted, acked, delivered>>
    PROVE  IInv'
<1>1. /\ stage' = stage /\ hreq' = hreq /\ n' = n /\ hdata' = hdata /\ hdt' = hdt
      /\ cel' = cel /\ setup_bd' = setup_bd /\ out_bd' = out_bd /\ in_bd' = in_bd
      /\ out_dt' = out_dt /\ in_dt' = in_dt /\ addr' = addr
      /\ ctrl' = ctrl /\ req' = req /\ xfer' = xfer
      /\ accepted' = accepted /\ acked' = acked /\ delivered' = delivered
    BY DEF bdVars, ctrlVars
<1>2. Shapes'
    BY <1>1, SameShapes DEF IInv, Shapes, ctrlVars
<1>3. Transfer' /\ Waits'
    BY <1>1 DEF IInv, Transfer, Waits
<1>4. Link'
    BY <1>1 DEF IInv, Link, ReadLink, WriteLink
<1>5. Before' /\ DeliveredWhole' /\ AckedEnds'
    BY <1>1 DEF IInv, Before, DeliveredWhole, AckedEnds, DeliveredIds, Ended
<1>6. AddressEnds' /\ AddressAssigned'
    BY <1>1 DEF IInv, AddressEnds, AddressAssigned, Ended, Live
<1> QED BY <1>2, <1>3, <1>4, <1>5, <1>6 DEF IInv, Shapes

\* The host lets its transfer go, and with a reset all it knows of the device.
LEMMA LetGo ==
    ASSUME IInv, Types', Quiet', stage' = "idle",
           UNCHANGED <<n, cel, bdVars, addr, ctrlVars, pollVars, delivered>>,
           acked' \subseteq acked, Live' => Live /\ accepted' = accepted
    PROVE  IInv'
<1>1. /\ n' = n /\ stage' = "idle"
      /\ cel' = cel /\ setup_bd' = setup_bd /\ out_bd' = out_bd /\ in_bd' = in_bd
      /\ out_dt' = out_dt /\ in_dt' = in_dt /\ addr' = addr
      /\ ctrl' = ctrl /\ req' = req /\ xfer' = xfer
      /\ pc' = pc /\ seen' = seen /\ delivered' = delivered
    BY DEF bdVars, ctrlVars, pollVars
<1>2. Shapes'
    BY <1>1, SameShapes DEF IInv, Shapes, ctrlVars
<1>3. Transfer' /\ Waits' /\ SeenTrue' /\ Link'
    BY <1>1 DEF IInv, Transfer, Waits, SeenTrue, Link
<1>4. Before' /\ DeliveredWhole' /\ AckedEnds'
    BY <1>1 DEF IInv, Before, DeliveredWhole, AckedEnds, DeliveredIds, Ended
<1>5. AddressEnds' /\ AddressAssigned'
    BY <1>1 DEF IInv, AddressEnds, AddressAssigned, Ended, Live
<1> QED BY <1>2, <1>3, <1>4, <1>5 DEF IInv, Shapes

LEMMA StartTransferStep == ASSUME IInv, StartTransfer PROVE IInv'
<1>1. PICK r \in Requests :
          /\ hreq' = [kind |-> r.kind, len |-> r.len, value |-> r.value,
                      room |-> r.room, id |-> n + 1]
          /\ stage = "idle" /\ n' = n + 1 /\ stage' = "setup"
          /\ hdata' = <<>> /\ hdt' = 1
    BY DEF StartTransfer
<1>2. /\ Live /\ Live' /\ serv' = serv /\ rst' = rst /\ state' = state
      /\ cel' = cel /\ setup_bd' = setup_bd /\ out_bd' = out_bd /\ in_bd' = in_bd
      /\ out_dt' = out_dt /\ in_dt' = in_dt /\ addr' = addr
      /\ ctrl' = ctrl /\ req' = req /\ xfer' = xfer /\ pc' = pc /\ seen' = seen
      /\ accepted' = accepted /\ acked' = acked /\ delivered' = delivered
    BY DEF StartTransfer, Online, Live, IInv, Types, DevState, busVars, engineVars,
           bdVars, devVars, ctrlVars, pollVars, history
<1>3. n \in Nat
    BY DEF IInv, Types
<1>4. r \in Request /\ Asked(r)
    BY UsbAssumption DEF Asked, IsRead
<1>5. hreq' \in HostReq /\ hreq'.id = n + 1 /\ Asked(hreq')
    BY <1>1, <1>3, <1>4 DEF Request, HostReq, Asked, IsRead
<1>6. Types'
    BY <1>1, <1>2, <1>3, <1>5, EmptySeq DEF IInv, Types, Stage
<1>7. Quiet' /\ Transfer' /\ SeenTrue' /\ Link'
    BY <1>1, <1>2, <1>5 DEF IInv, Quiet, Transfer, SeenTrue, Link
<1>8. Waits'
    <2>1. cel => setup_bd.data[1] \in HostReq
        BY DEF IInv, Types, Waits
    <2> QED BY <1>1, <1>2, <1>3, <2>1 DEF IInv, Waits, HostReq
<1>9. Before'
    <2>1. req.id \in Nat /\ \A i \in 1 .. Len(delivered) : delivered[i].id \in Nat
        BY DeliveredIs DEF IInv, Types, HostReq
    <2>2. setup_bd'.data[1] = setup_bd.data[1] /\ Ended' = Ended
        BY <1>2 DEF Ended
    <2>3. /\ req.id <= n
          /\ \A i \in 1 .. Len(delivered) : delivered[i].id <= n
          /\ cel => /\ \A i \in 1 .. Len(delivered) :
                            delivered[i].id < setup_bd.data[1].id
                    /\ Ended => req.id < setup_bd.data[1].id
        BY DEF IInv, Before
    <2>4. /\ req.id <= n + 1 /\ req.id < n + 1
          /\ \A i \in 1 .. Len(delivered) :
                 delivered[i].id <= n + 1 /\ delivered[i].id < n + 1
        BY <1>3, <2>1, <2>3
    <2> QED BY <1>1, <1>2, <2>2, <2>3, <2>4 DEF Before
<1>10. DeliveredWhole' /\ AckedEnds' /\ AddressEnds' /\ AddressAssigned'
    BY <1>2 DEF IInv, DeliveredWhole, AckedEnds, AddressEnds, AddressAssigned,
                Ended, DeliveredIds, Live
<1>11. Shapes'
    BY <1>2, SameShapes DEF IInv, Shapes, ctrlVars
<1> QED BY <1>6, <1>7, <1>8, <1>9, <1>10, <1>11 DEF IInv, Shapes

LEMMA LetGoStep == ASSUME IInv, GiveUp \/ BusReset \/ usb_disconnect PROVE IInv'
<1>1. /\ HostIdle /\ n' = n
      /\ UNCHANGED <<serv, cel, bdVars, addr, ctrlVars, pollVars, delivered>>
      /\ \/ rst' = rst /\ state' = state /\ accepted' = accepted /\ acked' = acked
         \/ /\ rst' \in Rst /\ ~Live' /\ accepted' = {} /\ acked' = {}
            /\ state' = state \/ (state' = "disconnected" /\ pc = "idle")
    BY DEF GiveUp, BusReset, usb_disconnect, busVars, engineVars, devVars, pollVars,
           history, Live, Rst
<1>2. NoReq \in HostReq
    BY DEF NoReq, HostReq, Kind
<1>3. /\ cel' = cel /\ setup_bd' = setup_bd /\ out_bd' = out_bd /\ in_bd' = in_bd
      /\ out_dt' = out_dt /\ in_dt' = in_dt /\ serv' = serv /\ addr' = addr
      /\ ctrl' = ctrl /\ req' = req /\ xfer' = xfer /\ pc' = pc /\ seen' = seen
      /\ delivered' = delivered
      /\ stage' = "idle" /\ hreq' = NoReq /\ hdata' = <<>> /\ hdt' = 1
    BY <1>1 DEF bdVars, ctrlVars, pollVars, HostIdle
<1>4. state' \in DevState
    BY <1>1 DEF DevState, IInv, Types
<1>5. Types'
    BY <1>1, <1>2, <1>3, <1>4, EmptySeq DEF IInv, Types, Stage
<1>6. Quiet'
    BY <1>1, <1>3 DEF IInv, Quiet, Live
<1>7. acked' \subseteq acked /\ (Live' => Live /\ accepted' = accepted)
    BY <1>1 DEF Live
<1> QED BY <1>1, <1>3, <1>5, <1>6, <1>7, LetGo

LEMMA BusStep ==
    ASSUME IInv, BusResetEnds \/ Suspend \/ Resume \/ usb_connect PROVE IInv'
<1>1. /\ UNCHANGED <<serv, stage, hreq, n, hdata, hdt, cel, bdVars, addr, ctrlVars,
                     pollVars, accepted, acked, delivered>>
      /\ \/ rst' = rst /\ state' = state
         \/ rst = "asserted" /\ rst' = "pending" /\ state' = state
         \/ rst' = rst /\ state = "disconnected" /\ state' = "connected"
    BY DEF BusResetEnds, Suspend, Resume, usb_connect, hostVars, busVars, engineVars,
           devVars, pollVars, history
<1>2. Types'
    BY <1>1 DEF IInv, Types, bdVars, ctrlVars, pollVars, Rst, DevState
<1>3. Quiet' /\ (Live' => Live)
    BY <1>1 DEF IInv, Quiet, Live, pollVars
<1>4. SeenTrue'
    BY <1>1 DEF IInv, SeenTrue, pollVars, bdVars
<1> QED BY <1>1, <1>2, <1>3, <1>4, LookStep

LEMMA LookingStep ==
    ASSUME IInv, PollDevice \/ ReadEvents \/ Peek \/ NothingToDo PROVE IInv'
<1>1. /\ UNCHANGED <<serv, stage, hreq, n, hdata, hdt, rst, cel, bdVars, addr, state,
                     ctrlVars, accepted, acked, delivered>>
      /\ \/ seen' = seen /\ pc' \in {"idle", "evt", "peek"}
         \/ seen' = Seen(setup_bd.st, out_bd.st, in_bd.st) /\ pc' = "act"
      /\ state \in {"disconnected", "connected"} => pc' = "idle" \/ pc # "idle"
    BY DEF PollDevice, ReadEvents, Peek, NothingToDo, NotActed, AfterAct, NextPc,
           hostVars, busVars, engineVars, devVars, history
<1>2. Quiet' /\ (Live' => Live)
    BY <1>1 DEF IInv, Quiet, Live
<1>3. /\ setup_bd' = setup_bd /\ out_bd' = out_bd /\ in_bd' = in_bd
      /\ out_dt' = out_dt /\ in_dt' = in_dt
      /\ ctrl' = ctrl /\ req' = req /\ xfer' = xfer
    BY <1>1 DEF bdVars, ctrlVars
<1>4. SeenTrue'
    BY <1>1, <1>3 DEF SeenTrue, Seen
<1>5. Types'
    <2>1. pc' \in PC
        BY <1>1 DEF PC
    <2>2. Seen(setup_bd.st, out_bd.st, in_bd.st) \in
              [setup : BdState, out : BdState, in : BdState]
        BY DEF IInv, Types, Seen, Descriptor
    <2>3. seen' \in [setup : BdState, out : BdState, in : BdState]
        BY <1>1, <2>2 DEF IInv, Types
    <2> QED BY <1>1, <1>3, <2>1, <2>3 DEF IInv, Types
<1> QED BY <1>1, <1>2, <1>4, <1>5, LookStep

LEMMA PollResetStep == ASSUME IInv, PollReset PROVE IInv'
<1>1. /\ pc = "idle" /\ rst = "pending" /\ rst' = "none" /\ state' = "default"
      /\ ctrl' = "IDLE" /\ setup_bd' = Ready /\ out_bd' = NoBd /\ in_bd' = NoBd
      /\ out_dt' = 0 /\ in_dt' = 1 /\ cel' = FALSE /\ addr' = 0
      /\ pc' \in {"idle", "evt", "peek"} /\ seen' = seen
      /\ UNCHANGED <<serv, hostVars, req, xfer, history>>
    BY DEF PollReset, usb_bus_reset, usb_ep0_reset, NextPc
<1>2. /\ stage = "idle" /\ acked = {} /\ accepted = {}
      /\ stage' = "idle" /\ acked' = {} /\ accepted' = {}
      /\ n' = n /\ delivered' = delivered /\ req' = req /\ xfer' = xfer
      /\ serv' = serv /\ hreq' = hreq /\ hdata' = hdata /\ hdt' = hdt
    BY <1>1 DEF IInv, Quiet, Live, hostVars, history
<1>3. /\ Ready = [st |-> "data", data |-> <<>>] /\ NoBd = [st |-> "none", data |-> <<>>]
    BY DEF Ready, NoBd, Bd
<1>4. Types'
    <2>1. /\ Ready \in [st : BdState, data : Seq(HostReq)]
          /\ Ready \in Descriptor /\ NoBd \in Descriptor
        BY <1>3, EmptySeq DEF BdState, Descriptor
    <2>2. state' \in DevState /\ ctrl' \in Ctrl /\ pc' \in PC /\ rst' \in Rst
        BY <1>1 DEF DevState, Ctrl, PC, Rst
    <2>3. stage' \in Stage
        BY <1>2 DEF Stage
    <2> QED BY <1>1, <1>2, <2>1, <2>2, <2>3 DEF IInv, Types
<1>5. Quiet' /\ Transfer' /\ SeenTrue' /\ Link'
    BY <1>1, <1>2 DEF Quiet, Live, Transfer, SeenTrue, Link
<1>6. Waits' /\ Shapes'
    BY <1>1, <1>3 DEF Waits, Shapes, Stalls, IdleShape, SendShape, StoreShape
<1>7. Before'
    BY <1>1, <1>2 DEF IInv, Before
<1>8. DeliveredWhole' /\ AckedEnds' /\ AddressEnds' /\ AddressAssigned'
    BY <1>1, <1>2 DEF IInv, DeliveredWhole, AckedEnds, AddressEnds, AddressAssigned,
                      Ended
<1> QED BY <1>4, <1>5, <1>6, <1>7, <1>8 DEF IInv, Shapes


----------------------------------------------------------------------------
(***************************************************************************)
(* The transactions.                                                       *)
(***************************************************************************)
LEMMA SetupTransactionStep ==
    ASSUME IInv, NEW damaged \in BOOLEAN, NEW ack \in BOOLEAN,
           SetupTransaction(damaged, ack)
    PROVE  IInv'
<1>1. /\ Live /\ stage = "setup" /\ ~cel /\ setup_bd.st = "data"
      /\ serv' = serv /\ rst' = rst /\ state' = state
      /\ out_bd' = out_bd /\ in_bd' = in_bd /\ in_dt' = in_dt /\ addr' = addr
      /\ ctrl' = ctrl /\ req' = req /\ xfer' = xfer /\ pc' = pc /\ seen' = seen
      /\ accepted' = accepted /\ acked' = acked /\ delivered' = delivered
      /\ hreq' = hreq /\ n' = n /\ hdata' = hdata /\ hdt' = hdt
    BY DEF SetupTransaction, Heard, Online, Live, IInv, Types, DevState, busVars,
           devVars, ctrlVars, pollVars, history, hostVars, HostMoves
<1>2. hdata = <<>> /\ hdt = 1 /\ hreq.id = n /\ Asked(hreq) /\ hreq \in HostReq
    BY <1>1 DEF IInv, Transfer, Types
<1>3. Shapes'
    BY <1>1, SameShapes DEF IInv, Shapes, ctrlVars
<1>4. DeliveredWhole' /\ AckedEnds' /\ AddressEnds' /\ AddressAssigned'
    BY <1>1 DEF IInv, DeliveredWhole, AckedEnds, AddressEnds, AddressAssigned,
                Ended, DeliveredIds, Live
<1>5. ~(pc = "act" /\ seen.setup \in {"ok", "err"})
    BY <1>1 DEF IInv, SeenTrue
<1>6. SeenTrue'
    BY <1>1, <1>5 DEF IInv, SeenTrue
<1>7. CASE damaged
    <2>1. /\ setup_bd' = [st |-> "err", data |-> <<>>] /\ cel' = cel
          /\ out_dt' = out_dt /\ stage' = stage
        BY <1>7 DEF SetupTransaction, Bd, hostVars
    <2>2. Types'
        BY <1>1, <2>1, EmptySeq DEF IInv, Types, BdState
    <2>3. Quiet' /\ Transfer' /\ Link'
        BY <1>1, <2>1 DEF IInv, Quiet, Live, Transfer, Link
    <2>4. Waits' /\ Before'
        BY <1>1, <2>1 DEF Waits, IInv, Before, Ended
    <2> QED BY <1>3, <1>4, <1>6, <2>2, <2>3, <2>4 DEF IInv, Shapes
<1>8. CASE ~damaged
    <2>1. /\ setup_bd' = [st |-> "ok", data |-> <<hreq>>] /\ cel' = TRUE /\ out_dt' = 1
          /\ stage' = stage \/ stage' = (IF hreq.len = 0 THEN "status" ELSE "data")
        BY <1>8 DEF SetupTransaction, Bd, hostVars, HostMoves
    <2>2. <<hreq>> \in Seq(HostReq) /\ Len(<<hreq>>) = 1
        BY <1>2
    <2>3. /\ setup_bd'.st = "ok" /\ Len(setup_bd'.data) = 1
          /\ setup_bd'.data[1] = hreq
        BY <2>1
    <2>4. stage' \in Stage /\ stage' # "idle"
        BY <1>1, <2>1 DEF Stage
    <2>5. Types'
        <3>1. setup_bd' \in [st : BdState, data : Seq(HostReq)]
            BY <2>1, <2>2 DEF BdState
        <3> QED BY <1>1, <2>1, <2>4, <3>1 DEF IInv, Types
    <2>6. Quiet' /\ Transfer'
        BY <1>1, <1>2, <2>1 DEF IInv, Quiet, Live, Transfer
    <2>7. Link'
        BY <1>1, <1>2, <2>1, <2>3 DEF Link
    <2>8. Waits'
        <3>1. n \in Nat
            BY DEF IInv, Types
        <3> QED BY <1>1, <1>2, <2>1, <2>3, <3>1 DEF Waits
    <2>9. Before'
        <3>1. Ended' = Ended
            BY <1>1 DEF Ended
        <3> QED BY <1>1, <1>2, <2>1, <2>3, <3>1 DEF IInv, Before
    <2> QED BY <1>3, <1>4, <1>6, <2>5, <2>6, <2>7, <2>8, <2>9 DEF IInv, Shapes
<1> QED BY <1>7, <1>8

\* What the other transactions have in common.
LEMMA AnswerStep ==
    ASSUME IInv, Live, ~cel, stage \in {"data", "status"},
           UNCHANGED <<n, rst, state, cel, setup_bd, addr, ctrlVars, pollVars,
                       delivered>>,
           stage' \in {"idle", "data", "status"}, stage' # "idle" => hreq' = hreq,
           out_bd.st \in {"ok", "err"} => out_bd' = out_bd,
           in_bd.st = "ok" => in_bd' = in_bd,
           accepted \subseteq accepted',
           Types', Shapes', Link', AckedEnds', AddressEnds'
    PROVE  IInv'
<1>1. /\ n' = n /\ rst' = rst /\ state' = state /\ cel' = cel /\ setup_bd' = setup_bd
      /\ addr' = addr /\ ctrl' = ctrl /\ req' = req /\ xfer' = xfer
      /\ pc' = pc /\ seen' = seen /\ delivered' = delivered
    BY DEF ctrlVars, pollVars
<1>2. Quiet' /\ Transfer' /\ Waits'
    BY <1>1 DEF IInv, Quiet, Live, Transfer, Waits
<1>3. setup_bd.st # "ok"
    BY DEF IInv, Waits
<1>4. SeenTrue'
    BY <1>1, <1>3 DEF IInv, SeenTrue
<1>5. Before' /\ DeliveredWhole' /\ AddressAssigned'
    BY <1>1 DEF IInv, Before, DeliveredWhole, AddressAssigned
<1> QED BY <1>2, <1>4, <1>5 DEF IInv, Shapes

\* Where the device is when it has a packet that the host takes.
LEMMA SendsTo ==
    ASSUME IInv, ~cel, stage \in {"data", "status"}, DeviceSends,
           in_bd.st = "data"
    PROVE  /\ req = hreq /\ hreq \in HostReq /\ ReadLink /\ WriteLink
           /\ stage = "data" => /\ IsRead(hreq)
                                /\ ctrl \in {"DATA_IN", "STATUS_DONE_OUT"}
           /\ stage = "status" => /\ ~IsRead(hreq) /\ ctrl = "STATUS_DONE_IN"
                                  /\ in_dt = 1 /\ hdt = 1
<1>1. req = hreq /\ hreq \in HostReq /\ ReadLink /\ WriteLink
    BY DEF IInv, Link, Types
<1>2. ctrl # "STALL"
    BY DEF IInv, Stalls
<1>3. stage = "data" => IsRead(hreq) /\ ctrl \in {"DATA_IN", "STATUS_DONE_OUT"}
    BY <1>1, <1>2 DEF DeviceSends, ReadLink
<1>4. ASSUME stage = "status"
      PROVE  ~IsRead(hreq) /\ ctrl = "STATUS_DONE_IN" /\ in_dt = 1 /\ hdt = 1
    <2>1. ~IsRead(hreq)
        BY <1>4 DEF DeviceSends
    <2>2. hdt = 1 /\ ctrl \in {"DATA_OUT", "STATUS_DONE_IN", "IDLE"}
        BY <1>1, <1>2, <1>4, <2>1 DEF WriteLink
    <2>3. ctrl = "STATUS_DONE_IN"
        BY <1>1, <2>1, <2>2 DEF IInv, IdleShape, StoreShape
    <2> QED BY <2>1, <2>2, <2>3 DEF IInv, StoreShape
<1> QED BY <1>1, <1>3, <1>4

\* A packet of a read that is the one the host waits for.
LEMMA ReadGrows ==
    ASSUME IInv, ~cel, stage = "data", IsRead(hreq), in_bd.st = "data", in_dt = hdt
    PROVE  /\ hdata \o in_bd.data = Units(hreq.id, 0, xfer.ofs)
           /\ Len(hdata \o in_bd.data) = xfer.ofs
           /\ NextStage(hdata \o in_bd.data, in_bd.data) = "status" =>
                  xfer.ofs = Smaller(hreq.len, hreq.room)
           /\ NextStage(hdata \o in_bd.data, in_bd.data) # "status" =>
                  ctrl = "DATA_IN"
<1>1. DeviceSends
    BY DEF DeviceSends
<1>2. /\ req = hreq /\ hreq \in HostReq /\ ReadLink
      /\ ctrl \in {"DATA_IN", "STATUS_DONE_OUT"}
    BY <1>1, SendsTo
<1>3. /\ xfer.len = Smaller(hreq.len, hreq.room) /\ xfer.ofs <= xfer.len
      /\ Len(in_bd.data) <= xfer.ofs
      /\ in_bd.data = Units(hreq.id, xfer.ofs - Len(in_bd.data), xfer.ofs)
      /\ ctrl = "DATA_IN" => Len(in_bd.data) = PktLen
      /\ ctrl = "STATUS_DONE_OUT" => xfer.ofs = xfer.len /\ Len(in_bd.data) < PktLen
    BY <1>2 DEF IInv, SendShape, XferLen
<1>4. hdata = Units(hreq.id, 0, xfer.ofs - Len(in_bd.data))
    BY <1>2, <1>3 DEF ReadLink
<1>5. /\ xfer.ofs \in Nat /\ xfer.len \in Nat /\ Len(in_bd.data) \in Nat
      /\ hreq.id \in Nat /\ hreq.len \in Nat /\ hreq.room \in Nat
    BY <1>2 DEF IInv, Types, Descriptor, HostReq
<1>6. xfer.ofs - Len(in_bd.data) \in Nat /\ xfer.ofs - Len(in_bd.data) <= xfer.ofs
    BY <1>3, <1>5
<1>7. hdata \o in_bd.data = Units(hreq.id, 0, xfer.ofs)
    <2> DEFINE p == xfer.ofs - Len(in_bd.data)
               id == hreq.id
    <2>1. p \in Nat /\ p <= xfer.ofs /\ id \in Nat
        BY <1>5, <1>6
    <2>2. hdata = Units(id, 0, p) /\ in_bd.data = Units(id, p, xfer.ofs)
        BY <1>3, <1>4
    <2> HIDE DEF p, id
    <2>3. Units(id, 0, p) \o Units(id, p, xfer.ofs) = Units(id, 0, xfer.ofs)
        BY <1>5, <2>1, UnitsJoin
    <2>4. hdata \o in_bd.data = Units(id, 0, xfer.ofs)
        BY <2>2, <2>3
    <2> QED BY <2>4 DEF id
<1>8. Len(hdata \o in_bd.data) = xfer.ofs
    <2>1. Len(Units(hreq.id, 0, xfer.ofs)) = xfer.ofs
        BY <1>5, UnitsFirst
    <2> QED BY <1>7, <2>1
<1>9. xfer.len <= hreq.len
    BY <1>3, <1>5, SmallerIs
<1>10. ASSUME NextStage(hdata \o in_bd.data, in_bd.data) = "status"
       PROVE  xfer.ofs = Smaller(hreq.len, hreq.room)
    <2>1. xfer.ofs = hreq.len \/ Len(in_bd.data) < PktLen
        BY <1>8, <1>10 DEF NextStage
    <2>2. CASE xfer.ofs = hreq.len
        BY <1>3, <1>5, <1>9, <2>2
    <2>3. CASE Len(in_bd.data) < PktLen
        BY <1>2, <1>3, <1>5, <2>3, Packets
    <2> QED BY <2>1, <2>2, <2>3
<1>11. ASSUME NextStage(hdata \o in_bd.data, in_bd.data) # "status"
       PROVE  ctrl = "DATA_IN"
    <2>1. ~(Len(in_bd.data) < PktLen)
        BY <1>11 DEF NextStage
    <2> QED BY <1>2, <1>3, <2>1
<1> QED BY <1>7, <1>8, <1>10, <1>11


LEMMA TakenShapes ==
    ASSUME IInv, in_bd.st = "data", UNCHANGED <<out_bd, ctrlVars, delivered>>,
           \/ in_bd' = in_bd /\ in_dt' = in_dt
           \/ in_bd' = [st |-> "ok", data |-> in_bd.data]
    PROVE  Shapes'
<1>1. /\ out_bd' = out_bd /\ ctrl' = ctrl /\ req' = req /\ xfer' = xfer
      /\ delivered' = delivered
    BY DEF ctrlVars
<1>2. CASE in_bd' = in_bd /\ in_dt' = in_dt
    BY <1>2, SameShapes DEF IInv, Shapes
<1>3. CASE in_bd' = [st |-> "ok", data |-> in_bd.data]
    <2>1. in_bd'.st = "ok" /\ in_bd'.data = in_bd.data
        BY <1>3
    <2>2. Stalls' /\ IdleShape' /\ SendShape'
        BY <1>1, <2>1 DEF IInv, Stalls, IdleShape, SendShape
    <2>3. StoreShape'
        BY <1>1, <2>1 DEF IInv, StoreShape
    <2> QED BY <2>2, <2>3 DEF Shapes
<1> QED BY <1>2, <1>3

LEMMA InTransactionStep ==
    ASSUME IInv, NEW arrives \in BOOLEAN, NEW ack \in BOOLEAN,
           InTransaction(arrives, ack)
    PROVE  IInv'
<1>1. /\ Live /\ stage \in {"data", "status"} /\ DeviceSends /\ ~cel
      /\ in_bd.st = "data" /\ serv' = serv /\ rst' = rst /\ cel' = cel
      /\ setup_bd' = setup_bd /\ out_bd' = out_bd /\ out_dt' = out_dt /\ addr' = addr
      /\ state' = state /\ ctrl' = ctrl /\ req' = req /\ xfer' = xfer
      /\ pc' = pc /\ seen' = seen /\ delivered' = delivered
    BY DEF InTransaction, Heard, Online, Live, IInv, Types, DevState, busVars,
           devVars, ctrlVars, pollVars
<1>2. UNCHANGED <<ctrlVars, pollVars>>
    BY DEF InTransaction
<1>3. CASE ~arrives
    <2>1. UNCHANGED <<hostVars, accepted, in_bd, in_dt, acked>>
        BY <1>3 DEF InTransaction
    <2>2. UNCHANGED <<stage, hreq, n, hdata, hdt, cel, bdVars, addr, ctrlVars,
                      accepted, acked, delivered>>
        BY <1>1, <1>2, <2>1 DEF hostVars, bdVars
    <2>3. Types'
        BY <1>1, <2>1 DEF IInv, Types, hostVars
    <2>4. Quiet' /\ SeenTrue' /\ (Live' => Live)
        BY <1>1, <2>1 DEF IInv, Quiet, SeenTrue, Live, hostVars
    <2> QED BY <2>2, <2>3, <2>4, LookStep
<1>4. CASE arrives
    <2>1. HostReceives(in_bd.data, in_dt)
        BY <1>4 DEF InTransaction
    <2>2. /\ req = hreq /\ hreq \in HostReq /\ ReadLink /\ WriteLink
          /\ stage = "data" => /\ IsRead(hreq)
                               /\ ctrl \in {"DATA_IN", "STATUS_DONE_OUT"}
          /\ stage = "status" => /\ ~IsRead(hreq) /\ ctrl = "STATUS_DONE_IN"
                                 /\ in_dt = 1 /\ hdt = 1
        BY <1>1, SendsTo
    <2>3. \/ ~ack /\ in_bd' = in_bd /\ in_dt' = in_dt /\ acked' = acked
          \/ /\ ack /\ in_bd' = [st |-> "ok", data |-> in_bd.data]
             /\ in_dt' = 1 - in_dt
             /\ acked' = IF stage = "status" /\ in_dt = hdt /\ hreq.kind = "write"
                         THEN acked \cup {hreq.id} ELSE acked
        BY <1>4 DEF InTransaction, Bd
    <2>4. Shapes'
        BY <1>1, <1>2, <2>3, TakenShapes
    <2>5. AckedEnds'
        <3>1. acked \subseteq DeliveredIds /\ DeliveredIds' = DeliveredIds
            BY <1>1 DEF IInv, AckedEnds, Ended, DeliveredIds
        <3>2. CASE ~ack
            BY <2>3, <3>1, <3>2 DEF AckedEnds
        <3>3. CASE ack
            <4>1. in_bd'.st = "ok"
                BY <2>3, <3>3
            <4>2. SUFFICES ASSUME NEW id \in acked', id \notin DeliveredIds
                           PROVE  Ended' /\ req.id = id /\ req.kind = "write"
                BY <1>1, <3>1 DEF AckedEnds
            <4>3. id = hreq.id /\ stage = "status" /\ hreq.kind = "write"
                BY <2>3, <3>1, <3>3, <4>2
            <4> QED BY <1>1, <2>2, <4>1, <4>3 DEF Ended
        <3> QED BY <3>2, <3>3
    <2>6. acked' \subseteq Nat
        BY <2>2, <2>3 DEF IInv, Types, HostReq
    <2>7. in_bd' \in Descriptor /\ in_dt' \in {0, 1}
        BY <2>3 DEF IInv, Types, Descriptor, BdState
    <2>8. CASE in_dt # hdt
        <3>1. /\ stage' = stage /\ hreq' = hreq /\ n' = n /\ hdata' = hdata
              /\ hdt' = hdt /\ accepted' = accepted
            BY <2>1, <2>8 DEF HostReceives, hostVars
        <3>2. stage = "data" /\ ctrl = "DATA_IN" /\ IsRead(hreq)
              /\ hdata = Units(hreq.id, 0, xfer.ofs)
            BY <1>1, <2>2, <2>8 DEF ReadLink
        <3>3. ReadLink' /\ WriteLink'
            BY <1>1, <2>3, <2>8, <3>1, <3>2 DEF ReadLink, WriteLink, IInv, Types
        <3>4. Link'
            BY <1>1, <2>2, <3>1, <3>3 DEF Link
        <3>5. AddressEnds'
            BY <1>1, <3>2 DEF AddressEnds, Ended
        <3>6. Types'
            BY <1>1, <2>6, <2>7, <3>1 DEF IInv, Types
        <3> QED BY <1>1, <1>2, <2>3, <2>4, <2>5, <3>1, <3>4, <3>5, <3>6, AnswerStep
    <2>9. CASE in_dt = hdt /\ stage = "status"
        <3>1. /\ stage' = "idle" /\ hreq' = NoReq /\ hdata' = <<>> /\ hdt' = 1
              /\ n' = n
              /\ IF hreq.kind = "address" THEN accepted' = accepted \cup {hreq.value}
                                          ELSE accepted' = accepted
            BY <2>1, <2>9 DEF HostReceives, HostDone, HostIdle
        <3>2. Link'
            BY <3>1 DEF Link
        <3>3. AddressEnds'
            BY <1>1, <2>2, <3>1 DEF AddressEnds
        <3>4. Types'
            <4>1. NoReq \in HostReq
                BY DEF NoReq, HostReq, Kind
            <4> QED BY <1>1, <2>6, <2>7, <3>1, <4>1, EmptySeq DEF IInv, Types, Stage
        <3>5. accepted \subseteq accepted'
            BY <3>1
        <3> QED BY <1>1, <1>2, <2>3, <2>4, <2>5, <3>1, <3>2, <3>3, <3>4, <3>5,
                   AnswerStep
    <2>10. CASE in_dt = hdt /\ stage = "data"
        <3>1. /\ hdata' = hdata \o in_bd.data
              /\ stage' = NextStage(hdata \o in_bd.data, in_bd.data)
              /\ hdt' = IF stage' = "status" THEN 1 ELSE 1 - hdt
              /\ hreq' = hreq /\ n' = n /\ accepted' = accepted
            BY <2>1, <2>10 DEF HostReceives
        <3>2. stage' \in {"data", "status"}
            BY <3>1 DEF NextStage
        <3>3. /\ hdata' = Units(hreq.id, 0, xfer.ofs)
              /\ stage' = "status" => xfer.ofs = Smaller(hreq.len, hreq.room)
              /\ stage' # "status" => ctrl = "DATA_IN"
            BY <1>1, <2>2, <2>10, <3>1, ReadGrows
        <3>4. ReadLink' /\ WriteLink'
            BY <1>1, <2>2, <2>3, <2>10, <3>1, <3>2, <3>3
               DEF ReadLink, WriteLink, IInv, Types
        <3>5. Link'
            BY <1>1, <2>2, <3>1, <3>4 DEF Link
        <3>6. AddressEnds'
            BY <1>1, <2>2, <2>10 DEF AddressEnds, Ended
        <3>7. Types'
            <4>1. hdata' \in Seq(Unit) /\ hdt' \in {0, 1} /\ stage' \in Stage
                BY <3>1, <3>2, ConcatProperties DEF IInv, Types, Descriptor, Stage
            <4> QED BY <1>1, <2>6, <2>7, <3>1, <4>1 DEF IInv, Types
        <3> QED BY <1>1, <1>2, <2>3, <2>4, <2>5, <3>1, <3>2, <3>5, <3>6, <3>7,
                   AnswerStep
    <2> QED BY <1>1, <2>8, <2>9, <2>10
<1> QED BY <1>3, <1>4


\* A packet of a write, and where the host is when it has been taken.
LEMMA WriteGrows ==
    ASSUME IInv, ~cel, stage = "data", ~IsRead(hreq)
    PROVE  /\ HostPacket = Units(hreq.id, Len(hdata), Upto(hreq, Len(hdata)))
           /\ HostPacket \in Seq(Unit)
           /\ Len(hdata \o HostPacket) = Upto(hreq, Len(hdata))
           /\ Upto(hreq, Len(hdata)) \in Nat /\ Upto(hreq, Len(hdata)) <= hreq.len
           /\ NextStage(hdata \o HostPacket, HostPacket) =
                  IF Upto(hreq, Len(hdata)) = hreq.len THEN "status" ELSE "data"
<1>1. Len(hdata) < hreq.len
    BY DEF IInv, Link, WriteLink
<1>2. hdata \in Seq(Unit) /\ Len(hdata) \in Nat /\ hreq.id \in Nat /\ hreq.len \in Nat
    BY DEF IInv, Types, HostReq
<1>3. HostPacket = Units(hreq.id, Len(hdata), Upto(hreq, Len(hdata)))
    BY DEF HostPacket, Upto
<1>4. /\ Upto(hreq, Len(hdata)) \in {hreq.len, Len(hdata) + PktLen}
      /\ Upto(hreq, Len(hdata)) <= hreq.len
    BY <1>2, SmallerIs, Packets DEF Upto
<1>5. Upto(hreq, Len(hdata)) \in Nat /\ Len(hdata) <= Upto(hreq, Len(hdata))
    BY <1>1, <1>2, <1>4, Packets
<1>6. /\ HostPacket \in Seq(Unit)
      /\ Len(HostPacket) = Upto(hreq, Len(hdata)) - Len(hdata)
    BY <1>2, <1>3, <1>5, UnitsAre
<1>7. Len(hdata \o HostPacket) = Upto(hreq, Len(hdata))
    <2>1. Len(hdata \o HostPacket) = Len(hdata) + Len(HostPacket)
        BY <1>2, <1>6, ConcatProperties
    <2> QED BY <1>2, <1>5, <1>6, <2>1
<1>8. NextStage(hdata \o HostPacket, HostPacket) =
          IF Upto(hreq, Len(hdata)) = hreq.len THEN "status" ELSE "data"
    BY <1>7 DEF NextStage
<1> QED BY <1>3, <1>4, <1>5, <1>6, <1>7, <1>8

LEMMA OutShapes ==
    ASSUME IInv, ~cel, stage \in {"data", "status"}, ~DeviceSends,
           UNCHANGED <<in_bd, in_dt, ctrlVars, delivered>>,
           \/ out_bd' = out_bd
           \/ out_bd.st \in {"data", "stall"} /\ out_bd'.st = "err"
           \/ /\ out_bd.st = "data" /\ out_bd'.st = "ok"
              /\ ctrl = "DATA_OUT" =>
                     out_bd'.data = Units(req.id, xfer.ofs, Upto(req, xfer.ofs))
    PROVE  Shapes'
<1>1. /\ in_bd' = in_bd /\ in_dt' = in_dt /\ ctrl' = ctrl /\ req' = req
      /\ xfer' = xfer /\ delivered' = delivered
    BY DEF ctrlVars
<1>2. CASE out_bd' = out_bd
    BY <1>2, SameShapes DEF IInv, Shapes
<1>3. CASE out_bd.st \in {"data", "stall"} /\ out_bd'.st = "err"
    <2>1. Stalls' /\ IdleShape' /\ SendShape'
        BY <1>1, <1>3 DEF IInv, Stalls, IdleShape, SendShape
    <2>2. StoreShape'
        BY <1>1, <1>3 DEF IInv, StoreShape
    <2> QED BY <2>1, <2>2 DEF Shapes
<1>4. CASE /\ out_bd.st = "data" /\ out_bd'.st = "ok"
           /\ ctrl = "DATA_OUT" =>
                  out_bd'.data = Units(req.id, xfer.ofs, Upto(req, xfer.ofs))
    <2>1. Stalls' /\ IdleShape' /\ SendShape'
        BY <1>1, <1>4 DEF IInv, Stalls, IdleShape, SendShape
    <2>2. StoreShape'
        BY <1>1, <1>4 DEF IInv, StoreShape, Upto
    <2> QED BY <2>1, <2>2 DEF Shapes
<1> QED BY <1>2, <1>3, <1>4

LEMMA OutTransactionStep ==
    ASSUME IInv, NEW damaged \in BOOLEAN, NEW ack \in BOOLEAN,
           OutTransaction(damaged, ack)
    PROVE  IInv'
<1>1. /\ Live /\ stage \in {"data", "status"} /\ ~DeviceSends /\ ~cel
      /\ serv' = serv /\ rst' = rst /\ cel' = cel
      /\ setup_bd' = setup_bd /\ in_bd' = in_bd /\ in_dt' = in_dt /\ addr' = addr
      /\ state' = state /\ ctrl' = ctrl /\ req' = req /\ xfer' = xfer
      /\ pc' = pc /\ seen' = seen /\ delivered' = delivered /\ acked' = acked
    BY DEF OutTransaction, Heard, Online, Live, IInv, Types, DevState, busVars,
           devVars, ctrlVars, pollVars
<1>2. UNCHANGED <<ctrlVars, pollVars>>
    BY DEF OutTransaction
<1>3. /\ stage = "data" => ~IsRead(hreq)
      /\ stage = "status" => IsRead(hreq)
      /\ req = hreq /\ hreq \in HostReq /\ ReadLink /\ WriteLink
    BY <1>1 DEF DeviceSends, IInv, Link, Types
<1>4. AckedEnds'
    BY <1>1 DEF IInv, AckedEnds, Ended, DeliveredIds
\* The descriptor.
<1>5. \/ /\ damaged /\ out_bd.st \in {"data", "stall"}
         /\ out_bd' = [st |-> "err", data |-> <<>>] /\ out_dt' = out_dt
      \/ /\ ~damaged /\ out_dt # hdt
         /\ out_bd' = out_bd /\ out_dt' = out_dt
      \/ /\ ~damaged /\ out_dt = hdt /\ out_bd.st = "data"
         /\ out_bd' = [st |-> "ok", data |-> HostPacket] /\ out_dt' = 1 - out_dt
    BY DEF OutTransaction, Bd
<1>6. HostPacket \in Seq(Unit)
    <2>1. CASE stage = "data"
        BY <1>1, <1>3, <2>1, WriteGrows
    <2>2. CASE stage = "status"
        BY <2>2, EmptySeq DEF HostPacket
    <2> QED BY <1>1, <2>1, <2>2
<1>7. out_bd' \in Descriptor /\ out_dt' \in {0, 1}
    <2>1. <<>> \in Seq(Unit)
        BY EmptySeq
    <2>2. /\ [st |-> "err", data |-> <<>>] \in Descriptor
          /\ [st |-> "ok", data |-> HostPacket] \in Descriptor
        BY <1>6, <2>1 DEF Descriptor, BdState
    <2>3. out_bd \in Descriptor /\ out_dt \in {0, 1}
        BY DEF IInv, Types
    <2>4. out_bd' \in Descriptor
        BY <1>5, <2>2, <2>3
    <2>5. out_dt' \in {0, 1}
        BY <1>5, <2>3
    <2> QED BY <2>4, <2>5
<1>8. Shapes'
    <2>1. ASSUME out_dt = hdt, out_bd.st = "data", ctrl = "DATA_OUT"
          PROVE  HostPacket = Units(req.id, xfer.ofs, Upto(req, xfer.ofs))
        <3>1. stage = "data" /\ ~IsRead(hreq)
            BY <1>1, <1>3, <2>1 DEF IInv, StoreShape
        <3>2. Len(hdata) = xfer.ofs
            BY <1>3, <2>1, <3>1 DEF WriteLink
        <3> QED BY <1>1, <1>3, <3>1, <3>2, WriteGrows
    <2>2. \/ out_bd' = out_bd
          \/ out_bd.st \in {"data", "stall"} /\ out_bd'.st = "err"
          \/ /\ out_bd.st = "data" /\ out_bd'.st = "ok"
             /\ ctrl = "DATA_OUT" =>
                     out_bd'.data = Units(req.id, xfer.ofs, Upto(req, xfer.ofs))
        BY <1>5, <2>1
    <2>3. UNCHANGED <<in_bd, in_dt, ctrlVars, delivered>>
        BY <1>1, <1>2
    <2> QED BY <1>1, <2>2, <2>3, OutShapes
<1>9. out_bd.st \in {"ok", "err"} => out_bd' = out_bd
    BY <1>5
\* The host has not heard of it.
<1>10. CASE damaged \/ ~ack
    <2>1. /\ stage' = stage /\ hreq' = hreq /\ n' = n /\ hdata' = hdata /\ hdt' = hdt
          /\ accepted' = accepted
        BY <1>10 DEF OutTransaction, hostVars
    <2>2. Types'
        BY <1>1, <1>7, <2>1 DEF IInv, Types
    <2>3. ReadLink'
        BY <1>1, <1>3, <2>1 DEF ReadLink
    <2>4. WriteLink'
        <3>1. stage = "status" => WriteLink'
            BY <1>3, <2>1 DEF WriteLink
        <3>2. ASSUME stage = "data" PROVE WriteLink'
            <4>1. /\ Len(hdata) < hreq.len
                  /\ ctrl \in {"STALL", "DATA_OUT", "STATUS_DONE_IN"}
                BY <1>3, <3>2 DEF WriteLink
            <4>2. CASE ctrl = "STALL"
                BY <1>1, <2>1, <3>2, <4>1, <4>2 DEF WriteLink
            <4>3. CASE ctrl = "STATUS_DONE_IN"
                <5>1. out_dt' = out_dt
                    BY <1>5, <4>3 DEF IInv, StoreShape
                <5> QED BY <1>1, <1>3, <2>1, <3>2, <4>1, <4>3, <5>1
                        DEF WriteLink, Upto
            <4>4. CASE ctrl = "DATA_OUT"
                <5>1. out_dt \in {0, 1} /\ hdt \in {0, 1}
                    BY DEF IInv, Types
                <5>2. out_bd.st # "stall"
                    BY <4>4 DEF IInv, Stalls
                <5> QED BY <1>1, <1>3, <1>5, <2>1, <3>2, <4>1, <4>4, <5>1, <5>2
                        DEF WriteLink, Upto
            <4> QED BY <4>1, <4>2, <4>3, <4>4
        <3> QED BY <1>1, <3>1, <3>2
    <2>5. Link'
        BY <1>1, <1>3, <2>1, <2>3, <2>4 DEF Link
    <2>6. AddressEnds'
        BY <1>1, <2>1 DEF IInv, AddressEnds, Ended, Live
    <2> QED BY <1>1, <1>2, <1>4, <1>8, <1>9, <2>1, <2>2, <2>5, <2>6, AnswerStep
\* It has, at the end of a read.
<1>11. CASE ~damaged /\ ack /\ stage = "status"
    <2>1. /\ stage' = "idle" /\ hreq' = NoReq /\ hdata' = <<>> /\ hdt' = 1
          /\ n' = n /\ accepted' = accepted
        <3>1. HostDone /\ hreq.kind # "address"
            BY <1>3, <1>11 DEF OutTransaction, HostSent, IsRead
        <3> QED BY <3>1 DEF HostDone, HostIdle
    <2>2. Types'
        <3>1. NoReq \in HostReq
            BY DEF NoReq, HostReq, Kind
        <3> QED BY <1>1, <1>7, <2>1, <3>1, EmptySeq DEF IInv, Types, Stage
    <2>3. Link'
        BY <2>1 DEF Link
    <2>4. AddressEnds'
        BY <1>1, <2>1 DEF IInv, AddressEnds, Ended, Live
    <2> QED BY <1>1, <1>2, <1>4, <1>8, <1>9, <2>1, <2>2, <2>3, <2>4, AnswerStep
\* It has, in the data of a write.
<1>12. CASE ~damaged /\ ack /\ stage = "data"
    <2> DEFINE next == Upto(hreq, Len(hdata))
    <2>1. /\ hdata' = hdata \o HostPacket
          /\ stage' = NextStage(hdata \o HostPacket, HostPacket)
          /\ hdt' = IF stage' = "status" THEN 1 ELSE 1 - hdt
          /\ hreq' = hreq /\ n' = n /\ accepted' = accepted
        BY <1>12 DEF OutTransaction, HostSent
    <2>2. /\ Len(hdata') = next /\ next \in Nat /\ next <= hreq.len
          /\ stage' = IF next = hreq.len THEN "status" ELSE "data"
        BY <1>1, <1>3, <1>12, <2>1, WriteGrows
    <2> HIDE DEF next
    <2>3. Types'
        <3>1. hdata' \in Seq(Unit) /\ hdt' \in {0, 1} /\ stage' \in Stage
            BY <1>6, <2>1, <2>2, ConcatProperties DEF IInv, Types, Stage
        <3> QED BY <1>1, <1>7, <2>1, <3>1 DEF IInv, Types
    <2>4. ReadLink'
        BY <1>3, <1>12, <2>1 DEF ReadLink
    <2>5. /\ hreq.len \in Nat /\ out_dt \in {0, 1} /\ hdt \in {0, 1}
          /\ ctrl \in {"STALL", "DATA_OUT", "STATUS_DONE_IN"}
        BY <1>3, <1>12 DEF IInv, Types, HostReq, WriteLink
    <2>6. WriteLink'
        <3>1. next # hreq.len => next < hreq.len
            BY <2>2, <2>5
        <3>2. CASE ctrl = "STALL"
            BY <1>1, <2>1, <2>2, <3>1, <3>2 DEF WriteLink
        <3>3. CASE ctrl = "STATUS_DONE_IN"
            <4>1. next = hreq.len
                BY <1>3, <1>12, <3>3 DEF WriteLink, next
            <4> QED BY <1>1, <2>1, <2>2, <3>3, <4>1 DEF WriteLink
        <3>4. CASE ctrl = "DATA_OUT"
            <4>1. xfer.ofs < hreq.len /\ out_bd.st # "stall"
                BY <1>3, <3>4 DEF IInv, StoreShape, Stalls
            <4>2. CASE out_bd.st \in {"data", "err"} /\ out_dt # hdt
                <5>1. next = xfer.ofs
                    BY <1>3, <1>12, <3>4, <4>2 DEF WriteLink, next
                <5>2. stage' = "data" /\ hdt' = 1 - hdt
                    BY <2>1, <2>2, <2>5, <4>1, <5>1
                <5>3. out_bd' = out_bd /\ out_dt' = out_dt
                    BY <1>5, <1>12, <4>2
                <5> QED BY <1>1, <2>1, <2>2, <2>5, <3>4, <4>1, <4>2, <5>1, <5>2, <5>3
                        DEF WriteLink
            <4>3. CASE ~(out_bd.st \in {"data", "err"} /\ out_dt # hdt)
                <5>1. Len(hdata) = xfer.ofs /\ out_bd'.st = "ok"
                      /\ out_dt' # hdt
                    BY <1>3, <1>5, <1>12, <2>5, <3>4, <4>1, <4>3 DEF WriteLink
                <5>2. next = Upto(hreq, xfer.ofs) /\ out_dt' \in {0, 1}
                    BY <1>7, <5>1 DEF next
                <5>3. CASE next = hreq.len
                    BY <1>1, <2>1, <2>2, <3>4, <5>1, <5>2, <5>3
                       DEF WriteLink, Upto
                <5>4. CASE next # hreq.len
                    <6>1. stage' = "data" /\ hdt' = out_dt' /\ Len(hdata') < hreq.len
                        BY <2>1, <2>2, <2>5, <3>1, <5>1, <5>2, <5>4
                    <6> QED BY <1>1, <2>1, <2>2, <3>4, <5>1, <5>2, <6>1
                            DEF WriteLink, Upto
                <5> QED BY <5>3, <5>4
            <4> QED BY <4>2, <4>3
        <3> QED BY <2>5, <3>2, <3>3, <3>4
    <2>7. Link'
        BY <1>1, <1>3, <2>1, <2>4, <2>6 DEF Link
    <2>8. AddressEnds'
        BY <1>1, <2>1 DEF IInv, AddressEnds, Ended, Live
    <2>9. stage' \in {"data", "status"}
        BY <2>2
    <2> QED BY <1>1, <1>2, <1>4, <1>8, <1>9, <2>1, <2>3, <2>7, <2>8, <2>9, AnswerStep
<1> QED BY <1>1, <1>10, <1>11, <1>12

LEMMA StallTransactionStep ==
    ASSUME IInv, NEW received \in BOOLEAN, StallTransaction(received) PROVE IInv'
<1>1. /\ Live /\ stage \in {"data", "status"} /\ ~cel
      /\ serv' = serv /\ rst' = rst /\ cel' = cel
      /\ setup_bd' = setup_bd /\ out_dt' = out_dt /\ in_dt' = in_dt /\ addr' = addr
      /\ state' = state /\ ctrl' = ctrl /\ req' = req /\ xfer' = xfer /\ n' = n
      /\ pc' = pc /\ seen' = seen /\ delivered' = delivered /\ acked' = acked
      /\ accepted' = accepted
    BY DEF StallTransaction, Heard, Online, Live, IInv, Types, DevState, busVars,
           devVars, ctrlVars, pollVars, history, hostVars
<1>2. UNCHANGED <<ctrlVars, pollVars>>
    BY DEF StallTransaction
<1>3. \/ /\ in_bd.st = "stall" /\ in_bd' = [st |-> "ok", data |-> <<>>]
         /\ out_bd' = out_bd
      \/ /\ out_bd.st = "stall" /\ out_bd' = [st |-> "ok", data |-> <<>>]
         /\ in_bd' = in_bd
    BY DEF StallTransaction, Bd
<1>4. ctrl = "STALL"
    BY <1>3 DEF IInv, Stalls
<1>5. Shapes'
    BY <1>1, <1>3, <1>4 DEF IInv, Shapes, Stalls, IdleShape, SendShape, StoreShape
<1>6. AckedEnds' /\ AddressEnds'
    BY <1>1, <1>4 DEF IInv, AckedEnds, AddressEnds, Ended, DeliveredIds
<1>7. \/ stage' = stage /\ hreq' = hreq /\ hdata' = hdata /\ hdt' = hdt
      \/ stage' = "idle" /\ hreq' = NoReq /\ hdata' = <<>> /\ hdt' = 1
    BY DEF StallTransaction, hostVars, HostIdle
<1>8. Link'
    BY <1>1, <1>4, <1>7 DEF IInv, Link, ReadLink, WriteLink
<1>9. Types'
    <2>1. NoReq \in HostReq /\ <<>> \in Seq(Unit)
        BY EmptySeq DEF NoReq, HostReq, Kind
    <2>2. in_bd' \in Descriptor /\ out_bd' \in Descriptor
        <3>1. [st |-> "ok", data |-> <<>>] \in Descriptor
            BY <2>1 DEF Descriptor, BdState
        <3>2. in_bd \in Descriptor /\ out_bd \in Descriptor
            BY DEF IInv, Types
        <3> QED BY <1>3, <3>1, <3>2
    <2>3. stage' \in Stage /\ hreq' \in HostReq /\ hdata' \in Seq(Unit)
          /\ hdt' \in {0, 1}
        BY <1>7, <2>1 DEF IInv, Types, Stage
    <2> QED BY <1>1, <2>2, <2>3 DEF IInv, Types
<1> QED BY <1>1, <1>2, <1>3, <1>5, <1>6, <1>7, <1>8, <1>9, AnswerStep


----------------------------------------------------------------------------
(***************************************************************************)
(* The firmware.                                                           *)
(***************************************************************************)

\* What the steps of usb_ep0_poll have in common.
LEMMA ActStep ==
    ASSUME IInv, pc = "act", pc' \in {"peek", "idle"},
           UNCHANGED <<hostVars, rst, accepted, acked>>,
           state' = state \/ state' \in {"default", "configured"},
           Types', Waits', Shapes', Link', Before', DeliveredWhole', AckedEnds',
           AddressEnds', AddressAssigned'
    PROVE  IInv'
<1>1. state \in {"default", "configured"} /\ state' \in {"default", "configured"}
    BY DEF IInv, Quiet, Types, DevState
<1>2. Quiet' /\ Transfer' /\ SeenTrue'
    BY <1>1 DEF IInv, Quiet, Live, Transfer, SeenTrue, hostVars
<1> QED BY <1>2 DEF IInv, Shapes

\* A step that leaves requests, completions and the address alone.
LEMMA ServeStep ==
    ASSUME IInv, pc = "act", pc' \in {"peek", "idle"},
           UNCHANGED <<serv, hostVars, rst, seen, state, accepted, acked, addr, req,
                       delivered, cel, out_dt, in_dt>>,
           setup_bd' = setup_bd \/ (setup_bd.st = "err" /\ setup_bd' = Ready),
           ~Ended \/ UNCHANGED <<ctrl, in_bd>>, Ended' => Ended,
           ctrl' \in Ctrl, in_bd' \in Descriptor, out_bd' \in Descriptor,
           xfer' \in [len : Nat, ofs : Nat, data : Seq(Unit)],
           Shapes', (~cel /\ stage \in {"data", "status"}) => ReadLink' /\ WriteLink'
    PROVE  IInv'
<1>1. /\ serv' = serv /\ rst' = rst /\ state' = state /\ seen' = seen
      /\ accepted' = accepted /\ acked' = acked /\ addr' = addr /\ req' = req
      /\ delivered' = delivered /\ cel' = cel /\ out_dt' = out_dt /\ in_dt' = in_dt
      /\ stage' = stage /\ hreq' = hreq /\ n' = n /\ hdata' = hdata /\ hdt' = hdt
    BY DEF hostVars
<1>2. Ready = [st |-> "data", data |-> <<>>]
    BY DEF Ready, Bd
<1>3. Waits' /\ (cel => setup_bd' = setup_bd)
    BY <1>1, <1>2 DEF IInv, Waits
<1>4. Types'
    <2>1. setup_bd' \in [st : BdState, data : Seq(HostReq)]
        <3>1. Ready \in [st : BdState, data : Seq(HostReq)]
            BY <1>2, EmptySeq DEF BdState
        <3> QED BY <3>1 DEF IInv, Types
    <2>2. pc' \in PC
        BY DEF PC
    <2> QED BY <1>1, <2>1, <2>2 DEF IInv, Types
<1>5. Link'
    BY <1>1, <1>3 DEF IInv, Link
<1>6. Before' /\ DeliveredWhole'
    BY <1>1, <1>3 DEF IInv, Before, DeliveredWhole
<1>7. AckedEnds'
    <2>1. DeliveredIds' = DeliveredIds
        BY <1>1 DEF DeliveredIds
    <2>2. Ended => Ended'
        BY DEF Ended
    <2> QED BY <1>1, <2>1, <2>2 DEF IInv, AckedEnds
<1>8. AddressEnds' /\ AddressAssigned'
    BY <1>1 DEF IInv, AddressEnds, AddressAssigned, Live
<1> QED BY <1>1, <1>3, <1>4, <1>5, <1>6, <1>7, <1>8, ActStep

LEMMA RetrySetupStep == ASSUME IInv, RetrySetup PROVE IInv'
<1>1. /\ pc = "act" /\ pc' = "peek" /\ seen.setup = "err" /\ setup_bd' = Ready
      /\ UNCHANGED <<serv, hostVars, rst, seen, accepted, acked, state, cel,
                     out_bd, in_bd, out_dt, in_dt, addr, ctrlVars, delivered>>
    BY DEF RetrySetup, NotActed, AfterAct, busVars, devVars
<1>2. setup_bd.st = "err"
    BY <1>1 DEF IInv, SeenTrue
<1>3. ctrl' = ctrl /\ req' = req /\ xfer' = xfer /\ out_bd' = out_bd /\ in_bd' = in_bd
      /\ stage' = stage /\ hreq' = hreq /\ hdata' = hdata /\ hdt' = hdt
      /\ out_dt' = out_dt /\ in_dt' = in_dt /\ cel' = cel
    BY <1>1 DEF ctrlVars, hostVars
<1>4. Shapes'
    BY <1>1, SameShapes DEF IInv, Shapes
<1>5. (~cel /\ stage \in {"data", "status"}) => ReadLink' /\ WriteLink'
    BY <1>3 DEF IInv, Link, ReadLink, WriteLink
<1>6. /\ ctrl' \in Ctrl /\ in_bd' \in Descriptor /\ out_bd' \in Descriptor
      /\ xfer' \in [len : Nat, ofs : Nat, data : Seq(Unit)]
    BY <1>3 DEF IInv, Types
<1>7. Ended' = Ended
    BY <1>3 DEF Ended
<1> QED BY <1>1, <1>2, <1>3, <1>4, <1>5, <1>6, <1>7, ServeStep

LEMMA StallRefreshStep == ASSUME IInv, StallRefresh PROVE IInv'
<1>1. /\ pc = "act" /\ pc' = "peek" /\ ctrl = "STALL"
      /\ in_bd' = StallBd \/ in_bd' = in_bd
      /\ out_bd' = StallBd \/ out_bd' = out_bd
      /\ UNCHANGED <<serv, hostVars, rst, seen, accepted, acked, state, cel,
                     setup_bd, out_dt, in_dt, addr, ctrlVars, delivered>>
    BY DEF StallRefresh, AfterAct, busVars, devVars
<1>2. ctrl' = ctrl /\ req' = req /\ xfer' = xfer /\ delivered' = delivered
      /\ stage' = stage /\ hreq' = hreq /\ hdata' = hdata /\ hdt' = hdt
    BY <1>1 DEF ctrlVars, hostVars
<1>3. StallBd = [st |-> "stall", data |-> <<>>]
    BY DEF StallBd, Bd
<1>4. Shapes'
    BY <1>1, <1>2, <1>3 DEF IInv, Shapes, Stalls, IdleShape, SendShape, StoreShape
<1>5. (~cel /\ stage \in {"data", "status"}) => ReadLink' /\ WriteLink'
    BY <1>1, <1>2 DEF IInv, Link, ReadLink, WriteLink
<1>6. /\ ctrl' \in Ctrl /\ in_bd' \in Descriptor /\ out_bd' \in Descriptor
      /\ xfer' \in [len : Nat, ofs : Nat, data : Seq(Unit)]
    <2>1. StallBd \in Descriptor
        BY <1>3, EmptySeq DEF Descriptor, BdState
    <2> QED BY <1>1, <1>2, <2>1 DEF IInv, Types
<1>7. ~Ended /\ ~Ended'
    BY <1>1, <1>2 DEF Ended
<1> QED BY <1>1, <1>2, <1>4, <1>5, <1>6, <1>7, ServeStep

LEMMA RetryOutStep == ASSUME IInv, RetryOut PROVE IInv'
<1>1. /\ pc = "act" /\ pc' = "peek" /\ seen.out = "err" /\ out_bd' = Ready
      /\ ~(ctrl = "STALL")
      /\ UNCHANGED <<serv, hostVars, rst, seen, accepted, acked, state, cel,
                     setup_bd, in_bd, out_dt, in_dt, addr, ctrlVars, delivered>>
    BY DEF RetryOut, NotActed, AfterAct, busVars, devVars
<1>2. out_bd.st = "err"
    BY <1>1 DEF IInv, SeenTrue
<1>3. ctrl' = ctrl /\ req' = req /\ xfer' = xfer /\ delivered' = delivered
      /\ in_bd' = in_bd /\ cel' = cel /\ setup_bd' = setup_bd
      /\ out_dt' = out_dt /\ in_dt' = in_dt
      /\ stage' = stage /\ hreq' = hreq /\ hdata' = hdata /\ hdt' = hdt
    BY <1>1 DEF ctrlVars, hostVars
<1>4. out_bd' = [st |-> "data", data |-> <<>>] /\ out_bd'.st = "data"
    BY <1>1 DEF Ready, Bd
<1>5. Shapes'
    <2>1. Stalls' /\ IdleShape' /\ SendShape'
        BY <1>1, <1>2, <1>3, <1>4 DEF IInv, Stalls, IdleShape, SendShape
    <2>2. StoreShape'
        BY <1>2, <1>3, <1>4 DEF IInv, StoreShape
    <2> QED BY <2>1, <2>2 DEF Shapes
<1>6. ASSUME ~cel, stage \in {"data", "status"} PROVE ReadLink' /\ WriteLink'
    <2>1. ReadLink /\ WriteLink
        BY <1>6 DEF IInv, Link
    <2>2. ReadLink'
        BY <1>2, <1>3, <1>4, <2>1 DEF ReadLink
    <2>3. WriteLink'
        BY <1>2, <1>3, <1>4, <2>1 DEF WriteLink, Upto
    <2> QED BY <2>2, <2>3
<1>7. /\ ctrl' \in Ctrl /\ in_bd' \in Descriptor /\ out_bd' \in Descriptor
      /\ xfer' \in [len : Nat, ofs : Nat, data : Seq(Unit)]
    BY <1>3, <1>4, EmptySeq DEF IInv, Types, Descriptor, BdState
<1>8. Ended' = Ended
    BY <1>3 DEF Ended
<1> QED BY <1>1, <1>3, <1>5, <1>6, <1>7, <1>8, ServeStep

LEMMA StatusOutDoneStep == ASSUME IInv, StatusOutDone PROVE IInv'
<1>1. /\ pc = "act" /\ pc' = "peek" /\ ctrl = "STATUS_DONE_OUT"
      /\ "ok" \in {seen.in, seen.out}
      /\ in_bd' = NoBd \/ in_bd' = in_bd
      /\ UNCHANGED <<serv, hostVars, rst, seen, accepted, acked, state, cel,
                     setup_bd, out_dt, in_dt, req, xfer>>
    BY DEF StatusOutDone, AfterAct, busVars, devVars
<1>2. IsRead(req)
    BY <1>1 DEF IInv, SendShape
<1>3. /\ addr' = addr /\ delivered' = delivered
      /\ \/ ctrl' = "IDLE" /\ out_bd' = NoBd
         \/ ctrl' = ctrl /\ out_bd' = out_bd
    BY <1>2 DEF StatusOutDone, cb_done, IsRead
<1>4. NoBd = [st |-> "none", data |-> <<>>]
    BY DEF NoBd, Bd
<1>5. Shapes'
    BY <1>1, <1>2, <1>3, <1>4 DEF IInv, Shapes, Stalls, IdleShape, SendShape, StoreShape
<1>6. in_bd.st = "ok" \/ out_bd.st = "ok"
    BY <1>1 DEF IInv, SeenTrue
<1>7. ASSUME ~cel, stage \in {"data", "status"} PROVE ReadLink' /\ WriteLink'
    <2>1. ReadLink /\ hreq = req
        BY <1>7 DEF IInv, Link
    <2>2. stage = "status"
        BY <1>1, <1>2, <1>6, <1>7, <2>1 DEF ReadLink
    <2> QED BY <1>1, <1>2, <2>1, <2>2 DEF ReadLink, WriteLink, hostVars
<1>8. /\ ctrl' \in Ctrl /\ in_bd' \in Descriptor /\ out_bd' \in Descriptor
      /\ xfer' \in [len : Nat, ofs : Nat, data : Seq(Unit)]
    <2>1. NoBd \in Descriptor
        BY <1>4, EmptySeq DEF Descriptor, BdState
    <2> QED BY <1>1, <1>3, <2>1 DEF IInv, Types, Ctrl
<1>9. ~Ended /\ ~Ended'
    BY <1>1, <1>3 DEF Ended
<1> QED BY <1>1, <1>3, <1>5, <1>7, <1>8, <1>9, ServeStep


\* One more completion keeps the earlier ones.
LEMMA OneMoreDone ==
    ASSUME NEW S, NEW s \in Seq(S), NEW e \in S
    PROVE  /\ Append(s, e) \in Seq(S) /\ Len(Append(s, e)) = Len(s) + 1
           /\ \A i \in 1 .. Len(s) : /\ i \in 1 .. Len(Append(s, e))
                                    /\ Append(s, e)[i] = s[i]
<1>1. Len(s) \in Nat
    OBVIOUS
<1> QED BY <1>1, AppendProperties

LEMMA StatusInDoneStep == ASSUME IInv, StatusInDone PROVE IInv'
<1>1. /\ pc = "act" /\ pc' = "peek" /\ ctrl = "STATUS_DONE_IN" /\ seen.in = "ok"
      /\ ctrl' = "IDLE" /\ in_bd' = NoBd /\ cb_done
      /\ UNCHANGED <<serv, hostVars, rst, seen, accepted, acked, state, cel,
                     setup_bd, out_bd, out_dt, in_dt, req, xfer>>
    BY DEF StatusInDone, AfterAct, busVars, devVars
<1>2. Ended
    BY <1>1 DEF IInv, SeenTrue, Ended
<1>3. /\ ~IsRead(req) /\ xfer.ofs = xfer.len /\ out_bd.st = "none"
      /\ xfer.data = Units(req.id, 0, xfer.ofs)
      /\ \A i \in 1 .. Len(delivered) : delivered[i].id < req.id
    BY <1>1 DEF IInv, StoreShape
<1>4. NoBd = [st |-> "none", data |-> <<>>] /\ NoBd \in Descriptor
    BY EmptySeq DEF NoBd, Bd, Descriptor, BdState
<1>5. /\ req \in HostReq /\ xfer.ofs \in Nat /\ xfer.data \in Seq(Unit)
      /\ delivered \in Seq([id : Nat, data : Seq(Unit)]) /\ addr \in Nat /\ n \in Nat
    BY DEF IInv, Types
<1>6. /\ addr' \in {addr, req.value}
      /\ addr' = addr \/ req.kind = "address"
      /\ \/ req.kind # "write" /\ delivered' = delivered
         \/ /\ req.kind = "write"
            /\ delivered' = Append(delivered, [id |-> req.id, data |-> xfer.data])
    BY <1>1 DEF cb_done
<1>7. [id |-> req.id, data |-> xfer.data] \in [id : Nat, data : Seq(Unit)]
    BY <1>5 DEF HostReq
<1>8. Shapes'
    BY <1>1, <1>3, <1>4 DEF Shapes, Stalls, IdleShape, SendShape, StoreShape
<1>9. Types'
    <2>1. addr' \in Nat
        BY <1>5, <1>6 DEF HostReq
    <2>2. delivered' \in Seq([id : Nat, data : Seq(Unit)])
        <3> DEFINE S == [id : Nat, data : Seq(Unit)]
                   e == [id |-> req.id, data |-> xfer.data]
        <3>1. delivered \in Seq(S) /\ e \in S
              /\ (delivered' = delivered \/ delivered' = Append(delivered, e))
            BY <1>5, <1>6, <1>7
        <3> HIDE DEF S, e
        <3>2. delivered' \in Seq(S)
            BY <3>1, OneMoreDone
        <3> QED BY <3>2 DEF S
    <2> QED BY <1>1, <1>4, <2>1, <2>2 DEF IInv, Types, Ctrl, PC, hostVars
<1>10. Waits'
    BY <1>1 DEF IInv, Waits, hostVars
<1>11. Link'
    <2>1. ASSUME ~cel, stage \in {"data", "status"} PROVE ReadLink' /\ WriteLink'
        <3>1. WriteLink /\ hreq = req
            BY <2>1 DEF IInv, Link
        <3>2. stage = "status" /\ hdt = 1
            BY <1>1, <1>2, <1>3, <2>1, <3>1 DEF WriteLink, Ended
        <3> QED BY <1>1, <1>3, <3>1, <3>2 DEF ReadLink, WriteLink, hostVars
    <2> QED BY <1>1, <2>1 DEF IInv, Link, hostVars
<1>12. \A i \in 1 .. Len(delivered') :
           \/ i \in 1 .. Len(delivered) /\ delivered'[i] = delivered[i]
           \/ /\ i = Len(delivered) + 1 /\ req.kind = "write"
              /\ delivered'[i] = [id |-> req.id, data |-> xfer.data]
    <2>1. CASE delivered' = delivered
        BY <2>1
    <2>2. CASE req.kind = "write"
               /\ delivered' = Append(delivered, [id |-> req.id, data |-> xfer.data])
        <3> DEFINE e == [id |-> req.id, data |-> xfer.data]
        <3>1. delivered \in Seq([id : Nat, data : Seq(Unit)]) /\ Len(delivered) \in Nat
            BY <1>5
        <3>2. delivered' = Append(delivered, e)
            BY <2>2
        <3> HIDE DEF e
        <3>3. \A i \in 1 .. Len(delivered') :
                  \/ i \in 1 .. Len(delivered) /\ delivered'[i] = delivered[i]
                  \/ i = Len(delivered) + 1 /\ delivered'[i] = e
            BY <3>1, <3>2
        <3> QED BY <2>2, <3>3 DEF e
    <2> QED BY <1>6, <2>1, <2>2
<1>13. ~Ended'
    BY <1>1 DEF Ended
<1>14. Before'
    <2>1. /\ \A i \in 1 .. Len(delivered') :
                \/ delivered'[i].id = req.id
                \/ \E j \in 1 .. Len(delivered) : delivered'[i].id = delivered[j].id
          /\ n' = n /\ req' = req /\ cel' = cel /\ setup_bd' = setup_bd /\ stage' = stage
        BY <1>1, <1>12 DEF hostVars
    <2> QED BY <1>2, <1>13, <2>1 DEF IInv, Before
<1>15. DeliveredWhole'
    <2> SUFFICES ASSUME NEW i \in 1 .. Len(delivered')
                 PROVE  /\ delivered'[i].data =
                               Units(delivered'[i].id, 0, Len(delivered'[i].data))
                        /\ \A j \in 1 .. (i - 1) : delivered'[j].id < delivered'[i].id
        BY DEF DeliveredWhole
    <2>1. Len(delivered) \in Nat
        BY <1>5
    <2>2. CASE i \in 1 .. Len(delivered) /\ delivered'[i] = delivered[i]
        <3>1. \A j \in 1 .. (i - 1) : j \in 1 .. Len(delivered) /\ j # Len(delivered) + 1
                                      /\ j \in 1 .. Len(delivered')
            BY <2>1, <2>2
        <3>2. \A j \in 1 .. (i - 1) : delivered'[j] = delivered[j]
            BY <1>12, <3>1
        <3> QED BY <2>2, <3>2 DEF IInv, DeliveredWhole
    <2>3. CASE i = Len(delivered) + 1
               /\ delivered'[i] = [id |-> req.id, data |-> xfer.data]
        <3>1. Len(Units(req.id, 0, xfer.ofs)) = xfer.ofs
            BY <1>5, UnitsFirst DEF HostReq
        <3>2. delivered'[i].data = Units(req.id, 0, Len(delivered'[i].data))
            BY <1>3, <2>3, <3>1
        <3>3. \A j \in 1 .. (i - 1) : j \in 1 .. Len(delivered) /\ j # Len(delivered) + 1
                                      /\ j \in 1 .. Len(delivered')
            BY <2>1, <2>3
        <3>4. \A j \in 1 .. (i - 1) : delivered'[j].id < req.id
            BY <1>3, <1>12, <3>3
        <3> QED BY <2>3, <3>2, <3>4
    <2> QED BY <1>12, <2>2, <2>3
<1>16. AckedEnds'
    <2> SUFFICES ASSUME NEW id \in acked PROVE id \in DeliveredIds'
        BY <1>1 DEF AckedEnds
    <2>1. Len(delivered) \in Nat
        BY <1>5
    <2>2. CASE id \in DeliveredIds
        <3>1. PICK i \in 1 .. Len(delivered) : id = delivered[i].id
            BY <2>2 DEF DeliveredIds
        <3>2. i \in 1 .. Len(delivered') /\ delivered'[i] = delivered[i]
            <4> DEFINE S == [id : Nat, data : Seq(Unit)]
                       e == [id |-> req.id, data |-> xfer.data]
            <4>1. delivered \in Seq(S) /\ e \in S
                  /\ (delivered' = delivered \/ delivered' = Append(delivered, e))
                BY <1>5, <1>6, <1>7
            <4> HIDE DEF S, e
            <4> QED BY <3>1, <4>1, OneMoreDone
        <3> QED BY <3>1, <3>2 DEF DeliveredIds
    <2>3. CASE id \notin DeliveredIds
        <3>1. req.id = id /\ req.kind = "write"
            BY <2>3 DEF IInv, AckedEnds
        <3>2. /\ Len(delivered) + 1 \in 1 .. Len(delivered')
              /\ delivered'[Len(delivered) + 1] = [id |-> req.id, data |-> xfer.data]
            BY <1>5, <1>6, <1>7, <2>1, <3>1
        <3> QED BY <3>1, <3>2 DEF DeliveredIds
    <2> QED BY <2>2, <2>3
<1>17. AddressEnds' /\ AddressAssigned'
    <2>1. Live => (req.kind = "address" => req.value \in accepted)
        BY <1>2 DEF IInv, AddressEnds
    <2>2. AddressAssigned'
        BY <1>1, <1>6, <2>1 DEF IInv, AddressAssigned, Live
    <2> QED BY <1>13, <2>2 DEF AddressEnds
<1> QED BY <1>1, <1>8, <1>9, <1>10, <1>11, <1>14, <1>15, <1>16, <1>17, ActStep


Transferred == [len : Nat, ofs : Nat, data : Seq(Unit)]

\* usb_handle_control_data with a read: the next units, a short packet last.
LEMMA SendPacketIs ==
    ASSUME NEW r \in HostReq, NEW x \in Transferred, NEW out, IsRead(r),
           x.len = XferLen(r), x.ofs <= x.len, SendPacket(r, x, out)
    PROVE  /\ in_bd' \in Descriptor /\ in_bd'.st = "data"
           /\ Len(in_bd'.data) \in Nat /\ Len(in_bd'.data) <= PktLen
           /\ xfer' \in Transferred /\ xfer'.len = XferLen(r)
           /\ xfer'.ofs = x.ofs + Len(in_bd'.data) /\ xfer'.ofs <= xfer'.len
           /\ xfer'.ofs - Len(in_bd'.data) = x.ofs
           /\ in_bd'.data = Units(r.id, x.ofs, xfer'.ofs)
           /\ \/ /\ Len(in_bd'.data) < PktLen /\ xfer'.ofs = xfer'.len
                 /\ ctrl' = "STATUS_DONE_OUT" /\ out_bd' = Ready
              \/ /\ Len(in_bd'.data) = PktLen
                 /\ ctrl' = "DATA_IN" /\ out_bd' = out
<1> DEFINE pu == PacketUnits(x)
<1>1. x.ofs \in Nat /\ x.len \in Nat /\ r.id \in Nat /\ x.data \in Seq(Unit)
    BY DEF Transferred, HostReq
<1>2. pu \in {PktLen, x.len - x.ofs} /\ pu <= PktLen /\ pu <= x.len - x.ofs
    BY <1>1, SmallerIs, Packets DEF PacketUnits
<1>3. pu \in Nat
    BY <1>1, <1>2, Packets
<1>4. x.ofs + pu \in Nat /\ x.ofs <= x.ofs + pu /\ (x.ofs + pu) - x.ofs = pu
      /\ (x.ofs + pu) - pu = x.ofs
    BY <1>1, <1>3
<1>5. /\ in_bd' = [st |-> "data", data |-> Units(r.id, x.ofs, x.ofs + pu)]
      /\ xfer' = [x EXCEPT !.ofs = x.ofs + pu]
      /\ IF pu < PktLen THEN out_bd' = Ready /\ ctrl' = "STATUS_DONE_OUT"
                        ELSE out_bd' = out /\ ctrl' = "DATA_IN"
    BY DEF SendPacket, Bd
<1> HIDE DEF pu
<1>6. /\ Units(r.id, x.ofs, x.ofs + pu) \in Seq(Unit)
      /\ Len(Units(r.id, x.ofs, x.ofs + pu)) = pu
    BY <1>1, <1>4, UnitsAre
<1>7. xfer' \in Transferred /\ xfer'.ofs = x.ofs + pu /\ xfer'.len = x.len
    BY <1>4, <1>5 DEF Transferred
<1>8. in_bd' \in Descriptor /\ in_bd'.st = "data" /\ Len(in_bd'.data) = pu
      /\ in_bd'.data = Units(r.id, x.ofs, xfer'.ofs)
    BY <1>5, <1>6, <1>7 DEF Descriptor, BdState
<1>9. x.ofs + pu <= x.len /\ (pu < PktLen => x.ofs + pu = x.len)
      /\ (~(pu < PktLen) => pu = PktLen)
    BY <1>1, <1>2, <1>3, Packets
<1> QED BY <1>2, <1>3, <1>4, <1>5, <1>7, <1>8, <1>9

\* ... and the shapes after it.
LEMMA SendShapes ==
    ASSUME NEW r \in HostReq, NEW x \in Transferred, NEW out, IsRead(r),
           x.len = XferLen(r), x.ofs <= x.len, SendPacket(r, x, out), req' = r,
           out.st = "none"
    PROVE  Shapes'
<1>1. /\ in_bd'.st = "data" /\ Len(in_bd'.data) \in Nat
      /\ xfer'.len = XferLen(r) /\ xfer'.ofs = x.ofs + Len(in_bd'.data)
      /\ xfer'.ofs <= xfer'.len /\ xfer'.ofs - Len(in_bd'.data) = x.ofs
      /\ in_bd'.data = Units(r.id, x.ofs, xfer'.ofs)
      /\ \/ /\ Len(in_bd'.data) < PktLen /\ xfer'.ofs = xfer'.len
            /\ ctrl' = "STATUS_DONE_OUT" /\ out_bd' = Ready
         \/ /\ Len(in_bd'.data) = PktLen
            /\ ctrl' = "DATA_IN" /\ out_bd' = out
    BY SendPacketIs
<1>2. Ready.st = "data"
    BY DEF Ready, Bd
<1>3. x.ofs \in Nat
    BY DEF Transferred
<1>4. Len(in_bd'.data) <= xfer'.ofs
    BY <1>1, <1>3
<1>5. in_bd'.data = Units(req'.id, xfer'.ofs - Len(in_bd'.data), xfer'.ofs)
    BY <1>1
<1>6. XferLen(req)' = XferLen(r) /\ IsRead(req)' = IsRead(r)
    BY DEF XferLen, IsRead
<1>7. SendShape'
    BY <1>1, <1>4, <1>5, <1>6 DEF SendShape
<1>8. Stalls' /\ IdleShape' /\ StoreShape'
    BY <1>1, <1>2 DEF Stalls, IdleShape, StoreShape
<1> QED BY <1>7, <1>8 DEF Shapes

\* usb_handle_control_data with a write: what has come is stored.
LEMMA StorePacketIs ==
    ASSUME NEW r \in HostReq, NEW x \in Transferred, NEW packet, NEW in, NEW q \in Nat,
           x.len = r.len, x.ofs <= q, q <= x.len,
           x.data = Units(r.id, 0, x.ofs), packet = Units(r.id, x.ofs, q),
           StorePacket(x, packet, in)
    PROVE  /\ xfer' \in Transferred
           /\ xfer'.len = r.len /\ xfer'.ofs = q /\ xfer'.data = Units(r.id, 0, q)
           /\ \/ /\ q = r.len /\ ctrl' = "STATUS_DONE_IN"
                 /\ in_bd' = [st |-> "data", data |-> <<>>] /\ out_bd' = NoBd
              \/ /\ q < r.len /\ ctrl' = "DATA_OUT"
                 /\ in_bd' = in /\ out_bd' = Ready
<1>1. /\ x.ofs \in Nat /\ x.len \in Nat /\ r.id \in Nat /\ r.len \in Nat
      /\ x = [len |-> x.len, ofs |-> x.ofs, data |-> x.data]
    BY DEF Transferred, HostReq
<1>2. Len(packet) = q - x.ofs
    BY <1>1, UnitsAre
<1>3. x.data \o packet = Units(r.id, 0, q)
    <2>1. Units(r.id, 0, x.ofs) \o Units(r.id, x.ofs, q) = Units(r.id, 0, q)
        BY <1>1, UnitsJoin
    <2> QED BY <2>1
<1>4. x.ofs + Len(packet) = q
    BY <1>1, <1>2
<1> DEFINE y == [x EXCEPT !.ofs = x.ofs + Len(packet), !.data = x.data \o packet]
<1>5. y.len = r.len /\ y.ofs = q /\ y.data = Units(r.id, 0, q)
    <2>1. y.ofs = x.ofs + Len(packet) /\ y.data = x.data \o packet /\ y.len = x.len
        BY DEF Transferred
    <2> QED BY <1>3, <1>4, <2>1
<1>6. /\ xfer' = y
      /\ IF y.ofs = y.len
         THEN /\ in_bd' = [st |-> "data", data |-> <<>>]
              /\ out_bd' = NoBd /\ ctrl' = "STATUS_DONE_IN"
         ELSE out_bd' = Ready /\ in_bd' = in /\ ctrl' = "DATA_OUT"
    BY DEF StorePacket, Bd
<1> HIDE DEF y
<1>8. Units(r.id, 0, q) \in Seq(Unit)
    BY <1>1, UnitsFirst
<1>9. y \in Transferred
    <2>1. x.ofs + Len(packet) \in Nat /\ x.data \o packet \in Seq(Unit)
        BY <1>3, <1>4, <1>8
    <2> QED BY <2>1 DEF y, Transferred
<1>10. q # r.len => q < r.len
    BY <1>1
<1> QED BY <1>5, <1>6, <1>9, <1>10

LEMMA StoreShapes ==
    ASSUME NEW r \in HostReq, ~IsRead(r), req' = r, in_dt' = 1,
           NEW q \in Nat, q <= r.len,
           xfer'.len = r.len, xfer'.ofs = q, xfer'.data = Units(r.id, 0, q),
           \/ /\ q = r.len /\ ctrl' = "STATUS_DONE_IN"
              /\ in_bd' = [st |-> "data", data |-> <<>>] /\ out_bd' = NoBd
           \/ /\ q < r.len /\ ctrl' = "DATA_OUT"
              /\ in_bd'.st = "none" /\ out_bd' = Ready,
           \A i \in 1 .. Len(delivered') : delivered'[i].id < r.id
    PROVE  Shapes'
<1>1. ~IsRead(req)'
    BY DEF IsRead
<1>2. \/ /\ q = r.len /\ ctrl' = "STATUS_DONE_IN"
         /\ in_bd'.st = "data" /\ out_bd'.st = "none"
      \/ /\ q < r.len /\ ctrl' = "DATA_OUT"
         /\ in_bd'.st = "none" /\ out_bd'.st = "data"
    BY DEF NoBd, Ready, Bd
<1>3. Stalls' /\ IdleShape' /\ SendShape'
    BY <1>2 DEF Stalls, IdleShape, SendShape
<1>4. StoreShape'
    BY <1>1, <1>2 DEF StoreShape
<1> QED BY <1>3, <1>4 DEF Shapes


LEMMA DataOutStep == ASSUME IInv, DataOut PROVE IInv'
<1>1. /\ pc = "act" /\ pc' = "peek" /\ seen.out = "ok"
      /\ ~(ctrl = "STATUS_DONE_OUT") /\ ~(ctrl = "STALL")
      /\ UNCHANGED <<serv, hostVars, rst, seen, accepted, acked, state, cel,
                     setup_bd, out_dt, in_dt, addr, req, delivered>>
    BY DEF DataOut, NotActed, AfterAct, busVars, devVars
<1>2. out_bd.st = "ok"
    BY <1>1 DEF IInv, SeenTrue
<1>3. ctrl = "DATA_OUT"
    BY <1>1, <1>2 DEF IInv, Types, Ctrl, IdleShape, SendShape, StoreShape
<1>4. /\ ~IsRead(req) /\ xfer.len = req.len /\ xfer.ofs < xfer.len
      /\ xfer.data = Units(req.id, 0, xfer.ofs)
      /\ out_bd.data = Units(req.id, xfer.ofs, Upto(req, xfer.ofs))
      /\ in_bd.st = "none" /\ in_dt = 1
      /\ \A i \in 1 .. Len(delivered) : delivered[i].id < req.id
    BY <1>2, <1>3 DEF IInv, StoreShape
<1>5. /\ req \in HostReq /\ xfer \in Transferred /\ hdt \in {0, 1} /\ out_dt \in {0, 1}
      /\ in_bd \in Descriptor
    BY DEF IInv, Types, Transferred
<1> DEFINE q == Upto(req, xfer.ofs)
<1>6. q \in Nat /\ xfer.ofs <= q /\ q <= xfer.len
    <2>1. xfer.ofs \in Nat /\ xfer.len \in Nat /\ PktLen \in Nat /\ PktLen > 0
        BY <1>5, Packets DEF Transferred
    <2>2. q \in {xfer.len, xfer.ofs + PktLen} /\ q <= xfer.len
        BY <1>4, <2>1, SmallerIs DEF Upto
    <2> QED BY <1>4, <2>1, <2>2
<1>7. StorePacket(xfer, out_bd.data, in_bd)
    BY <1>3 DEF DataOut
<1> HIDE DEF q
<1>8. /\ xfer' \in Transferred
      /\ xfer'.len = req.len /\ xfer'.ofs = q /\ xfer'.data = Units(req.id, 0, q)
      /\ \/ /\ q = req.len /\ ctrl' = "STATUS_DONE_IN"
            /\ in_bd' = [st |-> "data", data |-> <<>>] /\ out_bd' = NoBd
         \/ /\ q < req.len /\ ctrl' = "DATA_OUT"
            /\ in_bd' = in_bd /\ out_bd' = Ready
    <2>1. out_bd.data = Units(req.id, xfer.ofs, q)
        BY <1>4 DEF q
    <2> QED BY <1>4, <1>5, <1>6, <1>7, <2>1, StorePacketIs
<1>9. Shapes'
    <2>1. req' = req /\ in_dt' = 1 /\ delivered' = delivered /\ q <= req.len
          /\ (in_bd' = in_bd => in_bd'.st = "none")
        BY <1>1, <1>4, <1>6
    <2> QED BY <1>4, <1>5, <1>6, <1>8, <2>1, StoreShapes
<1>10. ASSUME ~cel, stage \in {"data", "status"} PROVE ReadLink' /\ WriteLink'
    <2>1. req = hreq /\ WriteLink /\ hreq.len \in Nat
        BY <1>5, <1>10 DEF IInv, Link, HostReq
    <2>2. /\ stage' = stage /\ hreq' = hreq /\ hdata' = hdata /\ hdt' = hdt
          /\ out_dt' = out_dt
        BY <1>1 DEF hostVars
    <2>3. out_bd'.st \in {"none", "data"} /\ (q < req.len => out_bd'.st = "data")
        BY <1>8, <2>1 DEF NoBd, Ready, Bd
    <2>4. ReadLink'
        BY <1>4, <2>1, <2>2 DEF ReadLink, IsRead
    <2>5. CASE stage = "status"
        <3>1. hdt = 1 /\ q = hreq.len
            BY <1>3, <1>4, <2>1, <2>5 DEF WriteLink, q
        <3>2. ctrl' = "STATUS_DONE_IN"
            BY <1>8, <2>1, <3>1
        <3>3. WriteLink'
            BY <2>2, <2>5, <3>1, <3>2 DEF WriteLink
        <3> QED BY <2>4, <3>3
    <2>6. CASE stage = "data"
        <3>1. /\ Len(hdata) < hreq.len
              /\ \/ hdt = out_dt /\ Len(hdata) = q
                 \/ hdt # out_dt /\ Len(hdata) = xfer.ofs
            BY <1>2, <1>3, <1>4, <2>1, <2>6 DEF WriteLink, q
        <3>2. CASE ctrl' = "STATUS_DONE_IN"
            <4>1. q = hreq.len /\ in_bd'.st = "data"
                BY <1>8, <2>1, <3>2
            <4>2. hdt # out_dt /\ Upto(hreq, Len(hdata)) = hreq.len
                BY <2>1, <3>1, <4>1 DEF q
            <4>3. Upto(hreq, Len(hdata))' = Upto(hreq, Len(hdata))
                BY <2>2 DEF Upto
            <4>4. WriteLink'
                BY <2>2, <2>6, <3>1, <3>2, <4>1, <4>2, <4>3 DEF WriteLink
            <4> QED BY <2>4, <4>4
        <3>3. CASE ctrl' = "DATA_OUT"
            <4>1. out_bd'.st = "data"
                BY <1>8, <2>3, <3>3
            <4>2. Upto(hreq, Len(hdata))' = Upto(hreq, Len(hdata))
                BY <2>2 DEF Upto
            <4>3. \/ hdt = out_dt /\ Len(hdata) = xfer'.ofs
                  \/ hdt # out_dt /\ xfer'.ofs = Upto(hreq, Len(hdata))
                BY <1>8, <2>1, <3>1 DEF q
            <4>4. WriteLink'
                BY <2>2, <2>6, <3>1, <3>3, <4>1, <4>2, <4>3 DEF WriteLink
            <4> QED BY <2>4, <4>4
        <3> QED BY <1>8, <3>2, <3>3
    <2> QED BY <1>10, <2>5, <2>6
<1>11. /\ ctrl' \in Ctrl /\ in_bd' \in Descriptor /\ out_bd' \in Descriptor
    <2>1. /\ [st |-> "data", data |-> <<>>] \in Descriptor
          /\ NoBd \in Descriptor /\ Ready \in Descriptor
        BY EmptySeq DEF Descriptor, BdState, NoBd, Ready, Bd
    <2> QED BY <1>5, <1>8, <2>1 DEF Ctrl
<1>12. ~Ended /\ ~Ended'
    BY <1>3, <1>4, <1>8 DEF Ended
<1> QED BY <1>1, <1>8, <1>9, <1>10, <1>11, <1>12, ServeStep DEF Transferred

LEMMA DataInStep == ASSUME IInv, DataIn PROVE IInv'
<1>1. /\ pc = "act" /\ pc' = "peek" /\ seen.in = "ok"
      /\ ctrl \notin {"STATUS_DONE_OUT", "STATUS_DONE_IN", "STALL"}
      /\ UNCHANGED <<serv, hostVars, rst, seen, accepted, acked, state, cel,
                     setup_bd, out_dt, in_dt, addr, req, delivered>>
    BY DEF DataIn, NotActed, AfterAct, busVars, devVars
<1>2. in_bd.st = "ok"
    BY <1>1 DEF IInv, SeenTrue
<1>3. ctrl \in {"DATA_IN", "IDLE"}
    BY <1>1, <1>2 DEF IInv, Types, Ctrl, StoreShape
<1>4. IsRead(req)
    BY <1>2, <1>3 DEF IInv, IdleShape, SendShape
<1>5. /\ req \in HostReq /\ xfer \in Transferred /\ out_bd \in Descriptor
    BY DEF IInv, Types, Transferred
<1>6. /\ stage' = stage /\ hreq' = hreq /\ hdata' = hdata /\ hdt' = hdt
      /\ in_dt' = in_dt /\ req' = req /\ delivered' = delivered
    BY <1>1 DEF hostVars
<1>7. ~Ended
    BY <1>3 DEF Ended
<1>8. CASE ctrl = "DATA_IN"
    <2>1. SendPacket(req, xfer, out_bd)
        BY <1>8 DEF DataIn
    <2>2. /\ xfer.len = XferLen(req) /\ xfer.ofs <= xfer.len
          /\ out_bd.st = "none"
        BY <1>8 DEF IInv, SendShape
    <2>3. /\ in_bd' \in Descriptor /\ in_bd'.st = "data"
          /\ xfer' \in Transferred /\ xfer'.ofs - Len(in_bd'.data) = xfer.ofs
          /\ \/ ctrl' = "STATUS_DONE_OUT" /\ out_bd' = Ready
             \/ /\ Len(in_bd'.data) = PktLen
                /\ ctrl' = "DATA_IN" /\ out_bd' = out_bd
        BY <1>4, <1>5, <2>1, <2>2, SendPacketIs
    <2>4. Shapes'
        BY <1>4, <1>5, <1>6, <2>1, <2>2, SendShapes
    <2>5. ASSUME ~cel, stage \in {"data", "status"} PROVE ReadLink' /\ WriteLink'
        <3>1. req = hreq /\ ReadLink
            BY <2>5 DEF IInv, Link
        <3>2. WriteLink'
            BY <1>4, <1>6, <3>1 DEF WriteLink, IsRead
        <3>3. CASE stage = "status"
            BY <1>4, <1>6, <3>1, <3>2, <3>3 DEF ReadLink
        <3>4. CASE stage = "data"
            <4>1. hdt = in_dt /\ hdata = Units(hreq.id, 0, xfer.ofs)
                BY <1>2, <1>4, <1>8, <3>1, <3>4 DEF ReadLink
            <4>2. ctrl' = "STATUS_DONE_OUT" => out_bd'.st = "data"
                BY <2>3 DEF Ready, Bd
            <4>3. ctrl' = "DATA_IN" => xfer'.ofs - PktLen = xfer.ofs
                BY <2>3
            <4>4. ReadLink'
                BY <1>6, <2>3, <3>4, <4>1, <4>2, <4>3 DEF ReadLink
            <4> QED BY <3>2, <4>4
        <3> QED BY <2>5, <3>3, <3>4
    <2>6. ctrl' \in Ctrl /\ out_bd' \in Descriptor
        <3>1. Ready \in Descriptor
            BY EmptySeq DEF Ready, Bd, Descriptor, BdState
        <3> QED BY <1>5, <2>3, <3>1 DEF Ctrl
    <2>7. ~Ended'
        BY <2>3 DEF Ended
    <2> QED BY <1>1, <1>7, <2>3, <2>4, <2>5, <2>6, <2>7, ServeStep DEF Transferred
<1>9. CASE ctrl = "IDLE"
    <2>1. in_bd' = NoBd /\ out_bd' = out_bd /\ ctrl' = ctrl /\ xfer' = xfer
        BY <1>9 DEF DataIn
    <2>2. NoBd = [st |-> "none", data |-> <<>>] /\ NoBd \in Descriptor
        BY EmptySeq DEF NoBd, Bd, Descriptor, BdState
    <2>3. Shapes'
        BY <1>6, <1>9, <2>1, <2>2
           DEF IInv, Shapes, Stalls, IdleShape, SendShape, StoreShape
    <2>4. ASSUME ~cel, stage \in {"data", "status"} PROVE ReadLink' /\ WriteLink'
        <3>1. req = hreq /\ ReadLink
            BY <2>4 DEF IInv, Link
        <3>2. stage = "status"
            BY <1>4, <1>9, <2>4, <3>1 DEF ReadLink
        <3> QED BY <1>4, <1>6, <2>1, <3>1, <3>2 DEF ReadLink, WriteLink, IsRead
    <2>5. ctrl' \in Ctrl /\ in_bd' \in Descriptor /\ out_bd' \in Descriptor
          /\ xfer' \in Transferred
        BY <1>5, <2>1, <2>2 DEF IInv, Types
    <2>6. ~Ended'
        BY <1>9, <2>1 DEF Ended
    <2> QED BY <1>1, <1>7, <2>3, <2>4, <2>5, <2>6, ServeStep DEF Transferred
<1> QED BY <1>3, <1>8, <1>9


LEMMA HandleSetupStep == ASSUME IInv, HandleSetup PROVE IInv'
<1> DEFINE r == setup_bd.data[1]
           x == [len |-> XferLen(r), ofs |-> 0, data |-> <<>>]
<1>1. /\ pc = "act" /\ pc' = "idle" /\ seen.setup = "ok"
      /\ ~(ctrl = "STATUS_DONE_IN" /\ seen.in = "ok")
      /\ req' = r /\ addr' = addr /\ in_dt' = 1 /\ cel' = FALSE /\ setup_bd' = Ready
      /\ UNCHANGED <<serv, hostVars, rst, seen, accepted, acked, out_dt, delivered>>
    BY DEF HandleSetup, NotActed, AfterAct, AddressAtSetup, ToggleAtSetup, busVars
<1>2. \/ Handled(r) /\ IsRead(r) /\ SendPacket(r, x, NoBd)
      \/ Handled(r) /\ ~IsRead(r) /\ StorePacket(x, <<>>, NoBd)
      \/ /\ ~Handled(r) /\ xfer' = NoXfer /\ in_bd' = StallBd /\ out_bd' = StallBd
         /\ ctrl' = "STALL"
    BY DEF HandleSetup
<1>3. state' = state \/ state' \in {"default", "configured"}
    BY DEF HandleSetup, StandardEffect, set_configuration, set_interface, devVars
<1>4. cel /\ seen.in = in_bd.st
    BY <1>1 DEF IInv, SeenTrue, Waits
<1>5. r \in HostReq /\ r.id <= n /\ Asked(r)
      /\ \A i \in 1 .. Len(delivered) : delivered[i].id < r.id
    <2>1. setup_bd.data \in Seq(HostReq) /\ Len(setup_bd.data) = 1
        BY <1>4 DEF IInv, Types, Waits
    <2>2. r \in HostReq
        BY <2>1
    <2> QED BY <1>4, <2>2 DEF IInv, Waits, Before
<1>6. ~Ended
    BY <1>1, <1>4 DEF Ended
<1>7. stage \in {"data", "status"} =>
          /\ r = hreq /\ hdata = <<>> /\ hdt = 1 /\ out_dt = 1
          /\ stage = (IF hreq.len = 0 THEN "status" ELSE "data")
    BY <1>4 DEF IInv, Link
<1>8. /\ stage' = stage /\ hreq' = hreq /\ n' = n /\ hdata' = hdata /\ hdt' = hdt
      /\ out_dt' = out_dt /\ delivered' = delivered /\ rst' = rst
      /\ accepted' = accepted /\ acked' = acked /\ serv' = serv /\ seen' = seen
    BY <1>1 DEF hostVars
<1>9. /\ Ready \in Descriptor /\ NoBd \in Descriptor /\ StallBd \in Descriptor
      /\ NoBd.st = "none" /\ Ready.st = "data" /\ StallBd.st = "stall"
    BY EmptySeq DEF Ready, NoBd, StallBd, Bd, Descriptor, BdState
<1>10. XferLen(r) \in Nat /\ XferLen(r) <= r.len /\ r.len \in Nat /\ r.id \in Nat
    BY <1>5, TransferLength DEF HostReq
<1>11. /\ x \in Transferred /\ x.len = XferLen(r) /\ x.ofs = 0 /\ x.data = <<>>
       /\ <<>> = Units(r.id, 0, 0)
    BY <1>10, EmptySeq, UnitsNone DEF Transferred
<1> HIDE DEF r, x
\* What each answer leaves behind, and where it leaves host and device.
<1>12. /\ xfer' \in Transferred /\ ctrl' \in Ctrl
       /\ in_bd' \in Descriptor /\ out_bd' \in Descriptor
       /\ Shapes' /\ ~Ended'
       /\ stage \in {"data", "status"} => ReadLink' /\ WriteLink'
    <2>1. CASE Handled(r) /\ IsRead(r) /\ SendPacket(r, x, NoBd)
        <3>1. 0 <= XferLen(r)
            BY <1>10
        <3>2. /\ in_bd' \in Descriptor /\ in_bd'.st = "data"
              /\ xfer' \in Transferred /\ xfer'.ofs - Len(in_bd'.data) = 0
              /\ \/ ctrl' = "STATUS_DONE_OUT" /\ out_bd' = Ready
                 \/ /\ Len(in_bd'.data) = PktLen
                    /\ ctrl' = "DATA_IN" /\ out_bd' = NoBd
            BY <1>5, <1>11, <2>1, <3>1, SendPacketIs
        <3>3. Shapes'
            BY <1>1, <1>5, <1>9, <1>11, <2>1, <3>1, SendShapes
        <3>4. ASSUME stage \in {"data", "status"} PROVE ReadLink' /\ WriteLink'
            <4>1. r.len # 0 /\ stage = "data"
                BY <1>5, <1>7, <1>10, <2>1, <3>4 DEF Asked
            <4>2. hdata = Units(hreq.id, 0, 0) /\ hdt = 1
                BY <1>7, <1>11, <3>4
            <4>3. ctrl' = "DATA_IN" => xfer'.ofs - PktLen = 0
                BY <3>2
            <4>4. ReadLink'
                BY <1>1, <1>8, <1>9, <3>2, <4>1, <4>2, <4>3 DEF ReadLink
            <4>5. WriteLink'
                BY <1>7, <1>8, <2>1, <3>4 DEF WriteLink, IsRead
            <4> QED BY <4>4, <4>5
        <3> QED BY <1>9, <3>2, <3>3, <3>4 DEF Ctrl, Ended
    <2>2. CASE Handled(r) /\ ~IsRead(r) /\ StorePacket(x, <<>>, NoBd)
        <3>1. x.len = r.len /\ 0 \in Nat /\ 0 <= r.len /\ x.ofs <= 0
            BY <1>10, <1>11, <2>2 DEF XferLen
        <3>2. /\ xfer' \in Transferred
              /\ xfer'.len = r.len /\ xfer'.ofs = 0 /\ xfer'.data = Units(r.id, 0, 0)
              /\ \/ /\ 0 = r.len /\ ctrl' = "STATUS_DONE_IN"
                    /\ in_bd' = [st |-> "data", data |-> <<>>] /\ out_bd' = NoBd
                 \/ /\ 0 < r.len /\ ctrl' = "DATA_OUT"
                    /\ in_bd' = NoBd /\ out_bd' = Ready
            <4> DEFINE none == <<>>
            <4>1. x.data = Units(r.id, 0, x.ofs) /\ none = Units(r.id, x.ofs, 0)
                BY <1>11
            <4>2. StorePacket(x, none, NoBd)
                BY <2>2
            <4>3. x \in Transferred /\ x.len = r.len /\ 0 <= x.len
                BY <1>11, <3>1
            <4> HIDE DEF none
            <4> QED BY <1>5, <3>1, <4>1, <4>2, <4>3, StorePacketIs
        <3>3. Shapes'
            BY <1>1, <1>5, <1>8, <1>9, <2>2, <3>1, <3>2, StoreShapes
        <3>4. ASSUME stage \in {"data", "status"} PROVE ReadLink' /\ WriteLink'
            <4>1. /\ r = hreq /\ hdt = 1 /\ out_dt = 1 /\ hdata = <<>> /\ Len(hdata) = 0
                  /\ stage = (IF hreq.len = 0 THEN "status" ELSE "data")
                BY <1>7, <3>4
            <4>2. ReadLink'
                BY <1>8, <2>2, <4>1 DEF ReadLink, IsRead
            <4>3. WriteLink'
                BY <1>8, <1>9, <3>2, <4>1 DEF WriteLink
            <4> QED BY <4>2, <4>3
        <3>5. [st |-> "data", data |-> <<>>] \in Descriptor
            BY EmptySeq DEF Descriptor, BdState
        <3> QED BY <1>9, <3>2, <3>3, <3>4, <3>5 DEF Ctrl, Ended
    <2>3. CASE /\ ~Handled(r) /\ xfer' = NoXfer /\ in_bd' = StallBd
               /\ out_bd' = StallBd /\ ctrl' = "STALL"
        <3>1. xfer' \in Transferred
            BY <2>3, EmptySeq DEF NoXfer, Transferred
        <3>2. Shapes'
            BY <1>9, <2>3 DEF Shapes, Stalls, IdleShape, SendShape, StoreShape
        <3>3. ASSUME stage \in {"data", "status"} PROVE ReadLink' /\ WriteLink'
            <4>1. /\ r = hreq /\ hdt = 1 /\ hdata = <<>> /\ Len(hdata) = 0
                  /\ stage = (IF hreq.len = 0 THEN "status" ELSE "data")
                  /\ hreq.len \in Nat
                BY <1>7, <1>10, <3>3
            <4>2. ReadLink'
                BY <1>5, <1>8, <2>3, <4>1 DEF ReadLink, Asked, IsRead
            <4>3. WriteLink'
                BY <1>8, <2>3, <4>1 DEF WriteLink
            <4> QED BY <4>2, <4>3
        <3> QED BY <1>9, <2>3, <3>1, <3>2, <3>3 DEF Ctrl, Ended
    <2> QED BY <1>2, <2>1, <2>2, <2>3
<1>13. Types'
    <2>1. setup_bd' \in [st : BdState, data : Seq(HostReq)]
        BY <1>1, EmptySeq DEF Ready, Bd, BdState
    <2>2. pc' \in PC /\ state' \in DevState
        BY <1>1, <1>3 DEF PC, DevState, IInv, Types
    <2> QED BY <1>1, <1>5, <1>8, <1>12, <2>1, <2>2 DEF IInv, Types, Transferred
<1>14. Waits'
    BY <1>1, <1>9 DEF Waits
<1>15. Link'
    BY <1>1, <1>7, <1>8, <1>12 DEF Link
<1>16. Before' /\ DeliveredWhole'
    BY <1>1, <1>5, <1>8, <1>12 DEF IInv, Before, DeliveredWhole
<1>17. AckedEnds'
    BY <1>6, <1>8 DEF IInv, AckedEnds, DeliveredIds
<1>18. AddressEnds'
    BY <1>12 DEF AddressEnds
<1>19. AddressAssigned'
    <2>1. state \in {"default", "configured"}
        BY <1>1 DEF IInv, Quiet, Types, DevState
    <2> QED BY <1>1, <1>8, <2>1 DEF IInv, AddressAssigned
<1> QED BY <1>1, <1>3, <1>12, <1>13, <1>14, <1>15, <1>16, <1>17, <1>18, <1>19, ActStep

----------------------------------------------------------------------------
LEMMA StutterStep == ASSUME IInv, UNCHANGED vars PROVE IInv'
<1>1. /\ UNCHANGED <<serv, hostVars, busVars, engineVars, devVars, ctrlVars, pollVars,
                     history>>
    BY DEF vars
<1>2. UNCHANGED <<stage, hreq, n, hdata, hdt, cel, bdVars, addr, ctrlVars,
                  accepted, acked, delivered>>
    BY <1>1 DEF hostVars, engineVars, history
<1>3. Types' /\ Quiet' /\ SeenTrue' /\ (Live' => Live)
    BY <1>1 DEF IInv, Types, Quiet, SeenTrue, Live, hostVars, busVars, engineVars,
                bdVars, devVars, ctrlVars, pollVars, history
<1> QED BY <1>2, <1>3, LookStep

\* Every step of the host, the engine and the firmware keeps the invariant.
LEMMA NextInv == ASSUME IInv, [Next]_vars PROVE IInv'
<1>1. CASE StartTransfer
    BY <1>1, StartTransferStep
<1>2. CASE GiveUp \/ BusReset \/ usb_disconnect
    BY <1>2, LetGoStep
<1>3. CASE BusResetEnds \/ Suspend \/ Resume \/ usb_connect
    BY <1>3, BusStep
<1>4. CASE \E fault, ack \in BOOLEAN :
               \/ SetupTransaction(fault, ack)
               \/ InTransaction(fault, ack)
               \/ OutTransaction(fault, ack)
    BY <1>4, SetupTransactionStep, InTransactionStep, OutTransactionStep
<1>5. CASE \E received \in BOOLEAN : StallTransaction(received)
    BY <1>5, StallTransactionStep
<1>6. CASE PollReset
    BY <1>6, PollResetStep
<1>7. CASE PollDevice \/ ReadEvents \/ Peek \/ NothingToDo
    BY <1>7, LookingStep
<1>8. CASE StatusInDone
    BY <1>8, StatusInDoneStep
<1>9. CASE StatusOutDone
    BY <1>9, StatusOutDoneStep
<1>10. CASE StallRefresh
    BY <1>10, StallRefreshStep
<1>11. CASE RetrySetup
    BY <1>11, RetrySetupStep
<1>12. CASE RetryOut
    BY <1>12, RetryOutStep
<1>13. CASE HandleSetup
    BY <1>13, HandleSetupStep
<1>14. CASE DataOut
    BY <1>14, DataOutStep
<1>15. CASE DataIn
    BY <1>15, DataInStep
<1>16. CASE UNCHANGED vars
    BY <1>16, StutterStep
<1> QED BY <1>1, <1>2, <1>3, <1>4, <1>5, <1>6, <1>7, <1>8, <1>9, <1>10, <1>11, <1>12,
           <1>13, <1>14, <1>15, <1>16 DEF Next, HostStep, Poll

\* The inductive invariant holds of every behaviour of host, engine and firmware
\* (usb_ep0_poll, usb_ctrl_ep0.c).
THEOREM ControlInvariant == Spec => []IInv
<1> QED BY InitInv, NextInv, PTL DEF Spec

\* The device answers at an address other than 0 only when the host has seen the
\* end of the transfer that assigned it (_set_address and its callback,
\* usb_ctrl_std.c).
THEOREM AddressAssignedCorrect == Spec => []AddressAssigned
<1>1. IInv => AddressAssigned
    BY DEF IInv
<1> QED BY <1>1, ControlInvariant, PTL

\* A host that has all packets of a read holds the data of its own request, from
\* the first unit on (usb_handle_control_data, usb_ctrl_ep0.c).
THEOREM ReadExactCorrect == Spec => []ReadExact
<1>1. ASSUME IInv, stage = "status", IsRead(hreq)
      PROVE  hdata = Units(hreq.id, 0, Smaller(hreq.len, hreq.room))
    <2>1. ~cel
        BY <1>1 DEF IInv, Link, Transfer, Asked
    <2> QED BY <1>1, <2>1 DEF IInv, Link, ReadLink
<1>2. IInv => ReadExact
    BY <1>1 DEF ReadExact
<1> QED BY <1>2, ControlInvariant, PTL

\* A write whose end host and device have both seen reaches its handler once,
\* whole and in order (the completion callbacks of usb_ctrl_ep0.c).
THEOREM WritesDeliveredCorrect == Spec => []WritesDelivered
<1>1. IInv => WritesDelivered
    BY DEF IInv, WritesDelivered, DeliveredWhole, AckedEnds, Ended
<1> QED BY <1>1, ControlInvariant, PTL


----------------------------------------------------------------------------
(***************************************************************************)
(* Packets fit their buffers, and a transfer its length.                   *)
(***************************************************************************)
Marks ==
    /\ n <= MaxRequests
    /\ suspend \in BOOLEAN /\ evt \in BOOLEAN /\ suspended \in BOOLEAN

Fits ==
    /\ xfer.ofs <= xfer.len
    /\ Len(in_bd.data) <= PktLen /\ Len(out_bd.data) <= PktLen

LEMMA MarksStep == ASSUME IInv, Marks, [Next]_vars PROVE Marks'
<1> USE DEF hostVars, busVars, engineVars, devVars, pollVars, HostIdle, HostMoves
<1>1. n' <= MaxRequests
    <2>1. CASE StartTransfer
        <3>1. n < MaxRequests /\ n' = n + 1 /\ n \in Nat
            BY <2>1 DEF StartTransfer, IInv, Types
        <3> QED BY <3>1, UsbAssumption
    <2>2. CASE ~StartTransfer
        <3>1. n' = n
            BY <2>2 DEF Next, HostStep, GiveUp, BusReset, BusResetEnds, Suspend,
                Resume, SetupTransaction, InTransaction, HostReceives, HostDone,
                OutTransaction, HostSent, StallTransaction, usb_connect,
                usb_disconnect, Poll, PollReset, PollDevice, ReadEvents, Peek,
                StatusInDone, StatusOutDone, StallRefresh, RetrySetup, RetryOut,
                HandleSetup, DataOut, DataIn, NothingToDo, AfterAct, vars
        <3> QED BY <3>1 DEF Marks
    <2> QED BY <2>1, <2>2
<1>2. suspend' \in {suspend, TRUE, FALSE}
    BY DEF Next, HostStep, StartTransfer, GiveUp, BusReset, BusResetEnds, Suspend,
        Resume, SetupTransaction, InTransaction, OutTransaction, StallTransaction,
        usb_connect, usb_disconnect, Poll, PollReset, PollDevice, ReadEvents, Peek,
        StatusInDone, StatusOutDone, StallRefresh, RetrySetup, RetryOut,
        HandleSetup, DataOut, DataIn, NothingToDo, AfterAct, vars
<1>3. evt' \in {evt, TRUE, FALSE}
    BY DEF Next, HostStep, StartTransfer, GiveUp, BusReset, BusResetEnds, Suspend,
        Resume, SetupTransaction, InTransaction, OutTransaction, StallTransaction,
        usb_connect, usb_disconnect, Poll, PollReset, PollDevice, ReadEvents, Peek,
        StatusInDone, StatusOutDone, StallRefresh, RetrySetup, RetryOut,
        HandleSetup, DataOut, DataIn, NothingToDo, AfterAct, vars
<1>4. suspended' \in {suspended, suspend, FALSE}
    BY DEF Next, HostStep, StartTransfer, GiveUp, BusReset, BusResetEnds, Suspend,
        Resume, SetupTransaction, InTransaction, OutTransaction, StallTransaction,
        usb_connect, usb_disconnect, Poll, PollReset, PollDevice, ReadEvents, Peek,
        StatusInDone, StatusOutDone, StallRefresh, RetrySetup, RetryOut,
        HandleSetup, StandardEffect, set_configuration, set_interface, DataOut,
        DataIn, NothingToDo, AfterAct, vars
<1> QED BY <1>1, <1>2, <1>3, <1>4 DEF Marks

LEMMA TransferFits ==
    ASSUME IInv, IInv', Fits, [Next]_vars PROVE xfer'.ofs <= xfer'.len
<1>1. CASE ctrl' \in {"DATA_IN", "STATUS_DONE_OUT"}
    BY <1>1 DEF IInv, SendShape
<1>2. CASE ctrl' \in {"DATA_OUT", "STATUS_DONE_IN"}
    <2>1. xfer'.ofs < xfer'.len \/ xfer'.ofs = xfer'.len
        BY <1>2 DEF IInv, StoreShape
    <2>2. xfer'.ofs \in Nat /\ xfer'.len \in Nat
        BY DEF IInv, Types
    <2> QED BY <2>1, <2>2
<1>3. CASE ctrl' \notin {"DATA_IN", "STATUS_DONE_OUT", "DATA_OUT", "STATUS_DONE_IN"}
    <2>1. xfer' \in {xfer, NoXfer}
        BY <1>3 DEF Next, HostStep, StartTransfer, GiveUp, BusReset, BusResetEnds,
            Suspend, Resume, SetupTransaction, InTransaction, OutTransaction,
            StallTransaction, usb_connect, usb_disconnect, Poll, PollReset,
            PollDevice, ReadEvents, Peek, StatusInDone, StatusOutDone,
            StallRefresh, RetrySetup, RetryOut, HandleSetup, SendPacket,
            StorePacket, DataOut, DataIn, NothingToDo, ctrlVars, vars
    <2>2. NoXfer.ofs <= NoXfer.len
        BY DEF NoXfer
    <2> QED BY <2>1, <2>2 DEF Fits
<1> QED BY <1>1, <1>2, <1>3

\* What usb_ep0_poll and the engine leave in the IN descriptor.
LEMMA InFits ==
    ASSUME IInv, IInv', Fits, [Next]_vars PROVE Len(in_bd'.data) <= PktLen
<1> USE DEF bdVars, engineVars, Bd, NoBd, Ready, StallBd
<1>0. Len(<<>>) = 0 /\ PktLen \in Nat
    BY Packets
<1>1. CASE in_bd' = in_bd \/ in_bd'.data = in_bd.data
    BY <1>1 DEF Fits
<1>2. CASE in_bd'.data = <<>>
    BY <1>0, <1>2
<1>3. CASE in_bd'.st = "data" /\ ctrl' \in {"DATA_IN", "STATUS_DONE_OUT"}
    <2>1. Len(in_bd'.data) = PktLen \/ Len(in_bd'.data) < PktLen
        BY <1>3 DEF IInv, SendShape
    <2>2. in_bd'.data \in Seq(Unit)
        BY DEF IInv, Types, Descriptor
    <2>3. Len(in_bd'.data) \in Nat
        BY <2>2
    <2> QED BY <1>0, <2>1, <2>3
<1>4. CASE HandleSetup \/ DataIn \/ DataOut
    <2>1. \/ in_bd' = in_bd \/ in_bd'.data = <<>>
          \/ in_bd'.st = "data" /\ ctrl' \in {"DATA_IN", "STATUS_DONE_OUT"}
        BY <1>4 DEF HandleSetup, DataIn, DataOut, SendPacket, StorePacket
    <2> QED BY <1>1, <1>2, <1>3, <2>1
<1>5. CASE ~(HandleSetup \/ DataIn \/ DataOut)
    <2>1. in_bd' = in_bd \/ in_bd'.data = in_bd.data \/ in_bd'.data = <<>>
        BY <1>5 DEF Next, HostStep, StartTransfer, GiveUp, BusReset, BusResetEnds,
            Suspend, Resume, SetupTransaction, InTransaction, OutTransaction,
            StallTransaction, usb_connect, usb_disconnect, Poll, PollReset,
            usb_bus_reset, usb_ep0_reset, PollDevice, ReadEvents, Peek,
            StatusInDone, StatusOutDone, StallRefresh, RetrySetup, RetryOut,
            NothingToDo, AfterAct, vars
    <2> QED BY <1>1, <1>2, <2>1
<1> QED BY <1>4, <1>5

\* A packet of the host is no longer than the device asked for.
LEMMA HostPacketFits ==
    ASSUME IInv, stage \in {"data", "status"}, ~DeviceSends, ~cel
    PROVE  Len(HostPacket) <= PktLen
<1>0. PktLen \in Nat
    BY Packets
<1>1. CASE stage = "status"
    BY <1>0, <1>1 DEF HostPacket
<1>2. CASE stage = "data"
    <2>1. WriteLink /\ ~IsRead(hreq)
        BY <1>2 DEF IInv, Link, DeviceSends
    <2>2. /\ Len(hdata) < hreq.len /\ Len(hdata) \in Nat /\ hreq.len \in Nat
          /\ hreq.id \in Nat
        BY <1>2, <2>1 DEF IInv, Types, WriteLink, HostReq
    <2> DEFINE a == Len(hdata)
               b == Smaller(hreq.len, a + PktLen)
    <2>3. a \in Nat /\ b \in Nat /\ a <= b /\ b <= a + PktLen
        BY <1>0, <2>2 DEF Smaller
    <2>4. HostPacket = Units(hreq.id, a, b)
        BY <1>2 DEF HostPacket
    <2> HIDE DEF a, b
    <2>5. Len(HostPacket) = b - a
        BY <2>2, <2>3, <2>4, UnitsAre
    <2> QED BY <1>0, <2>3, <2>5
<1> QED BY <1>1, <1>2

LEMMA OutFits ==
    ASSUME IInv, Fits, [Next]_vars PROVE Len(out_bd'.data) <= PktLen
<1> USE DEF bdVars, engineVars, Bd, NoBd, Ready, StallBd
<1>0. Len(<<>>) = 0 /\ PktLen \in Nat
    BY Packets
<1>1. CASE out_bd' = out_bd \/ out_bd'.data = <<>>
    BY <1>0, <1>1 DEF Fits
<1>2. CASE \E damaged, ack \in BOOLEAN : OutTransaction(damaged, ack)
    <2>1. /\ stage \in {"data", "status"} /\ ~DeviceSends /\ ~cel
          /\ out_bd' = out_bd \/ out_bd'.data = <<>> \/ out_bd'.data = HostPacket
        BY <1>2 DEF OutTransaction
    <2> QED BY <1>1, <2>1, HostPacketFits
<1>3. CASE ~(\E damaged, ack \in BOOLEAN : OutTransaction(damaged, ack))
    <2>1. out_bd' = out_bd \/ out_bd'.data = <<>>
        BY <1>3 DEF Next, HostStep, StartTransfer, GiveUp, BusReset, BusResetEnds,
            Suspend, Resume, SetupTransaction, InTransaction, StallTransaction,
            usb_connect, usb_disconnect, Poll, PollReset, usb_bus_reset,
            usb_ep0_reset, PollDevice, ReadEvents, Peek, StatusInDone,
            StatusOutDone, StallRefresh, RetrySetup, RetryOut, HandleSetup,
            SendPacket, StorePacket, DataIn, DataOut, NothingToDo, AfterAct, vars
    <2> QED BY <1>1, <2>1
<1> QED BY <1>2, <1>3

\* The state of host, engine and firmware keeps its types: no packet is longer
\* than an endpoint's buffer, and no transfer runs past its length
\* (usb_handle_control_data, usb_ctrl_ep0.c).
THEOREM ControlTypeCorrect == Spec => []TypeOK
<1>1. ASSUME Init PROVE Marks /\ Fits
    <2>1. PktLen \in Nat /\ MaxRequests \in Nat /\ Len(<<>>) = 0
        BY UsbAssumption
    <2>2. n <= MaxRequests
        BY <1>1, <2>1 DEF Init
    <2>3. suspend \in BOOLEAN /\ evt \in BOOLEAN /\ suspended \in BOOLEAN
        BY <1>1 DEF Init
    <2>4. xfer.ofs <= xfer.len
        BY <1>1 DEF Init, NoXfer
    <2>5. in_bd.data = <<>> /\ out_bd.data = <<>>
        BY <1>1 DEF Init, NoBd, Bd
    <2>6. Len(in_bd.data) <= PktLen /\ Len(out_bd.data) <= PktLen
        BY <2>1, <2>5
    <2> QED BY <2>2, <2>3, <2>4, <2>6 DEF Marks, Fits
<1>2. IInv /\ Marks /\ Fits /\ [Next]_vars => IInv' /\ Marks' /\ Fits'
    BY NextInv, MarksStep, TransferFits, InFits, OutFits DEF Fits
<1>3. ASSUME IInv, Marks, Fits PROVE TypeOK
    <2>1. n \in 0 .. MaxRequests
        BY <1>3, UsbAssumption DEF IInv, Types, Marks
    <2>2. xfer.ofs \in 0 .. xfer.len
        BY <1>3 DEF IInv, Types, Fits
    <2>3. {setup_bd.st, out_bd.st, in_bd.st} \subseteq BdState
        BY <1>3 DEF IInv, Types, Descriptor
    <2>4. suspend \in BOOLEAN /\ evt \in BOOLEAN /\ suspended \in BOOLEAN
        BY <1>3 DEF Marks
    <2>5. Len(out_bd.data) <= PktLen /\ Len(in_bd.data) <= PktLen
        BY <1>3 DEF Fits
    <2> QED BY <1>3, <2>1, <2>2, <2>3, <2>4, <2>5 DEF IInv, Types, TypeOK
<1> QED BY <1>1, <1>2, <1>3, InitInv, PTL DEF Spec

=============================================================================
