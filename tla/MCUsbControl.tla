---------------------------- MODULE MCUsbControl ----------------------------
(***************************************************************************)
(* UsbControl with packets of two units.  The reads end with a short       *)
(* packet, with a full one, and before the host expects it; one write      *)
(* needs two packets, the other does not fit its handler; one descriptor   *)
(* and one alternate setting do not exist.                                 *)
(***************************************************************************)
EXTENDS UsbControl

R(kind, len, value, room) ==
    [kind |-> kind, len |-> len, value |-> value, room |-> room]

MCRequests ==
    {R("read", 3, 0, 3), R("read", 2, 0, 3), R("read", 4, 0, 2),
     R("read", 2, 0, 0), R("interface", 0, 2, 0),
     R("write", 3, 0, 4), R("write", 3, 0, 2), R("address", 0, 1, 0), R("config", 0, 1, 0),
     R("interface", 0, 1, 0)}
=============================================================================
