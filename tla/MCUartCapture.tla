--------------------------- MODULE MCUartCapture ---------------------------
(***************************************************************************)
(* UartCapture with a ring of four slots, two of them in use by the        *)
(* foreground and the interrupt at once, and a line long enough to fill    *)
(* the ring, to refuse a byte and to wrap both indices.                    *)
(***************************************************************************)
EXTENDS UartCapture
=============================================================================
