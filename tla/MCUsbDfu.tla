------------------------------ MODULE MCUsbDfu ------------------------------
(***************************************************************************)
(* UsbDfu with sectors of two cells and pages of one.  The bootloader's    *)
(* zone of one sector is followed by one of three.  The blocks of the file *)
(* need an erase, only a program, or neither, the last one is partial, and *)
(* the file does not fit the smaller zone.                                 *)
(***************************************************************************)
EXTENDS UsbDfu

MCZones == [a \in {0, 5} |-> IF a = 5 THEN [start |-> 0, end |-> 2]
                                      ELSE [start |-> 2, end |-> 8]]
MCFiles == {<<<<1, 0>>, <<1, 1>>, <<1>>>>}
=============================================================================
