---------------------------- MODULE MCI2cDriver ----------------------------
(***************************************************************************)
(* I2cDriver with the two registers the client uses, a device, an address  *)
(* nothing answers to and one that is out of range.                        *)
(***************************************************************************)
EXTENDS I2cDriver
=============================================================================
