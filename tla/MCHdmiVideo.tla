---------------------------- MODULE MCHdmiVideo ----------------------------
(***************************************************************************)
(* HdmiVideo with two palettes, four pictures and one reset: enough for    *)
(* each client to draw into both banks and to find what another one left.  *)
(***************************************************************************)
EXTENDS HdmiVideo
=============================================================================
