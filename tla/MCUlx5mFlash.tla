---------------------------- MODULE MCUlx5mFlash ----------------------------
(***************************************************************************)
(* Ulx5mFlash on a flash of sixteen cells: a slot of two sectors of two    *)
(* pages of two cells, between cells that are not the slot's.  A block is  *)
(* longer than a page, so one block completes two pages, one or none.  One *)
(* file fits the stream and needs a second sector and a partial page; the  *)
(* other exceeds the limit of the stream.  A checksum is the sequence      *)
(* itself, and one of the two values of a byte is that of an erased cell.  *)
(***************************************************************************)
EXTENDS Ulx5mFlash

MCByte == {0, 1}
MCErased == 1
MCFiles == {<<0, 1, 0, 0, 0>>, <<0, 0, 1, 0, 1, 0>>}
MCCrc(bytes) == bytes
MCCrcVal == UNION {[1 .. n -> MCByte] : n \in 0 .. 8}
=============================================================================
