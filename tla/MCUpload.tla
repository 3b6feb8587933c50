------------------------------ MODULE MCUpload ------------------------------
(***************************************************************************)
(* Upload with two images and an IWAD.  A payload is longer than the       *)
(* receive FIFO and, like a checksum, holds a byte that is a command at    *)
(* the prompt.  That of image "w" holds all that uploads image "v": a      *)
(* reset in the middle of it is enough for the board to do so.             *)
(***************************************************************************)
EXTENDS Upload

Job(k, c) == [kind |-> k, crc |-> c]
MCJobs == {Job("image", "v"), Job("image", "w"), Job("wad", "v")}
Plainly(j) == <<j.crc, CommandOf(j.kind)>>
MCPayload(j) ==
    IF j # Job("image", "w") THEN Plainly(j)
    ELSE <<"l">> \o Header(Job("image", "v")) \o Plainly(Job("image", "v"))
MCByte == {"l", "w", "v", "H3I1", "H3W1"}
=============================================================================
