---------------------------- MODULE MCNormalBoot ----------------------------
(***************************************************************************)
(* NormalBoot with pages of two bytes and a sector of three pages: a flash *)
(* of twelve bytes of which the first four are not read, then a header,    *)
(* then the image of either build.  Headers: a good image of three bytes,  *)
(* one of two, one that is too long for the port, one that ends outside of *)
(* flash, one with another offset, one with a bad header checksum, and     *)
(* none.  A checksum is the contents; two bytes may change.                *)
(***************************************************************************)
EXTENDS NormalBoot

MCCell == {0, 1}
MCSync == <<0>>
MCCrc(s) == s
Header(offset, length, crc) ==
    [magic |-> TRUE, good |-> TRUE, offset |-> offset, length |-> length,
     crc |-> crc]
MCHeaders ==
    {Header(2, 3, <<0, 1, 0>>), Header(2, 2, <<0, 0>>), Header(2, 5, <<0, 1, 0, 1, 1>>),
     Header(2, 7, <<0>>),
     Header(4, 2, <<0, 1>>), NoImage,
     [Header(2, 3, <<0, 1, 0>>) EXCEPT !.good = FALSE]}
\* The good image of each build, with another byte, with another last byte and erased.
Contents(page) == [a \in Addr |-> IF a - Native \in DOMAIN page \cup {0}
                                  THEN (page \o <<1, 1, 1, 1, 1, 1>>)[a - Native + 1] ELSE 1]
MCFlashes == {Contents(p) : p \in {<<0, 1, 0, 1>>, <<0, 0, 0, 1>>, <<0, 1, 0, 0>>, <<1>>}}
MCNativeCrc == <<0, 1, 0>>
=============================================================================
