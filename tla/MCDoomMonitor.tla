--------------------------- MODULE MCDoomMonitor ---------------------------
(***************************************************************************)
(* DoomMonitor on a memory of 32 cells, of which 16 lie below the video    *)
(* reserve: a 12F-like build with one protected cell, a diagnostic window  *)
(* of four, an image region of six, a heap of four and an IWAD region of   *)
(* two.  The protected cell holds the monitor, not a test pattern.         *)
(* A checksum is the payload itself.                                       *)
(***************************************************************************)
EXTENDS DoomMonitor

MCVal == {0, 1}
MCTestPattern == [a \in Addr |-> 1]
MCPowerOnContents == {[a \in Addr |-> IF a < Protected THEN 0 ELSE 1]}

MCCrc(contents) == contents
MCCrcVal ==
    UNION {[0 .. (n - 1) -> MCVal] : n \in 0 .. 2}
MCZeroCrc == [i \in {} |-> 0]
MCPayloadIsIwad(contents) == contents[0] = 1

OneCell(v) == [i \in 0 .. 0 |-> v]
TwoCells(v, w) == [i \in 0 .. 1 |-> IF i = 0 THEN v ELSE w]

Header(image_bytes, entry, bss, bss_bytes, crc) ==
    [wellformed |-> TRUE, load_address |-> ImageBase,
     image_bytes |-> image_bytes, entry_address |-> entry,
     bss_address |-> bss, bss_bytes |-> bss_bytes, payload_crc32 |-> crc]

\* Two images with room for a copy, one that leaves no room for it, and one
\* whose bss length wraps around.
MCHeaders ==
    {Header(2, ImageBase, ImageBase + 2, 2, TwoCells(1, 0)),
     Header(1, ImageBase, ImageBase + 3, 1, OneCell(0)),
     Header(2, ImageBase + 1, ImageBase + 2, 3, TwoCells(0, 1)),
     Header(1, ImageBase, ImageBase + 2, MaxUint - 1, OneCell(0))}

MCWadHeaders ==
    {[wellformed |-> TRUE, load_address |-> WadBase, wad_bytes |-> 2,
      payload_crc32 |-> TwoCells(1, 0)],
     [wellformed |-> FALSE, load_address |-> WadBase, wad_bytes |-> 2,
      payload_crc32 |-> TwoCells(1, 1)]}

MCCardWadBytes == {0, 1, 3}

\* An image cell, a bss or spare cell, a cell of a copy, a heap cell, an IWAD
\* cell.
MCStoreCells == {ImageBase, ImageBase + 3, ImageLimit - 1, HeapBase, WadBase}
=============================================================================
