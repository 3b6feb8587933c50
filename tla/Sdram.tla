------------------------------- MODULE Sdram -------------------------------
(***************************************************************************)
(* The external-memory map of the monitor and the operators that read and  *)
(* write regions of it.  An address is a number of cells from              *)
(* HAZARD3_SDRAM_PHYSICAL_BASE; the uncached diagnostic alias names the    *)
(* same cells and is not told apart.  The order of the regions is          *)
(*                                                                         *)
(*    0 .. DiagnosticBytes .. ImageBase .. ImageLimit = HeapBase           *)
(*      .. HeapLimit = WadBase .. WadLimit = VideoBase .. SdramBytes       *)
(*                                                                         *)
(* The video reserve holds nothing the monitor relies on, so only the      *)
(* cells below WadLimit have contents here.                                *)
(***************************************************************************)
EXTENDS Integers

CONSTANTS
    Protected,        \* low cells the 12F monitor runs from, 0 on other builds
    DiagnosticBytes,  \* the window of the sequential test
    ImageBase, ImageLimit, HeapLimit, WadLimit,
    SdramBytes, BankBytes,
    FullTestBytes, QuickTestBytes, RandomTestBytes,
    WordCells,        \* cells of a 32-bit word
    MaxUint,          \* one more than the largest uint32_t
    Val, Zero,        \* what a cell can hold
    TestPattern       \* what the last pattern of a test leaves in each cell

HeapBase == ImageLimit
WadBase == HeapLimit
BankCount == 4

Addr == 0 .. (WadLimit - 1)
Uint == 0 .. (MaxUint - 1)

ASSUME LayoutAssumption ==
    /\ Protected \in Nat /\ DiagnosticBytes \in Nat /\ ImageBase \in Nat
    /\ ImageLimit \in Nat /\ HeapLimit \in Nat /\ WadLimit \in Nat
    /\ MaxUint \in Nat
    /\ Protected < DiagnosticBytes
    /\ 0 < DiagnosticBytes /\ DiagnosticBytes <= ImageBase
    /\ ImageBase < ImageLimit /\ ImageLimit < HeapLimit
    /\ HeapLimit < WadLimit /\ WadLimit < MaxUint

ASSUME TestAssumption ==
    /\ SdramBytes \in Nat /\ BankBytes \in Nat
    /\ FullTestBytes \in Nat \ {0} /\ QuickTestBytes \in Nat \ {0}
    /\ RandomTestBytes \in Nat \ {0} /\ WordCells \in Nat \ {0}
    /\ FullTestBytes <= DiagnosticBytes
    /\ QuickTestBytes <= FullTestBytes
    /\ RandomTestBytes + Protected <= BankBytes
    /\ WordCells <= RandomTestBytes
    /\ BankCount * BankBytes <= SdramBytes
    /\ 3 * Protected < DiagnosticBytes

ASSUME CellAssumption == Zero \in Val /\ TestPattern \in [Addr -> Val]

-----------------------------------------------------------------------------
(* Regions and what the C loops over them do.                              *)

\* The cells of byte_count bytes from an address.
Region(address, byte_count) == address .. (address + byte_count - 1)

\* What a region holds, indexed from 0.
Contents(m, address, byte_count) ==
    [i \in 0 .. (byte_count - 1) |-> m[address + i]]

\* Memory m with the bytes of payload stored from an address on.
Store(m, address, payload, byte_count) ==
    [a \in Addr |-> IF a \in Region(address, byte_count)
                    THEN payload[a - address] ELSE m[a]]

\* copy_memory: word copies with byte edges, as one copy of the region.
copy_memory(m, destination, source, byte_count) ==
    Store(m, destination, Contents(m, source, byte_count), byte_count)

\* clear_bss stores zero to every cell of the region.
clear_bss(m, address, byte_count) ==
    [a \in Addr |-> IF a \in Region(address, byte_count) THEN Zero ELSE m[a]]

\* A destructive test leaves its last pattern in every cell it touches.
Scribble(m, cells) ==
    [a \in Addr |-> IF a \in cells THEN TestPattern[a] ELSE m[a]]

\* uint32_t addition.
AddUint(x, y) == IF x + y >= MaxUint THEN x + y - MaxUint ELSE x + y

-----------------------------------------------------------------------------
(* The cells each SDRAM test of the monitor writes.                        *)

\* Fault: the window's protected part is not subtracted.
sequential_test_bytes_unclamped(requested_bytes) == requested_bytes

sequential_test_bytes(requested_bytes) ==
    LET available_bytes == DiagnosticBytes - Protected IN
    IF requested_bytes < available_bytes THEN requested_bytes
                                         ELSE available_bytes

SequentialCells(requested_bytes) ==
    Region(Protected, sequential_test_bytes(requested_bytes))

\* Fault: the reference point has only one address bit set.
sparse_reference_offset_low == Protected

sparse_reference_offset == IF Protected = 0 THEN 0 ELSE Protected * 3

\* Exclusive-or with a single address bit.
FlipBit(offset, bit) ==
    IF (offset \div bit) % 2 = 0 THEN offset + bit ELSE offset - bit

\* 1u << (point + 1u), one point after the other.
AddressBit ==
    LET bit[point \in Nat] ==
          IF point = 0 THEN WordCells ELSE 2 * bit[point - 1]
    IN  bit

AddressBits == {b \in {AddressBit[i] : i \in 0 .. 24} : b < SdramBytes}

\* The protected low memory ends at a bit of the address, as the comment at
\* sdram_sparse_reference_offset needs.
ASSUME ProtectedAssumption == Protected \in AddressBits \cup {0}

SparseOffsets ==
    {sparse_reference_offset}
      \cup {FlipBit(sparse_reference_offset, b) : b \in AddressBits}
      \cup {k * BankBytes - WordCells : k \in 1 .. (BankCount - 1)}
      \cup {(BankCount - 1) * BankBytes, SdramBytes - WordCells}

SparseCells == UNION {Region(o, WordCells) : o \in SparseOffsets}

RandomCells ==
    UNION {Region(pass * BankBytes + Protected, RandomTestBytes) :
              pass \in 0 .. (BankCount - 1)}

=============================================================================
