-------------------------------- MODULE Prdt --------------------------------
(***************************************************************************)
(* The Physical Region Descriptor Table that the bus master follows, as    *)
(* ata_controller_prepare_prdt of src/src/lib/ata_controller.c fills it in *)
(* before every DMA command: the DMA buffer is cut where it crosses a      *)
(* boundary (64 KiB in the code), one descriptor per piece.                *)
(*                                                                         *)
(* Nothing clears the table: it begins with whatever the DMA memory held,  *)
(* and the entries past the last one written are those of earlier          *)
(* commands.  The physical address of the buffer is a 64-bit number, of    *)
(* which the table takes the low 32 bits.                                  *)
(***************************************************************************)
EXTENDS Integers

CONSTANTS
  Boundary,      \* 0x10000: a descriptor does not cross a multiple of it, and
                 \* it is the first count that does not fit in 16 bits
  AddressSpace,  \* 2^32: the range of a 32-bit address
  PhysicalSpace, \* 2^64: the range of a physical address
  NumPrds,       \* BM_IDE_MAX_NUM_PRDS
  MaxCount,      \* bound: the largest count of a command
  Leftovers      \* the descriptors that the DMA memory may happen to hold

\* The bits of the 16-bit field named reserved.
ReservedBits == 0..15

Prd == [address : 0..(AddressSpace - 1), count : 0..(Boundary - 1),
        reserved : SUBSET ReservedBits]

ASSUME PrdtAssumption ==
  /\ Boundary \in Nat /\ Boundary > 1
  /\ AddressSpace \in Nat /\ AddressSpace >= Boundary
  /\ NumPrds \in Nat /\ NumPrds > 0
  /\ PhysicalSpace \in Nat /\ PhysicalSpace > 0
  /\ MaxCount \in 1..(AddressSpace - 1)
  /\ Leftovers \subseteq Prd

\* dma_buffer->phys_addr, as the driver reports it: nothing bounds it.
Bases == 0..(PhysicalSpace - 1)

VARIABLES
  prdt,          \* the table, in the memory of dma_buffer0
  base,          \* the physical address of dma_buffer1
  count,         \* the bytes of the current command (the parameter count)
  i,             \* the entry being written
  prdt_address,  \* where the next descriptor starts
  prdt_count,    \* the bytes no descriptor covers yet
  pc             \* "ready": prepared for a command; "fill": in the loop

vars == <<prdt, base, count, i, prdt_address, prdt_count, pc>>

TypeOK ==
  /\ prdt \in [0..(NumPrds - 1) -> Prd]
  /\ base \in Bases
  /\ count \in 0..MaxCount
  /\ i \in 0..(NumPrds - 1)
  /\ prdt_address \in 0..(AddressSpace - 1)
  /\ prdt_count \in 0..MaxCount
  /\ pc \in {"none", "fill", "ready"}

\* Mutant: the sum does not wrap.
WrapNot(a) == a

\* The wrap of a 32-bit sum of an address and at most a Boundary.
Wrap(a) == IF a < AddressSpace THEN a ELSE a - AddressSpace

\* Mutants: a byte past the boundary; a boundary's worth from anywhere.
MaxPieceOver(a) == Boundary + 1 - (a % Boundary)
MaxPieceFull(a) == Boundary

\* The largest piece that starts at an address and does not cross a boundary.
MaxPiece(a) == Boundary - (a % Boundary)

\* The piece the loop takes next.
Piece ==
  IF prdt_count > MaxPiece(prdt_address)
  THEN MaxPiece(prdt_address)
  ELSE prdt_count

\* prdt[i].reserved |= 1 << 16, stored in 16 bits.
SetLast(reserved) == (reserved \cup {16}) \cap ReservedBits

Init ==
  /\ base \in Bases
  /\ prdt \in [0..(NumPrds - 1) -> Leftovers]
  /\ count = 0 /\ i = 0 /\ prdt_address = 0 /\ prdt_count = 0
  /\ pc = "none"

\* Mutant: an address that does not fit is not cut to its low 32 bits.
TruncateClamp(address) ==
  IF address < AddressSpace THEN address ELSE AddressSpace - 1

\* uint32_t prdt_address = the uint64_t physical address.
Truncate(address) == address % AddressSpace

\* A DMA command of n bytes: the table is prepared from its first entry.
Prepare(n) ==
  /\ pc \in {"none", "ready"}
  /\ count' = n
  /\ i' = 0
  /\ prdt_address' = Truncate(base)
  /\ prdt_count' = n
  /\ pc' = "fill"
  /\ UNCHANGED <<prdt, base>>

\* What every turn of the loop does to entry i and to the rest of the transfer.
WritePrd(reserved) ==
  /\ prdt' = [prdt EXCEPT ![i] = [address |-> prdt_address,
                                  count |-> Piece % Boundary,
                                  reserved |-> reserved]]
  /\ prdt_address' = Wrap(prdt_address + Piece)
  /\ prdt_count' = prdt_count - Piece

\* Mutant: the last entry of the table is not used.
NextPrdShort ==
  /\ pc = "fill" /\ prdt_count > Piece
  /\ WritePrd({})
  /\ \/ i + 2 < NumPrds /\ i' = i + 1 /\ pc' = "fill"
     \/ i + 2 >= NumPrds /\ i' = i /\ pc' = "ready"
  /\ UNCHANGED <<base, count>>

\* A turn that leaves something to cover.  The loop ends when the table is full.
NextPrd ==
  /\ pc = "fill" /\ prdt_count > Piece
  /\ WritePrd({})
  /\ \/ i + 1 < NumPrds /\ i' = i + 1 /\ pc' = "fill"
     \/ i + 1 = NumPrds /\ i' = i /\ pc' = "ready"
  /\ UNCHANGED <<base, count>>

LastPrd ==
  /\ pc = "fill" /\ prdt_count <= Piece
  /\ WritePrd(SetLast(prdt[i].reserved))
  /\ pc' = "ready"
  /\ UNCHANGED <<base, count, i>>

Next ==
  \/ \E n \in 0..MaxCount : Prepare(n)
  \/ NextPrd
  \/ LastPrd

Spec == Init /\ [][Next]_vars

-----------------------------------------------------------------------------
(***************************************************************************)
(* How the bus master (external) reads a descriptor: a count of 0 is a     *)
(* full 64 KiB, and the highest bit of the descriptor marks the last one.  *)
(***************************************************************************)
Size(prd) == IF prd.count = 0 THEN Boundary ELSE prd.count

IsLast(prd) == 15 \in prd.reserved

\* The table is prepared for a command that moves something.
Prepared == pc = "ready" /\ count > 0

\* Where the buffer begins as a 32-bit address sees it.
Start == base % AddressSpace

\* Modulo 2^32, the descriptors are one unbroken run of memory that begins at
\* the buffer: each starts where the one before ends.  A full 64 KiB does not
\* fit in the field count, and is stored as 0.
Contiguous ==
  Prepared =>
    /\ prdt[0].address = Start
    /\ \A k \in 1..i :
         prdt[k].address = (prdt[k-1].address + Size(prdt[k-1])) % AddressSpace

\* Modulo 2^32, they end where the transfer ends less what the loop left over,
\* and the loop leaves nothing over unless the table is full.
CoversCount ==
  Prepared =>
    LET end == prdt[i].address + Size(prdt[i])
    IN  /\ end % AddressSpace = (Start + (count - prdt_count)) % AddressSpace
        /\ i + 1 < NumPrds => prdt_count = 0

\* No descriptor crosses a boundary.
WithinBoundary ==
  Prepared =>
    \A k \in 0..i : (prdt[k].address % Boundary) + Size(prdt[k]) <= Boundary
=============================================================================
