----------------------------- MODULE PciDevice -----------------------------
(***************************************************************************)
(* A PCI device, src/src/lib/pci_device.c: its regions are found by sizing *)
(* the base address registers (BARs) of the device one after another, the  *)
(* memory regions are mapped, and every later access goes through them.    *)
(*                                                                         *)
(* Registers are counted in double words: 4 is the register at offset 16.  *)
(* They hold numbers below Half, which stands for 2^32.  A step takes the  *)
(* accesses to one register together: nothing else accesses the device     *)
(* between them but the device itself, through what it decodes meanwhile.  *)
(***************************************************************************)
EXTENDS Integers, FiniteSets

CONSTANTS
  Half,   \* 2^32
  Kinds   \* the kinds of registers of the hardware, see Hardware

ASSUME HalfAssumption == Half \in Nat /\ Half >= 1024 /\ Half % 1024 = 0

Lower == {"lo", "wide"}
Upper == {"hi", "top"}
Io == {"io", "short"}
BarKinds == {"none", "mem"} \cup Io \cup Lower \cup Upper

ASSUME KindsAssumption == Kinds \subseteq BarKinds

Regs == 4..12
(***************************************************************************)
(* The hardware (external).  A register holds the multiples of gran, and   *)
(* in its low bits tells what it is.  Ports: "io", or "short" when the     *)
(* device decodes 16 bits of a port address only (IoSpace of them) and the *)
(* upper bits of the register are 0.  Memory: "mem" of 32 bits; of 64 bits *)
(* "lo" and "hi", the lower and the upper register of a BAR that is less   *)
(* than Half long, or "wide" and either "hi" (a BAR of Half bytes) or      *)
(* "top" (a longer one).  "none" holds nothing.  After the six BARs come   *)
(* two read-only registers and the base of the expansion ROM.              *)
(***************************************************************************)
IoSpace == 1024
Gran(kind) == CASE kind \in Io -> 16 [] kind = "mem" -> 64 [] kind = "lo" -> 128
                [] kind = "hi" -> 1 [] kind = "top" -> 4 [] kind = "rom" -> 32
                [] OTHER -> Half
Bits(kind) == CASE kind \in Io -> 1 [] kind \in Lower -> 4
                [] kind = "fixed" -> 23 [] OTHER -> 0
Stored(kind, v) ==
  LET kept == IF kind = "short" THEN v % IoSpace ELSE v
  IN (kept - (kept % Gran(kind))) + Bits(kind)

Bars ==
  {b \in [4..9 -> Kinds] :
     /\ \A r \in 4..9 : (b[r] \in Lower) = (r < 9 /\ b[r + 1] \in Upper)
     /\ b[4] \notin Upper
     /\ \A r \in 4..8 : b[r] = "lo" => b[r + 1] = "hi"}
Hardware ==
  {[r \in Regs |-> IF r \in 4..9 THEN b[r] ELSE IF r = 12 THEN "rom" ELSE "fixed"] :
     b \in Bars}

\* What the firmware has put into the registers.
Contents(h) ==
  [r \in Regs |-> Stored(h[r], IF h[r] \in Upper THEN Gran(h[r]) ELSE 64 * r)]

VARIABLES
  hw,           \* the hardware
  compat,       \* whether it is an ATA controller in compatibility mode
  config,       \* the registers
  decodes,      \* whether its command register has decoding enabled
  num_regions,  \* 6, or fewer for a bridge
  regions,      \* struct region: base, size, is_io and what became of map
  i, j,         \* the region and the register of the current turn
  base, size,   \* base_address, and the lower half of size
  pc            \* the next step of pci_device_create, if any

vars == <<hw, compat, config, decodes, num_regions, regions, i, j, base, size, pc>>
fixed == <<hw, compat, num_regions>>

Region == [base : 0..Half * Half - 1, size : 0..Half, io : BOOLEAN,
           map : {"null", "failed", "mapped"}]
Cleared == [n \in 0..5 |-> [base |-> 0, size |-> 0, io |-> FALSE, map |-> "null"]]

TypeOK ==
  /\ hw \in Hardware /\ compat \in BOOLEAN /\ num_regions \in {1, 2, 6}
  /\ config \in [Regs -> 0..Half - 1] /\ decodes \in BOOLEAN
  /\ regions \in [0..5 -> Region]
  /\ i \in 0..6 /\ j \in 4..13
  /\ base \in 0..Half * Half - 1 /\ size \in 0..Half - 1
  /\ pc \in {"none", "size", "restore", "size_hi", "restore_hi", "map", "ready", "failed"}

Init ==
  /\ hw \in Hardware /\ compat \in BOOLEAN /\ num_regions \in {1, 2, 6}
  /\ config = Contents(hw) /\ decodes = TRUE
  /\ regions = Cleared /\ i = 0 /\ j = 4 /\ base = 0 /\ size = 0
  /\ pc = "none"

-----------------------------------------------------------------------------
\* pci_device_create, up to the number of regions that the header type tells.
\* A creation that is refused before changes nothing.
Create ==
  /\ pc = "none"
  /\ regions' = Cleared /\ i' = 0 /\ j' = 4
  /\ pc' = "size"
  /\ UNCHANGED <<fixed, config, decodes, base, size>>

Write(r, v) == config' = [config EXCEPT ![r] = Stored(hw[r], v)]

\* The write of 16 bits that should enable or disable decoding goes to offset 2,
\* which is the device ID; the command register is at offset 4.
CommandOffset == 2
SetDecoding(on) == decodes' = IF CommandOffset = 4 THEN on ELSE decodes

\* The upper half of size is ones; what it lacks to all ones plus one is what
\* the lower half lacks to Half.
NegatedWide(low) == Half * Half - low
Negated(low) == Half - low

\* One more region is known.
EndTurn(region) ==
  /\ regions' = [regions EXCEPT ![i] = region]
  /\ i' = i + 1 /\ j' = j + 1
  /\ pc' = IF i + 1 = num_regions THEN "ready" ELSE "size"

\* The register is saved, written with ones and read back: three accesses.
SizeBar ==
  /\ pc = "size"
  /\ base' = config[j]
  /\ Write(j, Half - 1) /\ SetDecoding(FALSE)
  /\ size' = Stored(hw[j], Half - 1)
  /\ pc' = "restore"
  /\ UNCHANGED <<fixed, regions, i, j>>

\* In compatibility mode an empty BAR stands for ports that are fixed.
IsCompat == compat /\ base = 0 /\ j \in 4..7
CompatPorts == << <<497, 8>>, <<1009, 4>>, <<369, 8>>, <<881, 4>> >>
Base == IF IsCompat THEN CompatPorts[j - 3][1] ELSE base
Size == IF IsCompat THEN Half - CompatPorts[j - 3][2] ELSE size

RestoreIo ==
  /\ pc = "restore" /\ Base % 2 = 1
  /\ Write(j, base) /\ SetDecoding(TRUE)
  /\ EndTurn([base |-> Base - 1, size |-> Negated(Size - (Size % 2)), io |-> TRUE,
              map |-> "null"])
  /\ UNCHANGED <<fixed, base, size>>

RestoreMemory ==
  /\ pc = "restore" /\ Base % 2 = 0 /\ (Base \div 4) % 2 = 0
  /\ Write(j, base) /\ SetDecoding(TRUE)
  /\ pc' = "map"
  /\ UNCHANGED <<fixed, regions, i, j, base, size>>

Restore64 ==
  /\ pc = "restore" /\ Base % 2 = 0 /\ (Base \div 4) % 2 = 1
  /\ Write(j, base) /\ SetDecoding(TRUE)
  /\ pc' = "size_hi"
  /\ UNCHANGED <<fixed, regions, i, j, base, size>>

\* The next register is the upper half.  The upper half of size is ones already,
\* so what the register reads after ones were written is or-ed in for nothing.
SizeUpperKeepJ ==
  /\ pc = "size_hi"
  /\ base' = base + Half * config[j + 1]
  /\ Write(j + 1, Half - 1) /\ SetDecoding(FALSE)
  /\ pc' = "restore_hi"
  /\ UNCHANGED <<fixed, regions, i, j, size>>
SizeUpper ==
  /\ pc = "size_hi"
  /\ base' = base + Half * config[j + 1]
  /\ j' = j + 1
  /\ Write(j + 1, Half - 1) /\ SetDecoding(FALSE)
  /\ pc' = "restore_hi"
  /\ UNCHANGED <<fixed, regions, i, size>>

RestoreUpperLow ==
  /\ pc = "restore_hi"
  /\ Write(j, base % Half) /\ SetDecoding(TRUE)
  /\ pc' = "map"
  /\ UNCHANGED <<fixed, regions, i, j, base, size>>
RestoreUpper ==
  /\ pc = "restore_hi"
  /\ Write(j, base \div Half) /\ SetDecoding(TRUE)
  /\ pc' = "map"
  /\ UNCHANGED <<fixed, regions, i, j, base, size>>

Memory(map) ==
  [base |-> base - (base % 16), size |-> Negated(size - (size % 16)), io |-> FALSE, map |-> map]

\* mmap of /dev/mem.  That it is not permitted is no failure.
MapRegion ==
  /\ pc = "map"
  /\ \E map \in {"mapped", "failed"} : EndTurn(Memory(map))
  /\ UNCHANGED <<fixed, config, decodes, base, size>>

\* /dev/mem cannot be opened, or mmap fails for another reason.
MapFails ==
  /\ pc = "map"
  /\ \E map \in {"null", "failed"} : regions' = [regions EXCEPT ![i] = Memory(map)]
  /\ pc' = "failed"
  /\ UNCHANGED <<fixed, config, decodes, i, j, base, size>>

\* munmap is given the base address of a region, not its map: what it unmaps,
\* if anything, is not part of the device.
Destroy ==
  /\ pc \in {"ready", "failed"}
  /\ regions' = Cleared
  /\ pc' = "none"
  /\ UNCHANGED <<fixed, config, decodes, i, j, base, size>>

Next ==
  \/ Create \/ SizeBar \/ RestoreIo \/ RestoreMemory \/ Restore64
  \/ SizeUpper \/ RestoreUpper \/ MapRegion \/ MapFails \/ Destroy

Spec == Init /\ [][Next]_vars

-----------------------------------------------------------------------------
(***************************************************************************)
(* pci_device_region_read*, pci_device_region_write*: the bytes an access  *)
(* of some width touches, as addresses from the start of the region; none  *)
(* when it is refused.  The elements of a map are as wide as the access.   *)
(***************************************************************************)
RefusedAfter(n, offset) ==
  \/ n >= num_regions \/ offset > regions[n].size
  \/ ~regions[n].io /\ regions[n].map = "failed"
Refused(n, offset) ==
  \/ n >= num_regions \/ offset >= regions[n].size
  \/ ~regions[n].io /\ regions[n].map = "failed"

Touched(n, offset, width) ==
  IF Refused(n, offset) THEN {}
  ELSE LET first == IF regions[n].io THEN offset ELSE offset * width
       IN first..first + width - 1

\* The regions that start before a register, and the register in which the n-th
\* one starts.
Order(r) == Cardinality({s \in Regs : s < r /\ hw[s] \notin Upper})
First(n) == CHOOSE r \in Regs : hw[r] \notin Upper /\ Order(r) = n
\* The regions that stem from a BAR the device has.
Starts == {"mem"} \cup Io \cup Lower
Real == {n \in 0..num_regions - 1 : hw[First(n)] \in Starts}

\* The bytes that the device decodes for the BAR that starts in r.
Decoded(r) == IF hw[r] = "wide" THEN Half * Gran(hw[r + 1]) ELSE Gran(hw[r])

\* Sizing leaves the device as it was: outside the few accesses between writing
\* ones and restoring, every register holds what the firmware put there, those
\* after the last BAR included, which a device with 64-bit BARs has sized too.
Intact == pc \notin {"restore", "restore_hi"} => config = Contents(hw)

\* The n-th region has the address, the kind and the size of the BAR in r, but
\* no more than Half bytes of it.  The size is that of no BAR when the upper bits
\* of a port address are 0.
Exact(n, r) ==
  /\ regions[n].io = (hw[r] \in Io)
  /\ regions[n].base = (Contents(hw)[r] - Bits(hw[r]))
                         + (IF hw[r] \in Lower THEN Half * Contents(hw)[r + 1] ELSE 0)
  /\ hw[r] # "short" =>
       regions[n].size = IF Decoded(r) <= Half THEN Decoded(r) ELSE Half

\* However 32-bit and 64-bit registers alternate, each region is that of the BAR
\* that it stems from.
RegionExact == pc = "ready" => \A n \in Real : Exact(n, First(n))

\* The test of the offset ignores the width of an access.  That is enough for
\* aligned accesses to ports, and for bytes in memory, where the size is known.
AccessInside ==
  pc = "ready" => \A n \in Real, width \in {1, 2, 4}, k \in 0..32 :
    (regions[n].io \/ width = 1) /\ hw[First(n)] # "short" =>
      Touched(n, k * width, width) \subseteq 0..Decoded(First(n)) - 1
=============================================================================
