-------------------------- MODULE PciDeviceProofs --------------------------
(***************************************************************************)
(* Proofs about PciDevice, for every arrangement of the base address       *)
(* registers and every width of a register: sizing leaves every register   *)
(* of the device as it was, each region found has the address, the size    *)
(* and the kind that the hardware decodes, and an access that passes the   *)
(* test of its offset stays in its region.                                 *)
(***************************************************************************)
EXTENDS PciDevice, FiniteSetTheorems, TLAPS

USE DEF Lower, Upper, Io, BarKinds, Starts

\* While regions are left, the register of the turn is one of the device's: the
\* 64-bit BARs before it have used up at most the six BARs, and after those every
\* turn takes one register.
TurnInv ==
  pc \notin {"none", "ready", "failed"} =>
    /\ num_regions \in {1, 2, 6} /\ i \in 0..num_regions - 1
    /\ j \in 4..12 /\ j <= 4 + 2 * i + (IF pc \in {"restore_hi", "map"} THEN 1 ELSE 0)
    /\ j >= 10 => j <= i + 7

\* What the register was is kept in base while the register holds something else.
\* A turn starts at no upper register, and ends at no lower one.
ConfigInv ==
  LET same == Contents(hw)
  IN /\ pc \in {"size", "restore", "size_hi"} => hw[j] \notin Upper
     /\ pc = "map" => hw[j] \notin Lower
     /\ pc \notin {"restore", "restore_hi"} => config = same
     /\ pc = "restore" =>
          /\ base = same[j]
          /\ config \in [Regs -> Int]
          /\ \A r \in Regs \ {j} : config[r] = same[r]
     /\ pc = "size_hi" => hw[j] \in Lower /\ base = same[j]
     /\ pc = "restore_hi" =>
          /\ hw[j] \in Upper /\ base \div Half = same[j]
          /\ config \in [Regs -> Int]
          /\ \A r \in Regs \ {j} : config[r] = same[r]

PciInv == hw \in Hardware /\ num_regions \in {1, 2, 6} /\ TurnInv /\ ConfigInv

AllKinds == BarKinds \cup {"rom", "fixed"}

LEMMA SmallMod == ASSUME NEW n \in Nat, NEW m \in Nat, n < m PROVE n % m = n /\ n \div m = 0
OBVIOUS

LEMMA HighHalf ==
  ASSUME NEW n \in Nat, NEW m \in Nat, n < m
  PROVE  (n + m * 1) \div m = 1 /\ (n + m * 4) \div m = 4
OBVIOUS

LEMMA HardwareKinds ==
  ASSUME NEW h \in Hardware
  PROVE  /\ h \in [Regs -> AllKinds]
         /\ \A r \in 4..9 : h[r] \in BarKinds
         /\ \A r \in Regs : h[r] \in Lower => r < 9 /\ h[r + 1] \in Upper
         /\ \A r \in Regs : h[r] = "lo" => h[r + 1] = "hi"
         /\ \A r \in Regs : h[r] \in Upper => r - 1 \in Regs /\ h[r - 1] \in Lower
         /\ h[10] = "fixed" /\ h[11] = "fixed" /\ h[12] = "rom"
<1>1. PICK b \in Bars :
        h = [r \in Regs |-> IF r \in 4..9 THEN b[r] ELSE IF r = 12 THEN "rom" ELSE "fixed"]
  BY DEF Hardware
<1>2. /\ \A r \in 4..9 : b[r] \in BarKinds
      /\ \A r \in 4..9 : b[r] \in Lower <=> r < 9 /\ b[r + 1] \in Upper
      /\ b[4] \notin Upper
      /\ \A r \in 4..8 : b[r] = "lo" => b[r + 1] = "hi"
  BY KindsAssumption DEF Bars
<1>3. /\ \A r \in 4..9 : h[r] = b[r]
      /\ h[10] = "fixed" /\ h[11] = "fixed" /\ h[12] = "rom"
  BY <1>1 DEF Regs
<1>4. h \in [Regs -> AllKinds]
  BY <1>1, <1>2 DEF Regs, AllKinds
<1>5. ASSUME NEW r \in Regs, h[r] \in Lower
      PROVE  r < 9 /\ h[r + 1] \in Upper /\ (h[r] = "lo" => h[r + 1] = "hi")
  <2>1. r \in 4..9 /\ b[r] \in Lower /\ b[r] = h[r]
    BY <1>3, <1>5 DEF Regs
  <2>2. r < 9 /\ b[r + 1] \in Upper
    BY <1>2, <2>1
  <2>3. r \in 4..8 /\ h[r + 1] = b[r + 1]
    BY <1>3, <2>1, <2>2
  <2> QED
    BY <1>2, <2>1, <2>2, <2>3
<1>6. ASSUME NEW r \in Regs, h[r] \in Upper PROVE r - 1 \in Regs /\ h[r - 1] \in Lower
  <2>1. r \in 4..9 /\ b[r] \in Upper /\ r # 4
    BY <1>2, <1>3, <1>6 DEF Regs
  <2>2. r - 1 \in 4..9 /\ r - 1 < 9 /\ (r - 1) + 1 = r
    BY <2>1
  <2>3. b[r - 1] \in Lower
    BY <1>2, <2>1, <2>2
  <2> QED
    BY <1>3, <2>2, <2>3 DEF Regs
<1>7. \A r \in Regs : h[r] = "lo" => h[r + 1] = "hi"
  BY <1>5
<1> QED
  BY <1>2, <1>3, <1>4, <1>5, <1>6, <1>7

\* The contents of a register by its kind.
LEMMA ContentsValue ==
  ASSUME NEW h \in Hardware, NEW r \in Regs
  PROVE  Contents(h)[r] = CASE h[r] \in Io -> 64 * r + 1 [] h[r] = "mem" -> 64 * r
                            [] h[r] = "lo" -> (64 * r - ((64 * r) % 128)) + 4
                            [] h[r] \in {"wide", "top"} -> 4 [] h[r] = "hi" -> 1
                            [] h[r] = "rom" -> 64 * r
                            [] h[r] = "fixed" -> 23 [] OTHER -> 0
<1>1. h[r] \in AllKinds
  BY HardwareKinds
<1>2. /\ 64 * r \in Nat /\ 64 * r < Half /\ (64 * r) % Half = 64 * r
      /\ (64 * r) % 1024 = 64 * r
  BY SmallMod, HalfAssumption DEF Regs
<1>3. /\ (64 * r) % 16 = 0 /\ (64 * r) % 64 = 0 /\ (64 * r) % 32 = 0
      /\ 1 % 1 = 0 /\ 4 % 4 = 0
  BY DEF Regs
<1>4. Contents(h)[r] = Stored(h[r], IF h[r] \in Upper THEN Gran(h[r]) ELSE 64 * r)
  BY DEF Contents
<1>5. r \in Int
  BY DEF Regs
<1>6. CASE h[r] \in {"io", "mem", "rom"}
  BY <1>3, <1>4, <1>5, <1>6 DEF Stored, Gran, Bits
<1>7. CASE h[r] = "lo"
  <2>1. Gran(h[r]) = 128 /\ Bits(h[r]) = 4
    BY <1>7 DEF Gran, Bits
  <2>2. Contents(h)[r] = (64 * r - ((64 * r) % 128)) + 4
    BY <1>4, <1>7, <2>1 DEF Stored
  <2> QED
    BY <1>7, <2>2
<1>8. CASE h[r] = "hi"
  BY <1>3, <1>4, <1>8 DEF Stored, Gran, Bits
<1>9. CASE h[r] = "top"
  BY <1>3, <1>4, <1>9 DEF Stored, Gran, Bits
<1>10. CASE h[r] = "short"
  <2>1. Gran(h[r]) = 16 /\ Bits(h[r]) = 1
    BY <1>10 DEF Gran, Bits
  <2>2. Contents(h)[r] = (64 * r - 0) + 1
    BY <1>2, <1>3, <1>4, <1>10, <2>1 DEF Stored, IoSpace
  <2> QED
    BY <1>5, <1>10, <2>2
<1>11. CASE h[r] \in {"none", "fixed", "wide"}
  <2>1. Gran(h[r]) = Half /\ Bits(h[r]) = CASE h[r] = "fixed" -> 23 [] h[r] = "wide" -> 4
                                             [] OTHER -> 0
    BY <1>11 DEF Gran, Bits
  <2>2. Contents(h)[r] = (64 * r - 64 * r) + Bits(h[r])
    BY <1>2, <1>4, <1>11, <2>1 DEF Stored
  <2> QED
    BY <1>5, <1>11, <2>1, <2>2
<1> QED
  BY <1>1, <1>6, <1>7, <1>8, <1>9, <1>10, <1>11 DEF AllKinds

\* Writing back what a register holds restores it, the read-only bits included.
LEMMA StoredAgain ==
  ASSUME NEW h \in Hardware, NEW r \in Regs
  PROVE  Stored(h[r], Contents(h)[r]) = Contents(h)[r]
<1>1. h[r] \in AllKinds
  BY HardwareKinds
<1>2. 23 % Half = 23 /\ 0 % Half = 0 /\ 4 % Half = 4
  BY SmallMod, HalfAssumption
<1>3. CASE h[r] \in {"none", "fixed", "wide"}
  BY <1>2, <1>3, ContentsValue DEF Stored, Gran, Bits
<1>4. CASE h[r] = "short"
  <2>1. Contents(h)[r] = 64 * r + 1 /\ Gran(h[r]) = 16 /\ Bits(h[r]) = 1
    BY <1>4, ContentsValue DEF Gran, Bits
  <2>2. (64 * r + 1) % 1024 = 64 * r + 1 /\ (64 * r + 1) % 16 = 1 /\ r \in Int
    BY DEF Regs
  <2> QED
    BY <1>4, <2>1, <2>2 DEF Stored, IoSpace
<1>5. CASE h[r] \in {"io", "mem", "lo", "hi", "top", "rom"}
  BY <1>5, ContentsValue DEF Stored, Gran, Bits, Regs
<1> QED
  BY <1>1, <1>3, <1>4, <1>5 DEF AllKinds

\* Only the lower half of a 64-bit BAR looks like one where a region may start.
LEMMA Only64 ==
  ASSUME NEW h \in Hardware, NEW r \in Regs, h[r] \notin Upper
  PROVE  h[r] \in Lower <=>
           Contents(h)[r] % 2 = 0 /\ (Contents(h)[r] \div 4) % 2 = 1
<1>1. h[r] \in AllKinds
  BY HardwareKinds
<1> QED
  BY <1>1, ContentsValue DEF AllKinds, Regs

\* The register after one that is no lower half is no upper half.
LEMMA NextStarts ==
  ASSUME NEW h \in Hardware, NEW r \in Regs, r + 1 \in Regs, h[r] \notin Lower
  PROVE  h[r + 1] \notin Upper
<1>1. (r + 1) - 1 = r
  BY DEF Regs
<1> QED
  BY <1>1, HardwareKinds

LEMMA Typed ==
  ASSUME NEW h \in Hardware PROVE Contents(h) \in [Regs -> Int]
<1>1. \A r \in Regs : Contents(h)[r] \in Int
  BY ContentsValue, HardwareKinds DEF Regs, AllKinds
<1> QED
  BY <1>1 DEF Contents

LEMMA PciInvInit == Init => PciInv
BY DEF Init, PciInv, TurnInv, ConfigInv

\* Writing the saved value makes the registers what they were.
LEMMA Restored ==
  ASSUME NEW r \in Regs, hw \in Hardware, Write(r, Contents(hw)[r]),
         config \in [Regs -> Int], \A s \in Regs \ {r} : config[s] = Contents(hw)[s]
  PROVE  config' = Contents(hw)
<1>1. Contents(hw) \in [Regs -> Int] /\ config' = [config EXCEPT ![r] = Contents(hw)[r]]
  BY Typed, StoredAgain DEF Write
<1>2. \A s \in Regs : config'[s] = Contents(hw)[s]
  BY <1>1
<1> QED
  BY <1>1, <1>2

\* Writing ones changes only the register that is sized.
LEMMA Ones ==
  ASSUME NEW r \in Regs, hw \in Hardware, Write(r, Half - 1), config = Contents(hw)
  PROVE  /\ config' \in [Regs -> Int]
         /\ \A s \in Regs \ {r} : config'[s] = Contents(hw)[s]
<1>1. Contents(hw) \in [Regs -> Int] /\ hw[r] \in AllKinds
  BY Typed, HardwareKinds
<1>2. Gran(hw[r]) \in Nat \ {0} /\ Bits(hw[r]) \in Int /\ Half - 1 \in Int
  BY <1>1, HalfAssumption DEF Gran, Bits, AllKinds
<1>3. Stored(hw[r], Half - 1) \in Int
  <2>1. (Half - 1) % IoSpace \in Int
    BY HalfAssumption DEF IoSpace
  <2>2. \A n \in Int, m \in Nat \ {0} : n % m \in Int
    OBVIOUS
  <2> QED
    BY <1>2, <2>1, <2>2 DEF Stored
<1>4. config' = [config EXCEPT ![r] = Stored(hw[r], Half - 1)]
  BY DEF Write
<1> HIDE DEF Contents
<1> QED
  BY <1>1, <1>3, <1>4

LEMMA PciInvStep == PciInv /\ [Next]_vars => PciInv'
<1> SUFFICES ASSUME PciInv, [Next]_vars PROVE PciInv'
  OBVIOUS
<1> DEFINE same == Contents(hw)
<1> USE DEF PciInv, TurnInv, ConfigInv, fixed, Regs
<1>1. CASE Create
  <2>1. hw[4] \notin Upper
    BY HardwareKinds
  <2> QED
    BY <1>1, <2>1 DEF Create, Contents
<1>2. CASE SizeBar
  <2>1. /\ pc = "size" /\ pc' = "restore" /\ base' = same[j] /\ Write(j, Half - 1)
        /\ config = same /\ j \in Regs
        /\ UNCHANGED <<hw, num_regions, i, j>>
    BY <1>2 DEF SizeBar
  <2>2. config' \in [Regs -> Int] /\ \A s \in Regs \ {j} : config'[s] = same[s]
    BY <2>1, Ones
  <2> QED
    BY <2>1, <2>2 DEF Contents
<1>3. CASE RestoreIo
  <2>1. /\ pc = "restore" /\ Write(j, same[j]) /\ j \in Regs
        /\ i' = i + 1 /\ j' = j + 1 /\ pc' = IF i + 1 = num_regions THEN "ready" ELSE "size"
        /\ UNCHANGED <<hw, num_regions>>
    BY <1>3 DEF RestoreIo, EndTurn
  <2>2. config' = same
    BY <2>1, Restored
  <2>3. hw[j] \notin Lower
    <3>1. base = same[j] /\ hw[j] \notin Upper /\ Base % 2 = 1
      BY <1>3 DEF RestoreIo
    <3>2. hw[j] \in Lower => base % 2 = 0 /\ base # 0
      BY <2>1, <3>1, Only64
    <3> QED
      BY <3>1, <3>2 DEF Base, IsCompat
  <2>4. pc' = "size" => hw[j + 1] \notin Upper
    <3>1. pc' = "size" => j + 1 \in Regs
      BY <2>1
    <3> QED
      BY <2>1, <2>3, <3>1, NextStarts
  <2> QED
    BY <2>1, <2>2, <2>4 DEF Contents
<1>4. CASE RestoreMemory
  <2>1. /\ pc = "restore" /\ pc' = "map" /\ Write(j, same[j]) /\ j \in Regs
        /\ UNCHANGED <<hw, num_regions, i, j>> /\ base = same[j] /\ hw[j] \notin Upper
        /\ Base % 2 = 0 /\ (Base \div 4) % 2 = 0
    BY <1>4 DEF RestoreMemory
  <2>2. config' = same
    BY <2>1, Restored
  <2>3. ~IsCompat
    BY <2>1 DEF Base, IsCompat, CompatPorts
  <2>4. hw[j] \notin Lower
    BY <2>1, <2>3, Only64 DEF Base
  <2> QED
    BY <2>1, <2>2, <2>4 DEF Contents
<1>5. CASE Restore64
  <2>1. /\ pc = "restore" /\ pc' = "size_hi" /\ base = same[j] /\ Write(j, same[j]) /\ j \in Regs
        /\ UNCHANGED <<hw, num_regions, i, j, base>>
        /\ Base % 2 = 0 /\ (Base \div 4) % 2 = 1 /\ hw[j] \notin Upper
    BY <1>5 DEF Restore64
  <2>2. ~IsCompat
    BY <2>1 DEF Base, IsCompat, CompatPorts
  <2>3. hw[j] \in Lower
    BY <2>1, <2>2, Only64 DEF Base
  <2>4. config' = same
    BY <2>1, Restored
  <2> QED
    BY <2>1, <2>3, <2>4 DEF Contents
<1>6. CASE SizeUpper
  <2>1. /\ pc = "size_hi" /\ pc' = "restore_hi" /\ j' = j + 1 /\ Write(j + 1, Half - 1)
        /\ hw[j] \in Lower /\ j \in Regs /\ config = same
        /\ base' = same[j] + Half * same[j + 1]
        /\ UNCHANGED <<hw, num_regions, i>>
    BY <1>6 DEF SizeUpper
  <2>2. j < 9 /\ j + 1 \in Regs /\ hw[j + 1] \in Upper
    BY <2>1, HardwareKinds
  <2>3. config' \in [Regs -> Int] /\ \A s \in Regs \ {j + 1} : config'[s] = same[s]
    BY <2>1, <2>2, Ones
  <2>4. base' \div Half = same[j + 1]
    <3>1. /\ same[j + 1] \in {1, 4}
          /\ same[j] = IF hw[j] = "lo" THEN (64 * j - ((64 * j) % 128)) + 4 ELSE 4
      BY <2>1, <2>2, ContentsValue
    <3>2. \A n \in 4..8 : /\ (64 * n - ((64 * n) % 128)) + 4 \in Nat
                          /\ (64 * n - ((64 * n) % 128)) + 4 < 1024
      OBVIOUS
    <3>3. j \in 4..8
      BY <2>1, <2>2
    <3>4. same[j] \in Nat /\ same[j] < 1024
      BY <3>1, <3>2, <3>3
    <3> HIDE DEF same
    <3> QED
      <4>1. Half \in Nat /\ same[j] < Half
        BY <3>4, HalfAssumption
      <4>2. (same[j] + Half * 1) \div Half = 1 /\ (same[j] + Half * 4) \div Half = 4
        BY <3>4, <4>1, HighHalf
      <4> QED
        BY <2>1, <3>1, <4>2
  <2>5. Contents(hw)' = same /\ hw' = hw
    BY <2>1 DEF Contents
  <2> HIDE DEF same
  <2>6. TurnInv'
    BY <2>1, <2>2
  <2>7. ConfigInv'
    BY <2>1, <2>2, <2>3, <2>4, <2>5
  <2> QED
    BY <2>1, <2>6, <2>7
<1>7. CASE RestoreUpper
  <2>1. /\ pc = "restore_hi" /\ pc' = "map" /\ Write(j, same[j]) /\ j \in Regs
        /\ UNCHANGED <<hw, num_regions, i, j>>
    BY <1>7 DEF RestoreUpper
  <2>2. config' = same
    BY <2>1, Restored
  <2> QED
    BY <2>1, <2>2 DEF Contents
<1>8. CASE MapRegion
  <2>1. /\ pc = "map" /\ config = same /\ j \in Regs /\ hw[j] \notin Lower
        /\ i' = i + 1 /\ j' = j + 1 /\ pc' = IF i + 1 = num_regions THEN "ready" ELSE "size"
        /\ UNCHANGED <<hw, num_regions, config>>
    BY <1>8 DEF MapRegion, EndTurn
  <2>2. pc' = "size" => hw[j + 1] \notin Upper
    <3>1. pc' = "size" => j + 1 \in Regs
      BY <2>1
    <3> QED
      BY <2>1, <3>1, NextStarts
  <2> QED
    BY <2>1, <2>2 DEF Contents
<1>9. CASE MapFails
  BY <1>9 DEF MapFails, Contents
<1>10. CASE Destroy
  BY <1>10 DEF Destroy, Contents
<1>11. CASE UNCHANGED vars
  BY <1>11 DEF vars, Contents
<1> QED
  BY <1>1, <1>2, <1>3, <1>4, <1>5, <1>6, <1>7, <1>8, <1>9, <1>10, <1>11 DEF Next

DecodesAsBefore == decodes = TRUE

\* Nothing ever disables decoding, although a comment says sizing does
\* (pci_device.c:267): the write goes to the register at offset 2.
THEOREM DecodesThroughout == Spec => []DecodesAsBefore
<1>1. [Next]_vars => decodes' = decodes
  <2>1. \A on : SetDecoding(on) => decodes' = decodes
    BY DEF SetDecoding, CommandOffset
  <2> QED
    BY <2>1 DEF Next, vars, Create, SizeBar, RestoreIo, RestoreMemory, Restore64,
                SizeUpper, RestoreUpper, MapRegion, MapFails, Destroy
<1>2. DecodesAsBefore /\ [Next]_vars => DecodesAsBefore'
  BY <1>1 DEF DecodesAsBefore
<1>3. Init => DecodesAsBefore
  BY DEF Init, DecodesAsBefore
<1> QED
  BY <1>2, <1>3, PTL DEF Spec

\* Sizing leaves the device as the firmware set it up, the registers after the
\* last BAR included, for every arrangement of the BARs.
THEOREM IntactHolds == Spec => []Intact
<1>1. PciInv => Intact
  BY DEF PciInv, ConfigInv, Intact
<1> QED
  BY <1>1, PciInvInit, PciInvStep, PTL DEF Spec

-----------------------------------------------------------------------------
(***************************************************************************)
(* Types.  What a register stores fits in it, and the highest base address *)
(* is that of a 64-bit BAR.                                                *)
(***************************************************************************)
\* What sizing reads back.
LEMMA OnesValue ==
  ASSUME NEW h \in Hardware, NEW r \in Regs
  PROVE  Stored(h[r], Half - 1) = CASE h[r] = "io" -> Half - 15 [] h[r] = "short" -> 1009
                                    [] h[r] = "mem" -> Half - 64 [] h[r] = "lo" -> Half - 124
                                    [] h[r] = "wide" -> 4 [] h[r] = "hi" -> Half - 1
                                    [] h[r] = "top" -> Half - 4 [] h[r] = "rom" -> Half - 32
                                    [] h[r] = "fixed" -> 23 [] OTHER -> 0
<1>1. h[r] \in AllKinds
  BY HardwareKinds
<1>2. /\ (Half - 1) % 16 = 15 /\ (Half - 1) % 64 = 63 /\ (Half - 1) % 128 = 127
      /\ (Half - 1) % 32 = 31 /\ (Half - 1) % 1 = 0 /\ (Half - 1) % 4 = 3
      /\ (Half - 1) % 1024 = 1023 /\ 1023 % 16 = 15 /\ Half \in Int
  BY HalfAssumption
<1>3. (Half - 1) % Half = Half - 1
  BY SmallMod, HalfAssumption
<1>4. CASE h[r] = "io"
  BY <1>2, <1>4 DEF Stored, Gran, Bits
<1>5. CASE h[r] = "mem"
  BY <1>2, <1>5 DEF Stored, Gran, Bits
<1>6. CASE h[r] = "lo"
  BY <1>2, <1>6 DEF Stored, Gran, Bits
<1>7. CASE h[r] \in {"hi", "top"}
  BY <1>2, <1>7 DEF Stored, Gran, Bits
<1>8. CASE h[r] = "rom"
  BY <1>2, <1>8 DEF Stored, Gran, Bits
<1>9. CASE h[r] = "short"
  BY <1>2, <1>9 DEF Stored, Gran, Bits, IoSpace
<1>10. CASE h[r] \in {"none", "fixed", "wide"}
  <2>1. Gran(h[r]) = Half /\ Bits(h[r]) = CASE h[r] = "fixed" -> 23 [] h[r] = "wide" -> 4
                                             [] OTHER -> 0
    BY <1>10 DEF Gran, Bits
  <2>2. Stored(h[r], Half - 1) = ((Half - 1) - (Half - 1)) + Bits(h[r])
    BY <1>3, <1>10, <2>1 DEF Stored
  <2> QED
    BY <1>2, <1>10, <2>1, <2>2
<1> QED
  BY <1>1, <1>4, <1>5, <1>6, <1>7, <1>8, <1>9, <1>10 DEF AllKinds

LEMMA RegisterBounds ==
  ASSUME NEW h \in Hardware, NEW r \in Regs
  PROVE  Stored(h[r], Half - 1) \in 0..Half - 1 /\ Contents(h)[r] \in 0..Half - 1
<1>1. h[r] \in AllKinds
  BY HardwareKinds
<1>2. Stored(h[r], Half - 1) \in 0..Half - 1
  BY <1>1, OnesValue, HalfAssumption DEF AllKinds
<1>3. Contents(h)[r] \in 0..Half - 1
  <2>1. /\ 64 * r \in 0..Half - 2 /\ (64 * r - ((64 * r) % 128)) + 4 \in 0..Half - 1
        /\ 23 \in 0..Half - 1 /\ 1 \in 0..Half - 1 /\ 4 \in 0..Half - 1 /\ 0 \in 0..Half - 1
    BY HalfAssumption DEF Regs
  <2>2. 64 * r + 1 \in 0..Half - 1 /\ 64 * r \in 0..Half - 1
    BY <2>1, HalfAssumption
  <2> QED
    BY <1>1, <2>1, <2>2, ContentsValue DEF AllKinds
<1> QED
  BY <1>2, <1>3

\* What lacks to Half of a number rounded down to a multiple of a power of two.
LEMMA NegatedBounds ==
  ASSUME NEW n \in 0..Half - 1
  PROVE  /\ Negated(n - (n % 2)) \in 0..Half /\ Negated(n - (n % 16)) \in 0..Half
         /\ n - (n % 16) \in 0..Half - 1
BY HalfAssumption DEF Negated

LEMMA WideBounds == Half * Half >= 5 * Half /\ Half * Half \in Nat
<1>1. Half \in Nat /\ Half >= 5
  BY HalfAssumption
<1>2. \A n \in Nat : n >= 5 => n * n >= 5 * n /\ n * n \in Nat
  OBVIOUS
<1> QED
  BY <1>1, <1>2

LEMMA BaseFacts ==
  ASSUME TypeOK, PciInv, pc = "restore"
  PROVE  /\ Base \in 0..Half * Half - 1 /\ Size \in 0..Half - 1
         /\ IsCompat => Base % 2 = 1 /\ hw[j] \notin Starts
         /\ ~IsCompat => Base = Contents(hw)[j] /\ Size = size
<1>1. j \in Regs /\ base = Contents(hw)[j] /\ hw \in Hardware
  BY DEF PciInv, TurnInv, ConfigInv, Regs
<1>2. CASE IsCompat
  <2>1. /\ Base \in {497, 1009, 369, 881} /\ Size \in {Half - 8, Half - 4}
        /\ base = 0
    BY <1>2 DEF Base, Size, IsCompat, CompatPorts
  <2>2. Base \in 0..Half * Half - 1 /\ Size \in 0..Half - 1 /\ Base % 2 = 1
    BY <2>1, WideBounds, HalfAssumption
  <2>3. hw[j] \notin Starts
    <3>1. 64 * j > 0 /\ 64 * j + 1 > 0 /\ (64 * j - ((64 * j) % 128)) + 4 > 0
      BY <1>1 DEF Regs
    <3>2. Contents(hw)[j] = 0
      BY <1>1, <2>1
    <3>3. /\ hw[j] \in Io => Contents(hw)[j] = 64 * j + 1
          /\ hw[j] = "mem" => Contents(hw)[j] = 64 * j
          /\ hw[j] = "lo" => Contents(hw)[j] = (64 * j - ((64 * j) % 128)) + 4
          /\ hw[j] = "wide" => Contents(hw)[j] = 4
      BY <1>1, ContentsValue
    <3> QED
      BY <3>1, <3>2, <3>3
  <2> QED
    BY <1>2, <2>2, <2>3
<1>3. CASE ~IsCompat
  BY <1>1, <1>3 DEF Base, Size, TypeOK
<1> QED
  BY <1>2, <1>3

LEMMA MemoryTyped ==
  ASSUME TypeOK, NEW map \in {"null", "failed", "mapped"}
  PROVE  Memory(map) \in Region
<1>1. size \in 0..Half - 1 /\ base \in 0..Half * Half - 1 /\ Half * Half \in Nat
  BY WideBounds DEF TypeOK
<1>2. base - (base % 16) \in 0..Half * Half - 1
  BY <1>1
<1> QED
  BY <1>1, <1>2, NegatedBounds DEF Memory, Region

\* A step that writes what fits into a register keeps the types of the registers.
LEMMA WriteTyped ==
  ASSUME TypeOK, NEW r \in Regs, NEW v, Write(r, v), Stored(hw[r], v) \in 0..Half - 1
  PROVE  config' \in [Regs -> 0..Half - 1]
BY DEF TypeOK, Write

LEMMA EndTurnTyped ==
  ASSUME TypeOK, NEW region \in Region, EndTurn(region), i \in 0..5, j \in 4..12
  PROVE  /\ regions' \in [0..5 -> Region] /\ i' \in 0..6 /\ j' \in 4..13
         /\ pc' \in {"ready", "size"}
<1>1. regions' = [regions EXCEPT ![i] = region] /\ i' = i + 1 /\ j' = j + 1
      /\ pc' = IF i + 1 = num_regions THEN "ready" ELSE "size"
  BY DEF EndTurn
<1>2. regions \in [0..5 -> Region]
  BY DEF TypeOK
<1> QED
  BY <1>1, <1>2

LEMMA TypeStep == TypeOK /\ PciInv /\ [Next]_vars => TypeOK'
<1> SUFFICES ASSUME TypeOK, PciInv, [Next]_vars PROVE TypeOK'
  OBVIOUS
<1> USE DEF fixed
<1> DEFINE same == Contents(hw)
           turn == pc \in {"size", "restore", "size_hi", "restore_hi", "map"}
<1>0. (\A on : SetDecoding(on) => decodes' = decodes) /\ decodes \in BOOLEAN
  BY DEF SetDecoding, CommandOffset, TypeOK
<1>1. /\ hw \in Hardware /\ (turn => i \in 0..5 /\ j \in 4..12 /\ j \in Regs)
      /\ \A r \in Regs : /\ same[r] \in 0..Half - 1 /\ Stored(hw[r], Half - 1) \in 0..Half - 1
                         /\ Stored(hw[r], same[r]) \in 0..Half - 1
  <2>1. hw \in Hardware /\ (turn => i \in 0..5 /\ j \in 4..12 /\ j \in Regs)
    BY DEF PciInv, TurnInv, Regs
  <2> QED
    BY <2>1, RegisterBounds, StoredAgain
<1>2. CASE Create
  <2>1. Cleared \in [0..5 -> Region]
    <3>1. 0 \in 0..Half /\ 0 \in 0..Half * Half - 1
      BY WideBounds, HalfAssumption
    <3> QED
      BY <3>1 DEF Cleared, Region
  <2> QED
    BY <1>2, <2>1 DEF Create, TypeOK
<1>3. CASE SizeBar
  <2>1. /\ pc = "size" /\ pc' = "restore" /\ base' = config[j] /\ Write(j, Half - 1)
        /\ size' = Stored(hw[j], Half - 1)
        /\ UNCHANGED <<hw, compat, decodes, num_regions, regions, i, j>>
    BY <1>0, <1>3 DEF SizeBar
  <2>2. config' \in [Regs -> 0..Half - 1] /\ size' \in 0..Half - 1
    BY <1>1, <2>1, WriteTyped
  <2>3. base' \in 0..Half * Half - 1
    <3>1. config[j] \in 0..Half - 1
      BY <1>1, <2>1 DEF TypeOK
    <3> QED
      BY <2>1, <3>1, WideBounds, HalfAssumption
  <2> QED
    BY <2>1, <2>2, <2>3 DEF TypeOK
<1>4. CASE RestoreIo
  <2>1. /\ pc = "restore" /\ Base % 2 = 1 /\ Write(j, same[j])
        /\ EndTurn([base |-> Base - 1, size |-> Negated(Size - (Size % 2)), io |-> TRUE,
                    map |-> "null"])
        /\ UNCHANGED <<hw, compat, decodes, num_regions, base, size>>
    BY <1>0, <1>4 DEF RestoreIo, PciInv, ConfigInv
  <2>2. [base |-> Base - 1, size |-> Negated(Size - (Size % 2)), io |-> TRUE,
         map |-> "null"] \in Region
    <3>1. Base - 1 \in 0..Half * Half - 1
      BY <2>1, BaseFacts, WideBounds
    <3>2. Negated(Size - (Size % 2)) \in 0..Half
      BY <2>1, BaseFacts, NegatedBounds
    <3> QED
      BY <3>1, <3>2 DEF Region
  <2>3. config' \in [Regs -> 0..Half - 1]
    BY <1>1, <2>1, WriteTyped
  <2>4. /\ regions' \in [0..5 -> Region] /\ i' \in 0..6 /\ j' \in 4..13
        /\ pc' \in {"ready", "size"}
    BY <1>1, <2>1, <2>2, EndTurnTyped
  <2> QED
    BY <2>1, <2>3, <2>4 DEF TypeOK
<1>5. CASE RestoreMemory \/ Restore64
  <2>1. /\ pc = "restore" /\ pc' \in {"map", "size_hi"} /\ Write(j, same[j])
        /\ UNCHANGED <<hw, compat, decodes, num_regions, regions, i, j, base, size>>
    BY <1>0, <1>5 DEF RestoreMemory, Restore64, PciInv, ConfigInv
  <2>2. config' \in [Regs -> 0..Half - 1]
    BY <1>1, <2>1, WriteTyped
  <2> QED
    BY <2>1, <2>2 DEF TypeOK
<1>6. CASE SizeUpper
  <2>1. /\ pc = "size_hi" /\ pc' = "restore_hi" /\ j' = j + 1 /\ Write(j + 1, Half - 1)
        /\ base' = same[j] + Half * same[j + 1] /\ hw[j] \in Lower
        /\ UNCHANGED <<hw, compat, decodes, num_regions, regions, i, size>>
    BY <1>0, <1>6 DEF SizeUpper, PciInv, ConfigInv
  <2>2. j + 1 \in Regs /\ j + 1 \in 4..13 /\ same[j + 1] \in {1, 4}
    <3>1. j + 1 \in Regs /\ j + 1 \in 4..13 /\ hw[j + 1] \in Upper
      BY <1>1, <2>1, HardwareKinds DEF Regs
    <3> QED
      BY <1>1, <3>1, ContentsValue
  <2>3. config' \in [Regs -> 0..Half - 1]
    BY <1>1, <2>1, <2>2, WriteTyped
  <2>4. base' \in 0..Half * Half - 1
    <3>1. same[j] \in 0..Half - 1 /\ base' \in {same[j] + Half, same[j] + 4 * Half}
      BY <1>1, <2>1, <2>2, HalfAssumption
    <3> HIDE DEF same
    <3> QED
      BY <3>1, WideBounds, HalfAssumption
  <2> QED
    BY <2>1, <2>2, <2>3, <2>4 DEF TypeOK
<1>7. CASE RestoreUpper
  <2>1. /\ pc = "restore_hi" /\ pc' = "map" /\ Write(j, same[j])
        /\ UNCHANGED <<hw, compat, decodes, num_regions, regions, i, j, base, size>>
    BY <1>0, <1>7 DEF RestoreUpper, PciInv, ConfigInv
  <2>2. config' \in [Regs -> 0..Half - 1]
    BY <1>1, <2>1, WriteTyped
  <2> QED
    BY <2>1, <2>2 DEF TypeOK
<1>8. CASE MapRegion
  <2>1. PICK map \in {"mapped", "failed"} : EndTurn(Memory(map))
    BY <1>8 DEF MapRegion
  <2>2. pc = "map" /\ UNCHANGED <<hw, compat, num_regions, config, decodes, base, size>>
    BY <1>8 DEF MapRegion
  <2>3. /\ regions' \in [0..5 -> Region] /\ i' \in 0..6 /\ j' \in 4..13
        /\ pc' \in {"ready", "size"}
    BY <1>1, <2>1, <2>2, MemoryTyped, EndTurnTyped
  <2> QED
    BY <2>2, <2>3 DEF TypeOK
<1>9. CASE MapFails
  <2>1. PICK map \in {"null", "failed"} : regions' = [regions EXCEPT ![i] = Memory(map)]
    BY <1>9 DEF MapFails
  <2>2. /\ pc = "map" /\ pc' = "failed"
        /\ UNCHANGED <<hw, compat, num_regions, config, decodes, i, j, base, size>>
    BY <1>9 DEF MapFails
  <2>3. Memory(map) \in Region /\ regions \in [0..5 -> Region]
    BY MemoryTyped DEF TypeOK
  <2>4. regions' \in [0..5 -> Region]
    BY <2>1, <2>3
  <2> QED
    BY <2>2, <2>4 DEF TypeOK
<1>10. CASE Destroy
  <2>1. 0 \in 0..Half /\ 0 \in 0..Half * Half - 1
    BY WideBounds, HalfAssumption
  <2>2. Cleared \in [0..5 -> Region]
    BY <2>1 DEF Cleared, Region
  <2> QED
    BY <1>10, <2>2 DEF Destroy, TypeOK
<1>11. CASE UNCHANGED vars
  BY <1>11 DEF vars, TypeOK
<1> QED
  BY <1>2, <1>3, <1>4, <1>5, <1>6, <1>7, <1>8, <1>9, <1>10, <1>11 DEF Next

LEMMA TypeInit == Init => TypeOK
<1> SUFFICES ASSUME Init PROVE TypeOK
  OBVIOUS
<1>1. 0 \in 0..Half /\ 0 \in 0..Half * Half - 1 /\ 0 \in 0..Half - 1
  BY WideBounds, HalfAssumption
<1>2. Cleared \in [0..5 -> Region]
  BY <1>1 DEF Cleared, Region
<1>3. config \in [Regs -> 0..Half - 1]
  <2>1. hw \in Hardware /\ config = Contents(hw)
    BY DEF Init
  <2>2. \A r \in Regs : Contents(hw)[r] \in 0..Half - 1
    BY <2>1, RegisterBounds
  <2>3. Contents(hw) \in [Regs -> Int]
    BY <2>1, Typed
  <2> QED
    BY <2>1, <2>2, <2>3
<1> QED
  BY <1>1, <1>2, <1>3 DEF Init, TypeOK

\* Base addresses and sizes stay in range for every width of a register: no sum
\* or complement of the sizing leaves it.
THEOREM TypeCorrect == Spec => []TypeOK
<1>1. Init => TypeOK /\ PciInv
  BY TypeInit, PciInvInit
<1>2. TypeOK /\ PciInv /\ [Next]_vars => TypeOK' /\ PciInv'
  BY TypeStep, PciInvStep
<1> QED
  BY <1>1, <1>2, PTL DEF Spec

-----------------------------------------------------------------------------
(***************************************************************************)
(* The regions.  The order of a register grows by one from each register   *)
(* that starts a region to the next, so at most one register starts the    *)
(* n-th region, and the sizing has done exactly those before its register. *)
(***************************************************************************)
\* The register in which the region of the turn starts.
Start == IF j \in Regs /\ hw[j] \in Upper THEN j - 1 ELSE j

Sizing == pc \in {"size", "restore", "size_hi", "restore_hi", "map", "ready"}

\* The turn takes the i-th region, and what it keeps comes from the registers of
\* that region.
LayoutInv ==
  LET same == Contents(hw)
  IN /\ Sizing => Order(Start) = i
     /\ pc \in {"size", "restore", "size_hi"} => hw[j] \notin Upper
     /\ pc = "ready" => i = num_regions
     /\ pc = "map" => hw[j] \notin Lower \cup Io
     /\ pc \in {"restore", "size_hi", "restore_hi", "map"} => size = Stored(hw[Start], Half - 1)
     /\ pc \in {"restore_hi", "map"} =>
          base = same[Start] + (IF hw[j] \in Upper THEN Half * same[j] ELSE 0)

\* The turns before have each left the region of a BAR.
DoneInv ==
  Sizing => \A n \in 0..i - 1 : \E r \in Regs :
    /\ hw[r] \notin Upper /\ Order(r) = n
    /\ hw[r] \in Starts => Exact(n, r)

RegionInv == TypeOK /\ PciInv /\ LayoutInv /\ DoneInv

LEMMA FinitelyBefore ==
  ASSUME NEW r PROVE IsFiniteSet({s \in Regs : s < r /\ hw[s] \notin Upper})
<1>1. IsFiniteSet(4..12)
  <2>1. \A a, b \in Int : IsFiniteSet(a..b)
    BY FS_Interval
  <2>2. 4 \in Int /\ 12 \in Int
    OBVIOUS
  <2> QED
    BY <2>1, <2>2, Zenon
<1>2. IsFiniteSet(Regs)
  BY <1>1 DEF Regs
<1>3. {s \in Regs : s < r /\ hw[s] \notin Upper} \in SUBSET Regs
  OBVIOUS
<1> QED
  BY <1>2, <1>3, FS_Subset

LEMMA OrderType == ASSUME NEW r \in 4..13 PROVE Order(r) \in Nat
<1>1. IsFiniteSet({s \in Regs : s < r /\ hw[s] \notin Upper})
  BY FinitelyBefore
<1>2. Cardinality({s \in Regs : s < r /\ hw[s] \notin Upper}) \in Nat
  BY <1>1, FS_CardinalityType
<1> QED
  BY <1>2 DEF Order

LEMMA OrderFirst == Order(4) = 0
<1>1. {s \in Regs : s < 4 /\ hw[s] \notin Upper} = {}
  BY DEF Regs
<1> QED
  BY <1>1, FS_EmptySet DEF Order

LEMMA OrderNext ==
  ASSUME NEW r \in Regs
  PROVE  Order(r + 1) = IF hw[r] \in Upper THEN Order(r) ELSE Order(r) + 1
<1> DEFINE Before(q) == {s \in Regs : s < q /\ hw[s] \notin Upper}
<1>1. CASE hw[r] \in Upper
  <2>1. Before(r + 1) = Before(r)
    BY <1>1 DEF Regs
  <2> QED
    BY <1>1, <2>1 DEF Order
<1>2. CASE hw[r] \notin Upper
  <2>1. Before(r + 1) = Before(r) \cup {r} /\ r \notin Before(r)
    BY <1>2 DEF Regs
  <2>2. IsFiniteSet(Before(r))
    BY FinitelyBefore
  <2>3. Order(r) = Cardinality(Before(r)) /\ Order(r + 1) = Cardinality(Before(r + 1))
    BY DEF Order
  <2> HIDE DEF Before
  <2>4. Cardinality(Before(r) \cup {r}) = Cardinality(Before(r)) + 1
    BY <2>1, <2>2, FS_AddElement
  <2> QED
    BY <1>2, <2>1, <2>3, <2>4
<1> QED
  BY <1>1, <1>2

\* A register that starts a region comes before every later one in the order.
LEMMA OrderStrict ==
  ASSUME NEW q \in Regs, NEW r \in Regs, q < r, hw[q] \notin Upper
  PROVE  Order(q) < Order(r)
<1> DEFINE Before(p) == {s \in Regs : s < p /\ hw[s] \notin Upper}
<1>1. IsFiniteSet(Before(q)) /\ IsFiniteSet(Before(r))
  BY FinitelyBefore
<1>2. Before(q) \subseteq Before(r) /\ q \in Before(r) /\ q \notin Before(q)
  BY DEF Regs
<1>3. Order(q) = Cardinality(Before(q)) /\ Order(r) = Cardinality(Before(r))
  BY DEF Order
<1> HIDE DEF Before
<1>4. /\ Cardinality(Before(q)) <= Cardinality(Before(r))
      /\ Cardinality(Before(q)) # Cardinality(Before(r))
  BY <1>1, <1>2, FS_Subset
<1>5. Cardinality(Before(q)) \in Nat /\ Cardinality(Before(r)) \in Nat
  BY <1>1, FS_CardinalityType
<1> QED
  BY <1>3, <1>4, <1>5

LEMMA OrderUnique ==
  ASSUME NEW q \in Regs, NEW r \in Regs, hw[q] \notin Upper, hw[r] \notin Upper, Order(q) = Order(r)
  PROVE  q = r
<1>1. Order(q) \in Nat /\ Order(r) \in Nat
  BY OrderType DEF Regs
<1>2. ~(q < r) /\ ~(r < q)
  BY <1>1, OrderStrict
<1> QED
  BY <1>2 DEF Regs

LEMMA FirstIs ==
  ASSUME NEW n, NEW r \in Regs, hw[r] \notin Upper, Order(r) = n PROVE First(n) = r
<1>1. \E q \in Regs : hw[q] \notin Upper /\ Order(q) = n
  OBVIOUS
<1>2. First(n) \in Regs /\ hw[First(n)] \notin Upper /\ Order(First(n)) = n
  BY <1>1, Zenon DEF First
<1> QED
  BY <1>2, OrderUnique

\* What the registers say of the region that starts in one of them.
Described(region, r) ==
  /\ region.io = (hw[r] \in Io)
  /\ region.base = (Contents(hw)[r] - Bits(hw[r]))
                     + (IF hw[r] \in Lower THEN Half * Contents(hw)[r + 1] ELSE 0)
  /\ hw[r] # "short" =>
       region.size = IF Decoded(r) <= Half THEN Decoded(r) ELSE Half

\* A BAR that reads as ports is one, and its size is what the ones left out.
LEMMA IoExact ==
  ASSUME RegionInv, pc = "restore", Base % 2 = 1, hw[j] \in Starts
  PROVE  /\ hw[j] \in Io /\ Base - 1 = Contents(hw)[j] - Bits(hw[j])
         /\ hw[j] = "io" => Negated(Size - (Size % 2)) = 16
<1>1. j \in Regs /\ hw \in Hardware /\ Start = j /\ size = Stored(hw[Start], Half - 1)
  BY DEF RegionInv, PciInv, TurnInv, LayoutInv, Regs, Start
<1>2. Base = Contents(hw)[j] /\ Size = Stored(hw[j], Half - 1)
  BY <1>1, BaseFacts DEF RegionInv
<1>3. hw[j] \in Io
  <2>1. /\ hw[j] = "mem" => Contents(hw)[j] = 64 * j
        /\ hw[j] = "lo" => Contents(hw)[j] = (64 * j - ((64 * j) % 128)) + 4
        /\ hw[j] = "wide" => Contents(hw)[j] = 4
    BY <1>1, ContentsValue
  <2>2. (64 * j) % 2 = 0 /\ ((64 * j - ((64 * j) % 128)) + 4) % 2 = 0
    BY <1>1 DEF Regs
  <2> QED
    BY <1>2, <2>1, <2>2
<1>4. hw[j] = "io" => Size = Half - 15
  BY <1>1, <1>2, OnesValue
<1>5. (Half - 15) % 2 = 1 /\ Half \in Int
  BY HalfAssumption
<1>6. hw[j] = "io" => Negated(Size - (Size % 2)) = 16
  BY <1>4, <1>5 DEF Negated
<1> QED
  BY <1>2, <1>3, <1>6 DEF Gran, Bits

LEMMA LowHalf ==
  ASSUME NEW n \in Nat, n % 16 = 4, NEW u \in {1, 4}
  PROVE  n + Half * u \in Nat /\ (n + Half * u) % 16 = 4
BY HalfAssumption

\* What the device decodes for a 64-bit BAR, against the size that is found.
LEMMA WideDecoded ==
  ASSUME hw \in Hardware, NEW r \in Regs, hw[r] \in Lower
  PROVE  (IF Decoded(r) <= Half THEN Decoded(r) ELSE Half) = IF hw[r] = "lo" THEN 128 ELSE Half
<1>1. hw[r + 1] \in Upper /\ Half \in Nat /\ Half >= 1024
  BY HardwareKinds, HalfAssumption
<1>2. CASE hw[r] = "lo"
  BY <1>1, <1>2 DEF Decoded, Gran
<1>3. CASE hw[r] = "wide"
  <2>1. Decoded(r) \in {Half, Half * 4}
    BY <1>1, <1>3 DEF Decoded, Gran
  <2> QED
    BY <1>1, <1>3, <2>1
<1> QED
  BY <1>2, <1>3

\* The same of a memory BAR, of 32 bits or of 64.
LEMMA MemoryExact ==
  ASSUME RegionInv, pc = "map", hw[Start] \in Starts, NEW map
  PROVE  Described(Memory(map), Start)
<1>1. /\ j \in Regs /\ hw \in Hardware /\ size = Stored(hw[Start], Half - 1)
      /\ hw[j] \notin Lower /\ hw[j] \notin Io
      /\ base = Contents(hw)[Start] + (IF hw[j] \in Upper THEN Half * Contents(hw)[j] ELSE 0)
  BY DEF RegionInv, PciInv, TurnInv, LayoutInv, Regs
<1>2. /\ Memory(map).io = FALSE /\ Memory(map).size = Half - (size - (size % 16))
      /\ Memory(map).base = base - (base % 16)
  BY DEF Memory, Negated
<1>3. CASE hw[j] \in Upper
  <2>1. Start = j - 1 /\ Start \in 4..8 /\ Start \in Regs /\ hw[Start] \in Lower /\ Start + 1 = j
    BY <1>1, <1>3, HardwareKinds DEF Start, Regs
  <2>2. /\ Contents(hw)[Start] = IF hw[Start] = "lo" THEN (64 * Start - ((64 * Start) % 128)) + 4
                                 ELSE 4
        /\ Contents(hw)[j] \in {1, 4}
        /\ size = IF hw[Start] = "lo" THEN Half - 124 ELSE 4
    BY <1>1, <1>3, <2>1, ContentsValue, OnesValue
  <2>3. /\ (64 * Start - ((64 * Start) % 128)) + 4 \in Nat
        /\ ((64 * Start - ((64 * Start) % 128)) + 4) % 16 = 4
    BY <2>1
  <2>4. Contents(hw)[Start] \in Nat /\ Contents(hw)[Start] % 16 = 4
    BY <2>2, <2>3
  <2>5. base = Contents(hw)[Start] + Half * Contents(hw)[j]
    BY <1>1, <1>3
  <2>6. (Half - 124) % 16 = 4 /\ Half \in Int
    BY HalfAssumption
  <2>7. Memory(map).size = IF hw[Start] = "lo" THEN 128 ELSE Half
    BY <1>2, <2>2, <2>6
  <2>8. Memory(map).base = (Contents(hw)[Start] - 4) + Half * Contents(hw)[Start + 1]
    <3> HIDE DEF Contents
    <3>1. base \in Nat /\ base % 16 = 4
      BY <2>2, <2>4, <2>5, LowHalf
    <3>2. Half * Contents(hw)[j] \in Int
      BY <2>2, <2>6
    <3> QED
      BY <1>2, <2>1, <2>4, <2>5, <3>1, <3>2
  <2>9. Bits(hw[Start]) = 4
    BY <2>1 DEF Bits
  <2>10. Memory(map).size = IF Decoded(Start) <= Half THEN Decoded(Start) ELSE Half
    BY <1>1, <2>1, <2>7, WideDecoded
  <2>11. Memory(map).io = (hw[Start] \in Io)
    <3>1. (hw[Start] \in Io) = FALSE
      BY <2>1
    <3> QED
      BY <1>2, <3>1, Zenon
  <2>12. Memory(map).base = (Contents(hw)[Start] - Bits(hw[Start]))
                             + (IF hw[Start] \in Lower THEN Half * Contents(hw)[Start + 1] ELSE 0)
    <3> HIDE DEF Contents, Lower
    <3> QED
      BY <2>1, <2>8, <2>9, Zenon
  <2> QED
    BY <2>10, <2>11, <2>12, Zenon DEF Described
<1>4. CASE hw[j] \notin Upper
  <2>1. Start = j /\ hw[j] = "mem"
    BY <1>1, <1>4 DEF Start
  <2>2. Contents(hw)[j] = 64 * j /\ size = Half - 64
    BY <1>1, <2>1, ContentsValue, OnesValue
  <2>3. base = 64 * j
    BY <1>1, <1>4, <2>1, <2>2 DEF Regs
  <2>4. (64 * j) % 16 = 0 /\ (Half - 64) % 16 = 0 /\ Half \in Int /\ j \in Int
    BY <1>1, HalfAssumption DEF Regs
  <2>5. Memory(map).size = 64 /\ Memory(map).base = 64 * j
    BY <1>2, <2>2, <2>3, <2>4
  <2>6. Decoded(Start) = 64 /\ 64 <= Half /\ Bits(hw[Start]) = 0
    BY <2>1, HalfAssumption DEF Decoded, Gran, Bits
  <2>7. Memory(map).base = (Contents(hw)[Start] - Bits(hw[Start])) + 0
    BY <2>1, <2>2, <2>4, <2>5, <2>6
  <2>8. Memory(map).size = IF Decoded(Start) <= Half THEN Decoded(Start) ELSE Half
    BY <2>5, <2>6
  <2>9. Memory(map).io = (hw[Start] \in Io) /\ hw[Start] \notin Lower
    <3>1. (hw[Start] \in Io) = FALSE /\ hw[Start] \notin Lower
      BY <2>1
    <3> QED
      BY <1>2, <3>1, Zenon
  <2>10. Memory(map).base = (Contents(hw)[Start] - Bits(hw[Start]))
                             + (IF hw[Start] \in Lower THEN Half * Contents(hw)[Start + 1] ELSE 0)
    <3> HIDE DEF Contents, Lower
    <3> QED
      BY <2>7, <2>9, Zenon
  <2> QED
    BY <2>8, <2>9, <2>10, Zenon DEF Described
<1> QED
  BY <1>3, <1>4

\* The hardware stays, so the order of the registers does.
LEMMA OrderStays == ASSUME UNCHANGED hw, NEW r PROVE (Order(r))' = Order(r)
BY DEF Order

\* The end of a turn: what it stores describes the BAR of the turn, and the next
\* register is the next one that starts a region.
LEMMA TurnEnds ==
  ASSUME RegionInv, pc \in {"restore", "map"}, hw[j] \notin Lower,
         NEW region, EndTurn(region), UNCHANGED <<hw, num_regions>>, PciInv',
         hw[Start] \in Starts => Described(region, Start)
  PROVE  LayoutInv' /\ DoneInv'
<1>1. /\ j \in Regs /\ hw \in Hardware /\ i \in 0..5 /\ regions \in [0..5 -> Region]
      /\ Order(Start) = i /\ pc \notin {"none", "ready", "failed"} /\ Sizing
      /\ pc = "restore" => hw[j] \notin Upper
  BY DEF RegionInv, TypeOK, PciInv, TurnInv, LayoutInv, Regs, Sizing
<1>2. /\ regions' = [regions EXCEPT ![i] = region] /\ i' = i + 1 /\ j' = j + 1
      /\ pc' = IF i + 1 = num_regions THEN "ready" ELSE "size"
      /\ hw' = hw /\ num_regions' = num_regions
  BY DEF EndTurn
<1>3. Start \in Regs /\ hw[Start] \notin Upper
  BY <1>1, HardwareKinds DEF Start
<1>4. Order(j + 1) = i + 1
  <2>1. CASE hw[j] \in Upper
    <3>1. Start = j - 1 /\ Start + 1 = j
      BY <1>1, <2>1 DEF Start, Regs
    <3>2. Order(Start + 1) = Order(Start) + 1
      BY <1>3, OrderNext
    <3>3. Order(j + 1) = Order(j)
      BY <1>1, <2>1, OrderNext
    <3> QED
      BY <1>1, <3>1, <3>2, <3>3
  <2>2. CASE hw[j] \notin Upper
    <3>1. Start = j
      BY <2>2 DEF Start
    <3>2. Order(j + 1) = Order(j) + 1
      BY <1>1, <2>2, OrderNext
    <3> QED
      BY <1>1, <3>1, <3>2
  <2> QED
    BY <2>1, <2>2
<1>5. j + 1 \in Regs => hw[j + 1] \notin Upper
  <2>1. ASSUME j + 1 \in Regs, hw[j + 1] \in Upper PROVE FALSE
    <3>1. hw[(j + 1) - 1] \in Lower /\ (j + 1) - 1 = j
      BY <1>1, <2>1, HardwareKinds DEF Regs
    <3> QED
      BY <3>1
  <2> QED
    BY <2>1
<1>6. LayoutInv'
  <2>1. Start' = j + 1
    BY <1>2, <1>5 DEF Start
  <2>2. (Order(Start))' = Order(j + 1)
    BY <1>2, <2>1 DEF Order
  <2>3. pc' = "size" => hw'[j'] \notin Upper
    <3>1. pc' = "size" => j' \in Regs
      BY DEF PciInv, TurnInv, Regs
    <3> QED
      BY <1>2, <1>5, <3>1
  <2>4. pc' = "ready" => i' = num_regions'
    BY <1>2
  <2> QED
    BY <1>2, <1>4, <2>2, <2>3, <2>4 DEF LayoutInv
<1>7. DoneInv'
  <2>1. \A r \in Regs : (Order(r))' = Order(r)
    BY <1>2, OrderStays
  <2>2. \A n \in 0..i : \E r \in Regs :
          /\ hw[r] \notin Upper /\ Order(r) = n
          /\ hw[r] \in Starts => Described(regions'[n], r)
    <3>1. \A n \in 0..i - 1 : \E r \in Regs :
            /\ hw[r] \notin Upper /\ Order(r) = n
            /\ hw[r] \in Starts => Described(regions[n], r)
      BY <1>1 DEF RegionInv, DoneInv, Exact, Described
    <3>2. regions'[i] = region /\ \A n \in 0..i - 1 : regions'[n] = regions[n]
      BY <1>1, <1>2
    <3>3. TAKE n \in 0..i
    <3>4. CASE n = i
      BY <1>1, <1>3, <3>2, <3>4
    <3>5. CASE n # i
      <4>1. n \in 0..i - 1
        BY <1>1, <3>3, <3>5
      <4> QED
        BY <3>1, <3>2, <4>1
    <3> QED
      BY <3>4, <3>5
  <2>3. \A n, r : Described(regions'[n], r) => (Exact(n, r))'
    BY <1>2 DEF Described, Exact, Contents, Decoded
  <2>4. i' - 1 = i
    BY <1>1, <1>2
  <2> QED
    BY <1>2, <2>1, <2>2, <2>3, <2>4 DEF DoneInv
<1> QED
  BY <1>6, <1>7

\* A step within a turn changes no region.
LEMMA TurnContinues ==
  ASSUME RegionInv, Sizing, UNCHANGED <<hw, regions, i>>
  PROVE  DoneInv'
<1>1. \A n \in 0..i - 1 : \E r \in Regs :
        /\ hw[r] \notin Upper /\ Order(r) = n
        /\ hw[r] \in Starts => Exact(n, r)
  BY DEF RegionInv, DoneInv
<1>2. \A n, r : (Order(r))' = Order(r) /\ (Exact(n, r) => (Exact(n, r))')
  BY DEF Order, Exact, Contents, Decoded
<1> QED
  BY <1>1, <1>2 DEF DoneInv

LEMMA RegionInit == Init => LayoutInv /\ DoneInv
BY DEF Init, LayoutInv, DoneInv, Sizing

LEMMA RegionStep == RegionInv /\ [Next]_vars => RegionInv'
<1> SUFFICES ASSUME RegionInv, [Next]_vars PROVE LayoutInv' /\ DoneInv'
  BY TypeStep, PciInvStep DEF RegionInv
<1> USE DEF fixed
<1> DEFINE same == Contents(hw)
<1>1. /\ PciInv' /\ hw \in Hardware
      /\ pc \in {"size", "restore", "size_hi", "restore_hi", "map"} => j \in Regs /\ Sizing
      /\ i \in 0..6
  BY PciInvStep DEF RegionInv, PciInv, TurnInv, Regs, Sizing, TypeOK
<1>2. CASE Create
  <2>1. pc' = "size" /\ i' = 0 /\ j' = 4 /\ hw' = hw
    BY <1>2 DEF Create
  <2>2. hw[4] \notin Upper
    BY <1>1, HardwareKinds DEF Regs
  <2>3. (Order(Start))' = 0
    <3>1. Start' = 4
      BY <2>1, <2>2 DEF Start
    <3>2. (Order(Start))' = Order(4)
      BY <2>1, <3>1 DEF Order
    <3> QED
      BY <3>2, OrderFirst
  <2>4. LayoutInv'
    BY <2>1, <2>2, <2>3 DEF LayoutInv
  <2>5. DoneInv'
    BY <2>1 DEF DoneInv
  <2> QED
    BY <2>4, <2>5
<1>3. CASE SizeBar
  <2>1. /\ pc = "size" /\ pc' = "restore" /\ size' = Stored(hw[j], Half - 1)
        /\ UNCHANGED <<hw, num_regions, regions, i, j>>
    BY <1>3 DEF SizeBar
  <2>2. Order(Start) = i /\ hw[j] \notin Upper /\ Start = j
    BY <1>1, <2>1 DEF RegionInv, LayoutInv, Start
  <2>3. (Order(Start))' = Order(Start) /\ Start' = j
    BY <2>1, <2>2 DEF Order, Start
  <2> QED
    BY <1>1, <2>1, <2>2, <2>3, TurnContinues DEF LayoutInv
<1>4. CASE RestoreIo
  <2>1. /\ pc = "restore" /\ Base % 2 = 1
        /\ EndTurn([base |-> Base - 1, size |-> Negated(Size - (Size % 2)), io |-> TRUE,
                    map |-> "null"])
        /\ UNCHANGED <<hw, num_regions>>
    BY <1>4 DEF RestoreIo
  <2>2. Start = j
    BY <1>1, <2>1 DEF RegionInv, LayoutInv, Start
  <2>3. hw[j] \notin Lower /\ (hw[j] \in Starts => hw[j] \in Io)
    BY <2>1, IoExact
  <2>4. ASSUME hw[Start] \in Starts
        PROVE Described([base |-> Base - 1, size |-> Negated(Size - (Size % 2)), io |-> TRUE,
                         map |-> "null"], Start)
    <3>1. /\ hw[j] \in Io /\ Base - 1 = same[j] - Bits(hw[j])
          /\ hw[j] = "io" => Negated(Size - (Size % 2)) = 16
      BY <2>1, <2>2, <2>4, IoExact
    <3>2. same[j] - Bits(hw[j]) \in Int
      BY <1>1, <2>1, <3>1, Typed DEF Bits
    <3>3. Decoded(j) = 16 /\ 16 <= Half
      BY <3>1, HalfAssumption DEF Decoded, Gran
    <3> HIDE DEF same
    <3>4. (same[j] - Bits(hw[j])) + 0 = Base - 1
      BY <3>1, <3>2
    <3> QED
      BY <2>2, <3>1, <3>3, <3>4 DEF Described, same
  <2> QED
    BY <1>1, <2>1, <2>3, <2>4, TurnEnds
<1>5. CASE RestoreMemory
  <2>1. /\ pc = "restore" /\ pc' = "map" /\ Base % 2 = 0 /\ (Base \div 4) % 2 = 0
        /\ UNCHANGED <<hw, num_regions, regions, i, j, base, size>>
    BY <1>5 DEF RestoreMemory
  <2>2. /\ Order(Start) = i /\ hw[j] \notin Upper /\ Start = j /\ base = same[j]
        /\ size = Stored(hw[Start], Half - 1)
    BY <1>1, <2>1 DEF RegionInv, LayoutInv, Start, PciInv, ConfigInv
  <2>3. (Order(Start))' = Order(Start) /\ Start' = j
    BY <2>1, <2>2 DEF Order, Start
  <2>4. hw[j] \notin Lower \cup Io
    <3>1. CASE IsCompat
      BY <2>1, <3>1, BaseFacts DEF RegionInv
    <3>2. CASE ~IsCompat
      <4>1. Base = same[j]
        BY <2>1, <3>2, BaseFacts DEF RegionInv
      <4>2. /\ hw[j] \in Io => same[j] = 64 * j + 1
            /\ hw[j] = "lo" => same[j] = (64 * j - ((64 * j) % 128)) + 4
            /\ hw[j] = "wide" => same[j] = 4
        BY <1>1, <2>1, ContentsValue
      <4>3. /\ (64 * j + 1) % 2 = 1
            /\ (((64 * j - ((64 * j) % 128)) + 4) \div 4) % 2 = 1
        BY <1>1, <2>1 DEF Regs
      <4> QED
        BY <2>1, <4>1, <4>2, <4>3
    <3> QED
      BY <3>1, <3>2
  <2>5. base' = (Contents(hw)[Start])' + 0
    <3>1. same[j] \in Int
      BY <1>1, <2>1, Typed
    <3>2. (Contents(hw)[Start])' = same[j]
      BY <2>1, <2>3 DEF Contents
    <3> QED
      BY <2>1, <2>2, <3>1, <3>2
  <2>6. LayoutInv'
    BY <2>1, <2>2, <2>3, <2>4, <2>5 DEF LayoutInv
  <2> QED
    BY <1>1, <2>1, <2>6, TurnContinues
<1>6. CASE Restore64
  <2>1. /\ pc = "restore" /\ pc' = "size_hi"
        /\ UNCHANGED <<hw, num_regions, regions, i, j, base, size>>
    BY <1>6 DEF Restore64
  <2>2. /\ Order(Start) = i /\ hw[j] \notin Upper /\ size = Stored(hw[Start], Half - 1)
    BY <1>1, <2>1 DEF RegionInv, LayoutInv
  <2>3. (Order(Start))' = Order(Start) /\ Start' = Start
    BY <2>1 DEF Order, Start
  <2> QED
    BY <1>1, <2>1, <2>2, <2>3, TurnContinues DEF LayoutInv
<1>7. CASE SizeUpper
  <2>1. /\ pc = "size_hi" /\ pc' = "restore_hi" /\ j' = j + 1
        /\ base' = same[j] + Half * same[j + 1] /\ hw[j] \in Lower
        /\ UNCHANGED <<hw, num_regions, regions, i, size>>
    BY <1>7 DEF SizeUpper, RegionInv, PciInv, ConfigInv
  <2>2. /\ Order(Start) = i /\ Start = j /\ size = Stored(hw[Start], Half - 1)
        /\ j + 1 \in Regs /\ hw[j + 1] \in Upper
    BY <1>1, <2>1, HardwareKinds DEF RegionInv, LayoutInv, Start, Regs
  <2>3. Start' = j /\ (Order(Start))' = Order(Start)
    <3>1. Start' = (j + 1) - 1 /\ j \in Int
      BY <1>1, <2>1, <2>2 DEF Start, Regs
    <3>2. Start' = j
      BY <3>1
    <3> QED
      BY <2>1, <2>2, <3>2 DEF Order
  <2>4. /\ size' = (Stored(hw[Start], Half - 1))'
        /\ base' = (Contents(hw)[Start] + (IF hw[j] \in Upper THEN Half * Contents(hw)[j] ELSE 0))'
    <3>1. (Contents(hw))' = same
      BY <2>1 DEF Contents
    <3>2. size' = (Stored(hw[Start], Half - 1))'
      BY <2>1, <2>2, <2>3 DEF Stored
    <3> HIDE DEF same
    <3> QED
      BY <2>1, <2>2, <2>3, <3>1, <3>2
  <2>5. LayoutInv'
    BY <1>1, <2>1, <2>2, <2>3, <2>4 DEF LayoutInv
  <2>6. DoneInv'
    BY <1>1, <2>1, TurnContinues
  <2> QED
    BY <2>5, <2>6
<1>8. CASE RestoreUpper
  <2>1. /\ pc = "restore_hi" /\ pc' = "map" /\ hw[j] \in Upper
        /\ UNCHANGED <<hw, num_regions, regions, i, j, base, size>>
    BY <1>8 DEF RestoreUpper, RegionInv, PciInv, ConfigInv
  <2>2. /\ Order(Start) = i /\ size = Stored(hw[Start], Half - 1)
        /\ base = same[Start] + (IF hw[j] \in Upper THEN Half * same[j] ELSE 0)
    BY <1>1, <2>1 DEF RegionInv, LayoutInv
  <2>3. (Order(Start))' = Order(Start) /\ Start' = Start
    BY <2>1 DEF Order, Start
  <2>4. /\ size' = (Stored(hw[Start], Half - 1))'
        /\ base' = (Contents(hw)[Start] + (IF hw[j] \in Upper THEN Half * Contents(hw)[j] ELSE 0))'
    <3>1. (Contents(hw))' = same
      BY <2>1 DEF Contents
    <3>2. size' = (Stored(hw[Start], Half - 1))'
      BY <2>1, <2>2, <2>3 DEF Stored
    <3> HIDE DEF same
    <3> QED
      BY <2>1, <2>2, <2>3, <3>1, <3>2
  <2>5. LayoutInv'
    BY <1>1, <2>1, <2>2, <2>3, <2>4 DEF LayoutInv
  <2>6. DoneInv'
    BY <1>1, <2>1, TurnContinues
  <2> QED
    BY <2>5, <2>6
<1>9. CASE MapRegion
  <2>1. PICK map \in {"mapped", "failed"} : EndTurn(Memory(map))
    BY <1>9 DEF MapRegion
  <2>2. pc = "map" /\ UNCHANGED <<hw, num_regions>>
    BY <1>9 DEF MapRegion
  <2>3. hw[j] \notin Lower
    BY <2>2 DEF RegionInv, LayoutInv
  <2> QED
    BY <1>1, <2>1, <2>2, <2>3, MemoryExact, TurnEnds
<1>10. CASE MapFails \/ Destroy
  BY <1>10 DEF MapFails, Destroy, LayoutInv, DoneInv, Sizing
<1>11. CASE UNCHANGED vars
  <2>1. UNCHANGED <<hw, num_regions, regions, i, j, base, size, pc>>
    BY <1>11 DEF vars
  <2>2. (Order(Start))' = Order(Start) /\ Start' = Start /\ (Contents(hw))' = same
        /\ Sizing' = Sizing
    BY <2>1 DEF Order, Start, Contents, Sizing
  <2>3. LayoutInv'
    BY <2>1, <2>2 DEF RegionInv, LayoutInv, Stored
  <2>4. CASE Sizing
    BY <2>1, <2>3, <2>4, TurnContinues
  <2>5. CASE ~Sizing
    BY <2>2, <2>3, <2>5 DEF DoneInv
  <2> QED
    BY <2>4, <2>5
<1> QED
  BY <1>2, <1>3, <1>4, <1>5, <1>6, <1>7, <1>8, <1>9, <1>10, <1>11 DEF Next

\* At the end every region of a BAR is the region of the register it stems from.
LEMMA RegionInvExact == RegionInv => RegionExact
<1> SUFFICES ASSUME RegionInv, pc = "ready", NEW n \in Real PROVE Exact(n, First(n))
  BY DEF RegionExact
<1>1. n \in 0..num_regions - 1 /\ hw[First(n)] \in Starts
  BY DEF Real
<1>2. i = num_regions /\ Sizing
  BY DEF RegionInv, LayoutInv, Sizing
<1>3. PICK r \in Regs : /\ hw[r] \notin Upper /\ Order(r) = n
                        /\ hw[r] \in Starts => Exact(n, r)
  BY <1>1, <1>2 DEF RegionInv, DoneInv
<1>4. First(n) = r
  BY <1>3, FirstIs
<1> QED
  BY <1>1, <1>3, <1>4

LEMMA RegionInvHolds == Spec => []RegionInv
<1>1. Init => RegionInv
  BY TypeInit, PciInvInit, RegionInit DEF RegionInv
<1> QED
  BY <1>1, RegionStep, PTL DEF Spec

\* However the device mixes ports, 32-bit and 64-bit memory, each region has the
\* address and the kind of its own BAR, and, unless the upper bits of a port
\* address are 0, its size as far as 32 bits tell it.
THEOREM RegionExactHolds == Spec => []RegionExact
BY RegionInvHolds, RegionInvExact, PTL

\* What does not start beyond the size that was found is decoded.
LEMMA InsideAt ==
  ASSUME PciInv, RegionExact, pc = "ready", NEW n \in Real, NEW width \in {1, 2, 4},
         NEW k \in Nat, regions[n].io \/ width = 1, hw[First(n)] # "short",
         First(n) \in Regs
  PROVE  Touched(n, k * width, width) \subseteq 0..Decoded(First(n)) - 1
<1> DEFINE kind == hw[First(n)]
           bytes == Decoded(First(n))
<1>1. /\ kind \in Starts /\ regions[n].io = (kind \in Io)
      /\ regions[n].size = IF bytes <= Half THEN bytes ELSE Half
  BY DEF RegionExact, Exact, Real
<1>2. Half \in Nat /\ Half >= 1024 /\ hw \in Hardware
  BY HalfAssumption DEF PciInv
<1>3. bytes \in {16, 64, 128, Half, Half * 4} /\ (kind = "io" => bytes = 16)
  <2>1. CASE kind \in Lower
    <3>1. hw[First(n) + 1] \in Upper
      BY <1>2, <2>1, HardwareKinds
    <3>2. Gran(hw[First(n) + 1]) \in {1, 4}
      BY <3>1 DEF Gran
    <3>3. kind = "lo" => bytes = 128
      BY DEF Decoded, Gran
    <3>4. kind = "wide" => bytes = Half * Gran(hw[First(n) + 1])
      BY DEF Decoded
    <3> QED
      BY <1>2, <2>1, <3>2, <3>3, <3>4
  <2>2. CASE kind \notin Lower
    BY <1>1, <2>2 DEF Decoded, Gran
  <2> QED
    BY <2>1, <2>2
<1>4. CASE Refused(n, k * width)
  BY <1>4 DEF Touched
<1>5. CASE ~Refused(n, k * width)
  <2>1. ~(k * width >= regions[n].size)
    BY <1>5 DEF Refused
  <2>2. CASE regions[n].io
    <3>1. bytes = 16 /\ 16 <= Half
      <4>1. kind \in Io
        BY <1>1, <2>2, Zenon
      <4>2. kind = "io"
        BY <4>1
      <4> QED
        BY <1>2, <1>3, <4>2
    <3>2. Touched(n, k * width, width) = (k * width)..(k * width + width - 1)
      BY <1>5, <2>2 DEF Touched
    <3>3. k * width \in Nat /\ k * width + width - 1 <= 15
      <4>1. \A m \in Nat : /\ m * 1 < 16 => m * 1 \in Nat /\ m * 1 + 1 - 1 <= 15
                           /\ m * 2 < 16 => m * 2 \in Nat /\ m * 2 + 2 - 1 <= 15
                           /\ m * 4 < 16 => m * 4 \in Nat /\ m * 4 + 4 - 1 <= 15
        OBVIOUS
      <4>2. regions[n].size = 16
        BY <1>1, <3>1
      <4>3. k * width < 16
        BY <2>1, <4>2
      <4> QED
        BY <4>1, <4>3
    <3>4. k * width + width - 1 \in Int
      OBVIOUS
    <3>5. \A a \in Nat, b \in Int : b <= 15 => a..b \subseteq 0..16 - 1
      OBVIOUS
    <3>6. (k * width)..(k * width + width - 1) \subseteq 0..16 - 1
      BY <3>3, <3>4, <3>5
    <3> QED
      BY <3>1, <3>2, <3>6
  <2>3. CASE ~regions[n].io
    <3>1. width = 1 /\ k * width = k /\ (k * width) * width = k
      BY <2>3
    <3>2. Touched(n, k * width, width) = k..(k + 1 - 1)
      BY <1>5, <2>3, <3>1 DEF Touched
    <3>3. bytes \in Int /\ k < bytes
      <4>1. bytes \in Int
        BY <1>2, <1>3
      <4> HIDE DEF bytes
      <4> QED
        BY <1>1, <1>2, <2>1, <3>1, <4>1
    <3> HIDE DEF bytes
    <3>4. k..(k + 1 - 1) \subseteq 0..bytes - 1
      BY <3>3
    <3> QED
      BY <3>2, <3>4 DEF bytes
  <2> QED
    BY <2>2, <2>3
<1> QED
  BY <1>4, <1>5

\* A region that was found stems from a register.
LEMMA FirstInRegs == RegionInv /\ pc = "ready" => \A n \in Real : First(n) \in Regs
<1> SUFFICES ASSUME RegionInv, pc = "ready", NEW n \in Real PROVE First(n) \in Regs
  OBVIOUS
<1>1. n \in 0..i - 1 /\ Sizing
  BY DEF RegionInv, LayoutInv, Sizing, Real
<1>2. PICK r \in Regs : hw[r] \notin Upper /\ Order(r) = n
  BY <1>1 DEF RegionInv, DoneInv
<1> QED
  BY <1>2, FirstIs

\* An access that is not refused stays inside what the device decodes.
THEOREM AccessInsideHolds == Spec => []AccessInside
<1>1. RegionInv => AccessInside
  <2>1. 0..32 \subseteq Nat
    OBVIOUS
  <2>2. RegionInv => PciInv
    BY DEF RegionInv
  <2> QED
    BY <2>1, <2>2, RegionInvExact, FirstInRegs, InsideAt DEF AccessInside
<1> QED
  BY <1>1, RegionInvHolds, PTL

\* So does one at any offset, however large.
THEOREM AnyAccessInside ==
  Spec => [](pc = "ready" => \A n \in Real, width \in {1, 2, 4}, k \in Nat :
               (regions[n].io \/ width = 1) /\ hw[First(n)] # "short" =>
                 Touched(n, k * width, width) \subseteq 0..Decoded(First(n)) - 1)
<1>1. RegionInv =>
        (pc = "ready" => \A n \in Real, width \in {1, 2, 4}, k \in Nat :
           (regions[n].io \/ width = 1) /\ hw[First(n)] # "short" =>
             Touched(n, k * width, width) \subseteq 0..Decoded(First(n)) - 1)
  <2>1. RegionInv => PciInv
    BY DEF RegionInv
  <2> QED
    BY <2>1, RegionInvExact, FirstInRegs, InsideAt
<1> QED
  BY <1>1, RegionInvHolds, PTL
=============================================================================
