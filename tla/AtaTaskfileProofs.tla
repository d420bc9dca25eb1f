------------------------- MODULE AtaTaskfileProofs -------------------------
(***************************************************************************)
(* Proofs about AtaTaskfile: whatever a device leaves in the registers,    *)
(* each command finds its arguments in them, for all arguments.  The idea: *)
(* while a wrapper runs, the last write to a register that is still to be  *)
(* made, or its content if there is none, is what the command needs; of a  *)
(* register that is two deep, the last two writes.                         *)
(***************************************************************************)
EXTENDS AtaTaskfile, SequenceTheorems, TLAPS

\* No write to r is left from the n-th one on, or none up to the n-th.
NoneFrom(r, n) == \A k \in n..Len(todo) : todo[k][1] # r

LastIs(r, v) ==
  \/ current[r] = v /\ NoneFrom(r, 1)
  \/ \E n \in 1..Len(todo) : todo[n] = <<r, v>> /\ NoneFrom(r, n + 1)

\* w comes before v.
LastTwoAre(r, w, v) ==
  \/ previous[r] = w /\ current[r] = v /\ NoneFrom(r, 1)
  \/ /\ current[r] = w
     /\ \E n \in 1..Len(todo) :
          /\ todo[n] = <<r, v>> /\ NoneFrom(r, n + 1)
          /\ \A k \in 1..n - 1 : todo[k][1] # r
  \/ \E m \in 1..Len(todo), n \in 1..Len(todo) :
       /\ m < n /\ todo[m] = <<r, w>> /\ todo[n] = <<r, v>> /\ NoneFrom(r, n + 1)
       /\ \A k \in m + 1..n - 1 : todo[k][1] # r

DeviceIs(low) ==
  \/ device.lba /\ device.low = low /\ NoneFrom("device", 1)
  \/ \E n \in 1..Len(todo) : todo[n] = <<"device", low>> /\ NoneFrom("device", n + 1)

HasAddress == {"lba", "count_lba", "count_lba_ext", "set_features", "microcode"}
HasCount == {"count", "count_lba", "count_lba_ext", "set_features", "microcode"}

AddressInv ==
  state = "setup" =>
    LET lba == Address(request) IN
      /\ request.kind \in HasAddress =>
           /\ LastIs("lba_low", lba[1]) /\ LastIs("lba_mid", lba[2]) /\ LastIs("lba_high", lba[3])
           /\ DeviceIs(IF request.kind = "count_lba_ext" THEN 0 ELSE lba[4] % 16)
      /\ request.kind = "count_lba_ext" =>
           /\ LastTwoAre("lba_low", lba[4], lba[1])
           /\ LastTwoAre("lba_mid", lba[5], lba[2])
           /\ LastTwoAre("lba_high", lba[6], lba[3])

CountInv ==
  state = "setup" =>
    /\ request.kind \in HasCount => LastIs("sector_count", request.count[1])
    /\ request.kind = "count_lba_ext" =>
         LastTwoAre("sector_count", request.count[2], request.count[1])

TaskfileInv == TypeOK /\ SelectionKept /\ AddressInv /\ CountInv

-----------------------------------------------------------------------------
LEMMA RequestTyped ==
  ASSUME NEW r \in Requests
  PROVE  /\ r.kind \in Kinds /\ r.code \in Byte
         /\ r.count[1] \in Byte /\ r.count[2] \in Byte
         /\ r.lba \in [1..6 -> Byte] /\ \A k \in 1..6 : Address(r)[k] \in Byte
         /\ Address(r)[4] % 16 \in 0..15
<1>1. /\ r.kind \in Kinds /\ r.code \in Byte /\ r.count \in [1..2 -> Byte]
      /\ r.lba \in [1..6 -> Byte]
  BY ArgumentsAssumption DEF Requests
<1>2. r.count[1] \in Byte /\ r.count[2] \in Byte /\ 0 \in Byte
  BY <1>1 DEF Byte
<1>3. \A k \in 1..6 : Address(r)[k] \in Byte
  <2>1. CASE r.kind = "set_features"
    BY <1>1, <1>2, <2>1 DEF Address
  <2>2. CASE r.kind = "microcode"
    BY <1>1, <1>2, <2>2 DEF Address
  <2>3. CASE r.kind \notin {"set_features", "microcode"}
    BY <1>1, <2>3 DEF Address
  <2> QED
    BY <2>1, <2>2, <2>3
<1>4. Address(r)[4] % 16 \in 0..15
  BY <1>3 DEF Byte
<1> QED
  BY <1>1, <1>2, <1>3, <1>4

LEMMA SetupTyped == ASSUME NEW r \in Requests PROVE Setup(r) \in Seq(Writes)
<1>1. \A w \in {"sector_count", "lba_low", "lba_mid", "lba_high"}, b \in Byte : <<w, b>> \in Writes
  BY DEF Writes, Registers
<1>2. \A b \in 0..15 : <<"device", b>> \in Writes
  BY DEF Writes
<1>3. ASSUME NEW b \in Byte PROVE SetSectorCount(b) \in Seq(Writes) /\ SetFeatures(b) \in Seq(Writes)
  <2>1. <<"sector_count", b>> \in Writes
    BY <1>1
  <2> QED
    BY <2>1 DEF SetSectorCount, SetFeatures
<1>4. SetLba(Address(r)) \in Seq(Writes)
  BY <1>1, <1>2, RequestTyped DEF SetLba
<1>5. SetLba48(Address(r)) \in Seq(Writes)
  BY <1>1, <1>2, RequestTyped DEF SetLba48
<1>6. SetSectorCount16(r.count) \in Seq(Writes)
  BY <1>1, RequestTyped DEF SetSectorCount16
<1>7. <<>> \in Seq(Writes)
  OBVIOUS
<1> QED
  BY <1>3, <1>4, <1>5, <1>6, <1>7, RequestTyped, ConcatProperties DEF Setup, Kinds

-----------------------------------------------------------------------------
\* A write of the first one that is left.
WriteStep == WriteRegister \/ WriteDevice

LEMMA Popped ==
  ASSUME TypeOK, WriteStep
  PROVE  /\ Len(todo) \in Nat \ {0} /\ Len(todo') = Len(todo) - 1
         /\ \A k \in 1..Len(todo) - 1 : todo'[k] = todo[k + 1]
         /\ Head(todo) = todo[1] /\ todo[1] \in Writes
         /\ todo' \in Seq(Writes)
         /\ UNCHANGED <<request, state, selected>>
<1>1. todo \in Seq(Writes) /\ todo # <<>> /\ todo' = Tail(todo) /\ UNCHANGED <<request, state, selected>>
  BY DEF TypeOK, WriteStep, WriteRegister, WriteDevice
<1> QED
  BY <1>1, HeadTailProperties, EmptySeq, ElementOfSeq

\* Where the writes that are left move to.
LEMMA Shift ==
  ASSUME TypeOK, WriteStep
  PROVE  /\ Len(todo) \in Nat \ {0} /\ Len(todo') = Len(todo) - 1
         /\ \A n \in 1..Len(todo) : n # 1 => n - 1 \in 1..Len(todo') /\ todo'[n - 1] = todo[n]
         /\ \A k \in 1..Len(todo') : k + 1 \in 1..Len(todo) /\ todo'[k] = todo[k + 1]
<1>1. /\ Len(todo) \in Nat \ {0} /\ Len(todo') = Len(todo) - 1
      /\ \A k \in 1..Len(todo) - 1 : todo'[k] = todo[k + 1]
  BY Popped
<1>2. ASSUME NEW n \in 1..Len(todo), n # 1
      PROVE  n - 1 \in 1..Len(todo') /\ todo'[n - 1] = todo[n]
  <2>1. n - 1 \in 1..Len(todo) - 1 /\ (n - 1) + 1 = n
    BY <1>1, <1>2
  <2>2. todo'[n - 1] = todo[(n - 1) + 1]
    BY <1>1, <2>1
  <2> QED
    BY <1>1, <2>1, <2>2
<1>3. ASSUME NEW k \in 1..Len(todo')
      PROVE  k + 1 \in 1..Len(todo) /\ todo'[k] = todo[k + 1]
  BY <1>1, <1>3
<1> QED
  BY <1>1, <1>2, <1>3

LEMMA LastKept ==
  ASSUME TypeOK, WriteStep, NEW r \in Registers, NEW v, LastIs(r, v)
  PROVE  LastIs(r, v)'
<1>1. /\ r # todo[1][1] => current'[r] = current[r]
      /\ todo[1] = <<r, v>> => current'[r] = v
  BY Popped DEF WriteStep, WriteRegister, WriteDevice, TypeOK, Registers
<1>2. \A n \in 1..Len(todo) + 1 : NoneFrom(r, n) => \A k \in 1..Len(todo') : k >= n - 1 => todo'[k][1] # r
  BY Popped DEF NoneFrom
<1>3. CASE NoneFrom(r, 1)
  BY <1>1, <1>2, <1>3, Popped DEF LastIs, NoneFrom
<1>4. ASSUME NEW n \in 1..Len(todo), todo[n] = <<r, v>>, NoneFrom(r, n + 1)
      PROVE  LastIs(r, v)'
  <2>1. CASE n = 1
    BY <1>1, <1>2, <1>4, <2>1, Popped DEF LastIs, NoneFrom
  <2>2. CASE n # 1
    <3>1. n - 1 \in 1..Len(todo') /\ todo'[n - 1] = <<r, v>>
      BY <1>4, <2>2, Popped
    <3>2. ASSUME NEW k \in n - 1 + 1..Len(todo') PROVE todo'[k][1] # r
      <4>1. Len(todo) \in Nat /\ Len(todo') = Len(todo) - 1
        BY Popped
      <4>2. n + 1 \in 1..Len(todo) + 1 /\ k \in 1..Len(todo') /\ k >= (n + 1) - 1
        BY <1>4, <4>1
      <4> QED
        BY <1>2, <1>4, <4>2
    <3> QED
      BY <3>1, <3>2 DEF LastIs, NoneFrom
  <2> QED
    BY <2>1, <2>2
<1> QED
  BY <1>3, <1>4 DEF LastIs

LEMMA LastTwoKept ==
  ASSUME TypeOK, WriteStep, NEW r \in Registers, NEW w, NEW v, LastTwoAre(r, w, v)
  PROVE  LastTwoAre(r, w, v)'
<1>1. /\ r # todo[1][1] => current'[r] = current[r] /\ previous'[r] = previous[r]
      /\ todo[1][1] = r => current'[r] = todo[1][2] /\ previous'[r] = current[r]
  BY Popped DEF WriteStep, WriteRegister, WriteDevice, TypeOK, Registers
<1>2. /\ Len(todo) \in Nat \ {0} /\ Len(todo') = Len(todo) - 1
      /\ 1 \in 1..Len(todo)
  BY Shift
<1>3. ASSUME NEW n \in 1..Len(todo), NoneFrom(r, n + 1), NEW k \in n..Len(todo')
      PROVE  todo'[k][1] # r
  <2>1. k \in 1..Len(todo') /\ k + 1 \in n + 1..Len(todo)
    BY <1>2
  <2> QED
    BY <1>3, <2>1, Shift DEF NoneFrom
<1>4. CASE previous[r] = w /\ current[r] = v /\ NoneFrom(r, 1)
  <2>1. todo[1][1] # r
    BY <1>2, <1>4 DEF NoneFrom
  <2>2. \A k \in 1..Len(todo') : todo'[k][1] # r
    <3>1. \A k \in 1..Len(todo) : todo[k][1] # r
      BY <1>4 DEF NoneFrom
    <3> QED
      BY <3>1, Shift
  <2> QED
    BY <1>1, <1>4, <2>1, <2>2 DEF LastTwoAre, NoneFrom
<1>5. ASSUME NEW n \in 1..Len(todo), current[r] = w, todo[n] = <<r, v>>, NoneFrom(r, n + 1),
             \A k \in 1..n - 1 : todo[k][1] # r
      PROVE  LastTwoAre(r, w, v)'
  <2>1. CASE n = 1
    <3>1. current'[r] = v /\ previous'[r] = w
      BY <1>1, <1>5, <2>1
    <3>2. \A k \in 1..Len(todo') : todo'[k][1] # r
      BY <1>3, <1>5, <2>1
    <3> QED
      BY <3>1, <3>2 DEF LastTwoAre, NoneFrom
  <2>2. CASE n # 1
    <3>1. n - 1 \in 1..Len(todo') /\ todo'[n - 1] = <<r, v>>
      BY <1>5, <2>2, Shift
    <3>2. current'[r] = w
      <4>1. 1 \in 1..n - 1
        BY <2>2
      <4> QED
        BY <1>1, <1>5, <4>1
    <3>3. \A k \in (n - 1) + 1..Len(todo') : todo'[k][1] # r
      BY <1>3, <1>5
    <3>4. ASSUME NEW k \in 1..(n - 1) - 1 PROVE todo'[k][1] # r
      <4>1. k \in 1..Len(todo') /\ k + 1 \in 1..n - 1
        BY <1>2
      <4> QED
        BY <1>5, <4>1, Shift
    <3> QED
      BY <3>1, <3>2, <3>3, <3>4 DEF LastTwoAre, NoneFrom
  <2> QED
    BY <2>1, <2>2
<1>6. ASSUME NEW m \in 1..Len(todo), NEW n \in 1..Len(todo), m < n,
             todo[m] = <<r, w>>, todo[n] = <<r, v>>, NoneFrom(r, n + 1),
             \A k \in m + 1..n - 1 : todo[k][1] # r
      PROVE  LastTwoAre(r, w, v)'
  <2>1. n - 1 \in 1..Len(todo') /\ todo'[n - 1] = <<r, v>>
    <3>1. n # 1
      BY <1>6
    <3> QED
      BY <1>6, <3>1, Shift
  <2>2. \A k \in (n - 1) + 1..Len(todo') : todo'[k][1] # r
    BY <1>3, <1>6
  <2>3. ASSUME NEW k \in m..(n - 1) - 1 PROVE todo'[k][1] # r
    <3>1. k \in 1..Len(todo') /\ k + 1 \in m + 1..n - 1
      BY <1>2
    <3> QED
      BY <1>6, <3>1, Shift
  <2>4. CASE m = 1
    <3>1. current'[r] = w
      BY <1>1, <1>6, <2>4
    <3>2. \A k \in 1..(n - 1) - 1 : todo'[k][1] # r
      BY <2>3, <2>4
    <3> QED
      BY <2>1, <2>2, <3>1, <3>2 DEF LastTwoAre, NoneFrom
  <2>5. CASE m # 1
    <3>1. m - 1 \in 1..Len(todo') /\ todo'[m - 1] = <<r, w>>
      BY <1>6, <2>5, Shift
    <3>2. m - 1 < n - 1
      BY <1>6
    <3>3. \A k \in (m - 1) + 1..(n - 1) - 1 : todo'[k][1] # r
      BY <2>3
    <3> QED
      BY <2>1, <2>2, <3>1, <3>2, <3>3 DEF LastTwoAre, NoneFrom
  <2> QED
    BY <2>4, <2>5
<1> QED
  BY <1>4, <1>5, <1>6 DEF LastTwoAre

LEMMA DeviceKept ==
  ASSUME TypeOK, WriteStep, NEW low, DeviceIs(low)
  PROVE  DeviceIs(low)'
<1>1. /\ todo[1][1] # "device" => device' = device
      /\ todo[1] = <<"device", low>> => device'.lba /\ device'.low = low
  <2>1. CASE WriteRegister
    BY <2>1, Popped DEF WriteRegister, Registers
  <2>2. CASE WriteDevice
    <3>1. todo[1][1] = "device" /\ device' = [device EXCEPT !.lba = TRUE, !.low = todo[1][2]]
      BY <2>2, Popped DEF WriteDevice
    <3>2. device'.lba /\ device'.low = todo[1][2]
      BY <3>1 DEF TypeOK
    <3> QED
      BY <3>1, <3>2
  <2> QED
    BY <2>1, <2>2 DEF WriteStep
<1>2. \A n \in 1..Len(todo) + 1 : NoneFrom("device", n) =>
        \A k \in 1..Len(todo') : k >= n - 1 => todo'[k][1] # "device"
  BY Popped DEF NoneFrom
<1>3. CASE device.lba /\ device.low = low /\ NoneFrom("device", 1)
  BY <1>1, <1>2, <1>3, Popped DEF DeviceIs, NoneFrom
<1>4. ASSUME NEW n \in 1..Len(todo), todo[n] = <<"device", low>>, NoneFrom("device", n + 1)
      PROVE  DeviceIs(low)'
  <2>1. CASE n = 1
    BY <1>1, <1>2, <1>4, <2>1, Popped DEF DeviceIs, NoneFrom
  <2>2. CASE n # 1
    <3>1. n - 1 \in 1..Len(todo') /\ todo'[n - 1] = <<"device", low>>
      BY <1>4, <2>2, Popped
    <3>2. ASSUME NEW k \in n - 1 + 1..Len(todo') PROVE todo'[k][1] # "device"
      <4>1. Len(todo) \in Nat /\ Len(todo') = Len(todo) - 1
        BY Popped
      <4>2. n + 1 \in 1..Len(todo) + 1 /\ k \in 1..Len(todo') /\ k >= (n + 1) - 1
        BY <1>4, <4>1
      <4> QED
        BY <1>2, <1>4, <4>2
    <3> QED
      BY <3>1, <3>2 DEF DeviceIs, NoneFrom
  <2> QED
    BY <2>1, <2>2
<1> QED
  BY <1>3, <1>4 DEF DeviceIs

-----------------------------------------------------------------------------
\* What the wrappers list is what the commands need.
LEMMA CallInv ==
  ASSUME NEW r \in Requests, request' = r, todo' = Setup(r), state' = "setup"
  PROVE  AddressInv' /\ CountInv'
<1> DEFINE a == Address(r)
<1>1. CASE r.kind \in {"plain", "nop"}
  BY <1>1 DEF AddressInv, CountInv, HasAddress, HasCount
<1>2. CASE r.kind = "count"
  <2>1. Len(todo') = 1 /\ todo'[1] = <<"sector_count", r.count[1]>>
    BY <1>2 DEF Setup, SetSectorCount
  <2> QED
    BY <1>2, <2>1 DEF AddressInv, CountInv, HasAddress, HasCount, LastIs, NoneFrom
<1>3. CASE r.kind = "lba"
  <2>1. /\ Len(todo') = 4
        /\ todo'[1] = <<"lba_low", a[1]>> /\ todo'[2] = <<"lba_mid", a[2]>>
        /\ todo'[3] = <<"lba_high", a[3]>> /\ todo'[4] = <<"device", a[4] % 16>>
    BY <1>3 DEF Setup, SetLba
  <2> QED
    BY <1>3, <2>1 DEF AddressInv, CountInv, HasAddress, HasCount, LastIs, DeviceIs, NoneFrom
<1>4. CASE r.kind = "count_lba"
  <2>1. /\ Len(todo') = 5
        /\ todo'[1] = <<"sector_count", r.count[1]>>
        /\ todo'[2] = <<"lba_low", a[1]>> /\ todo'[3] = <<"lba_mid", a[2]>>
        /\ todo'[4] = <<"lba_high", a[3]>> /\ todo'[5] = <<"device", a[4] % 16>>
    BY <1>4 DEF Setup, SetLba, SetSectorCount
  <2> QED
    BY <1>4, <2>1 DEF AddressInv, CountInv, HasAddress, HasCount, LastIs, DeviceIs, NoneFrom
<1>5. CASE r.kind = "count_lba_ext"
  <2>1. /\ Len(todo') = 9
        /\ todo'[1] = <<"sector_count", r.count[2]>> /\ todo'[2] = <<"sector_count", r.count[1]>>
        /\ todo'[3] = <<"lba_low", a[4]>> /\ todo'[4] = <<"lba_mid", a[5]>>
        /\ todo'[5] = <<"lba_high", a[6]>> /\ todo'[6] = <<"lba_low", a[1]>>
        /\ todo'[7] = <<"lba_mid", a[2]>> /\ todo'[8] = <<"lba_high", a[3]>>
        /\ todo'[9] = <<"device", 0>>
    BY <1>5 DEF Setup, SetLba48, SetSectorCount16
  <2>2. /\ LastTwoAre("lba_low", a[4], a[1])' /\ LastIs("lba_low", a[1])'
    <3>1. LastTwoAre("lba_low", a[4], a[1])'
      BY <2>1 DEF LastTwoAre, NoneFrom
    <3>2. LastIs("lba_low", a[1])'
      BY <2>1 DEF LastIs, NoneFrom
    <3> QED
      BY <3>1, <3>2
  <2>3. /\ LastTwoAre("lba_mid", a[5], a[2])' /\ LastIs("lba_mid", a[2])'
    <3>1. LastTwoAre("lba_mid", a[5], a[2])'
      BY <2>1 DEF LastTwoAre, NoneFrom
    <3>2. LastIs("lba_mid", a[2])'
      BY <2>1 DEF LastIs, NoneFrom
    <3> QED
      BY <3>1, <3>2
  <2>4. /\ LastTwoAre("lba_high", a[6], a[3])' /\ LastIs("lba_high", a[3])'
    <3>1. LastTwoAre("lba_high", a[6], a[3])'
      BY <2>1 DEF LastTwoAre, NoneFrom
    <3>2. LastIs("lba_high", a[3])'
      BY <2>1 DEF LastIs, NoneFrom
    <3> QED
      BY <3>1, <3>2
  <2>5. /\ LastTwoAre("sector_count", r.count[2], r.count[1])'
        /\ LastIs("sector_count", r.count[1])'
    <3>1. LastTwoAre("sector_count", r.count[2], r.count[1])'
      BY <2>1 DEF LastTwoAre, NoneFrom
    <3>2. LastIs("sector_count", r.count[1])'
      BY <2>1 DEF LastIs, NoneFrom
    <3> QED
      BY <3>1, <3>2
  <2>6. DeviceIs(0)'
    BY <2>1 DEF DeviceIs, NoneFrom
  <2>7. AddressInv'
    BY <1>5, <2>2, <2>3, <2>4, <2>6 DEF AddressInv
  <2>8. CountInv'
    BY <1>5, <2>5 DEF CountInv
  <2> QED
    BY <2>7, <2>8
<1>6. CASE r.kind \in {"set_features", "microcode"}
  <2>1. /\ Len(todo') = 6
        /\ todo'[1] = <<"sector_count", r.code>> /\ todo'[2] = <<"sector_count", r.count[1]>>
        /\ todo'[3] = <<"lba_low", a[1]>> /\ todo'[4] = <<"lba_mid", a[2]>>
        /\ todo'[5] = <<"lba_high", a[3]>> /\ todo'[6] = <<"device", a[4] % 16>>
    <3>1. todo' = << <<"sector_count", r.code>> >> \o << <<"sector_count", r.count[1]>> >>
                    \o << <<"lba_low", a[1]>>, <<"lba_mid", a[2]>>, <<"lba_high", a[3]>>,
                         <<"device", a[4] % 16>> >>
      <4>1. Setup(r) = SetFeatures(r.code) \o SetSectorCount(r.count[1]) \o SetLba(a)
        BY <1>6 DEF Setup
      <4> QED
        BY <4>1 DEF SetLba, SetSectorCount, SetFeatures
    <3> HIDE DEF a
    <3> QED
      BY <3>1
  <2>2. LastIs("lba_low", a[1])'
    BY <2>1 DEF LastIs, NoneFrom
  <2>3. LastIs("lba_mid", a[2])'
    BY <2>1 DEF LastIs, NoneFrom
  <2>4. LastIs("lba_high", a[3])'
    BY <2>1 DEF LastIs, NoneFrom
  <2>5. LastIs("sector_count", r.count[1])'
    BY <2>1 DEF LastIs, NoneFrom
  <2>6. DeviceIs(a[4] % 16)'
    BY <2>1 DEF DeviceIs, NoneFrom
  <2> QED
    BY <1>6, <2>2, <2>3, <2>4, <2>5, <2>6 DEF AddressInv, CountInv
<1> QED
  BY <1>1, <1>2, <1>3, <1>4, <1>5, <1>6, RequestTyped DEF Kinds
LEMMA TaskfileInvInit == Init => TaskfileInv
BY DEF Init, TaskfileInv, TypeOK, SelectionKept, AddressInv, CountInv, Registers, Byte

LEMMA TypeStep == TypeOK /\ [Next]_vars => TypeOK'
<1> SUFFICES ASSUME TypeOK, [Next]_vars PROVE TypeOK'
  OBVIOUS
<1>1. ASSUME NEW d \in {0, 1}, Select(d) PROVE TypeOK'
  BY <1>1 DEF Select, TypeOK
<1>2. ASSUME NEW r \in Requests, Call(r) PROVE TypeOK'
  BY <1>2, SetupTyped DEF Call, TypeOK
<1>3. CASE WriteRegister
  <2>1. todo[1][1] \in Registers /\ todo[1][2] \in Byte
    BY <1>3, Popped DEF WriteStep, WriteRegister, Writes, Registers
  <2> QED
    BY <1>3, <2>1, Popped DEF WriteStep, WriteRegister, TypeOK
<1>4. CASE WriteDevice
  <2>1. todo[1][2] \in 0..15
    BY <1>4, Popped DEF WriteStep, WriteDevice, Writes, Registers
  <2> QED
    BY <1>4, <2>1, Popped DEF WriteStep, WriteDevice, TypeOK
<1>5. CASE SendCommand
  BY <1>5 DEF SendCommand, TypeOK
<1>6. CASE DeviceEnds
  <2>1. CASE UNCHANGED <<current, previous, device>>
    BY <1>6, <2>1 DEF DeviceEnds, TypeOK
  <2>2. ASSUME NEW b \in Leftovers,
               current' = Left(current, b), previous' = Left(previous, b),
               device' = [device EXCEPT !.low = b % 16]
        PROVE  TypeOK'
    <3>1. b \in Byte /\ b % 16 \in 0..15
      BY ArgumentsAssumption DEF Byte
    <3> QED
      BY <1>6, <2>2, <3>1 DEF DeviceEnds, Left, TypeOK
  <2> QED
    BY <1>6, <2>1, <2>2 DEF DeviceEnds
<1>7. CASE ResetEnds
  BY <1>7 DEF ResetEnds, Signature, TypeOK, Byte
<1>8. CASE UNCHANGED vars
  BY <1>8 DEF vars, TypeOK
<1> QED
  BY <1>1, <1>2, <1>3, <1>4, <1>5, <1>6, <1>7, <1>8 DEF Next

\* Select and ResetEnds move the DEV bit and the selection together, nothing else
\* moves either.
LEMMA SelectionStep == TypeOK /\ SelectionKept /\ [Next]_vars => SelectionKept'
<1> SUFFICES ASSUME TypeOK, SelectionKept, [Next]_vars PROVE SelectionKept'
  OBVIOUS
<1> USE DEF TypeOK, SelectionKept
<1>1. ASSUME NEW d \in {0, 1}, Select(d) PROVE SelectionKept'
  BY <1>1 DEF Select
<1>2. CASE WriteDevice
  BY <1>2 DEF WriteDevice
<1>3. CASE DeviceEnds
  BY <1>3 DEF DeviceEnds
<1>4. CASE ResetEnds
  BY <1>4 DEF ResetEnds
<1> QED
  BY <1>1, <1>2, <1>3, <1>4 DEF Next, vars, Call, WriteRegister, SendCommand

LEMMA ArgumentsStep == TaskfileInv /\ [Next]_vars => AddressInv' /\ CountInv'
<1> SUFFICES ASSUME TaskfileInv, [Next]_vars PROVE AddressInv' /\ CountInv'
  OBVIOUS
<1> USE DEF TaskfileInv
<1>1. CASE \E r \in Requests : Call(r)
  BY <1>1, CallInv DEF Call
<1>2. CASE WriteStep
  <2>1. UNCHANGED <<request, state>> /\ TypeOK
    BY <1>2, Popped
  <2>2. \A v : /\ \A r \in Registers : LastIs(r, v) => LastIs(r, v)'
               /\ DeviceIs(v) => DeviceIs(v)'
    BY <1>2, <2>1, LastKept, DeviceKept
  <2>3. \A w, v : \A r \in Registers : LastTwoAre(r, w, v) => LastTwoAre(r, w, v)'
    BY <1>2, <2>1, LastTwoKept
  <2>4. {"sector_count", "lba_low", "lba_mid", "lba_high"} \subseteq Registers
    BY DEF Registers
  <2>5. AddressInv'
    BY <2>1, <2>2, <2>3, <2>4 DEF AddressInv, Address
  <2>6. CountInv'
    BY <2>1, <2>2, <2>3, <2>4 DEF CountInv
  <2> QED
    BY <2>5, <2>6
<1>3. CASE SendCommand \/ DeviceEnds \/ ResetEnds
  BY <1>3 DEF SendCommand, DeviceEnds, ResetEnds, AddressInv, CountInv
<1>4. CASE (\E d \in {0, 1} : Select(d)) \/ UNCHANGED vars
  <2>1. CASE state # "setup"
    BY <1>4, <2>1 DEF Select, vars, AddressInv, CountInv
  <2>2. CASE state = "setup"
    <3>1. UNCHANGED vars
      BY <1>4, <2>2 DEF Select
    <3>2. UNCHANGED <<current, previous, device, request, todo, state>>
      BY <3>1 DEF vars
    <3>3. \A r, v : LastIs(r, v)' = LastIs(r, v)
      BY <3>2 DEF LastIs, NoneFrom
    <3>4. \A r, w, v : LastTwoAre(r, w, v)' = LastTwoAre(r, w, v)
      BY <3>2 DEF LastTwoAre, NoneFrom
    <3>5. \A low : DeviceIs(low)' = DeviceIs(low)
      BY <3>2 DEF DeviceIs, NoneFrom
    <3>6. AddressInv'
      BY <3>2, <3>3, <3>4, <3>5 DEF AddressInv, Address
    <3> QED
      BY <3>2, <3>3, <3>4, <3>6 DEF CountInv
  <2> QED
    BY <2>1, <2>2
<1> QED
  BY <1>1, <1>2, <1>3, <1>4 DEF Next, WriteStep

LEMMA TaskfileInvStep == TaskfileInv /\ [Next]_vars => TaskfileInv'
BY TypeStep, SelectionStep, ArgumentsStep DEF TaskfileInv

-----------------------------------------------------------------------------
\* The types hold of every reachable state.
THEOREM TypeCorrect == Spec => []TypeOK
BY TaskfileInvInit, TaskfileInvStep, PTL DEF Spec, TaskfileInv

\* No setter moves the selection.
THEOREM SelectionKeptHolds == Spec => []SelectionKept
BY TaskfileInvInit, TaskfileInvStep, PTL DEF Spec, TaskfileInv

\* A device that gets a command finds all of the address in its registers, for
\* every address and whatever a device left there before.
THEOREM AddressDeliveredHolds == Spec => []AddressDelivered
<1>1. TaskfileInv => AddressDelivered
  <2> SUFFICES ASSUME TaskfileInv, state = "setup", todo = <<>>,
                      request.kind \notin {"plain", "nop", "count"}
               PROVE  AddressDelivered
    BY DEF AddressDelivered, Sent
  <2>1. request.kind \in HasAddress
    BY DEF TaskfileInv, TypeOK, Requests, Kinds, HasAddress
  <2> QED
    BY <2>1 DEF TaskfileInv, AddressInv, AddressDelivered, LastIs, LastTwoAre, DeviceIs
<1> QED
  BY <1>1, TaskfileInvInit, TaskfileInvStep, PTL DEF Spec

\* It finds the sector count, too.
THEOREM CountDeliveredHolds == Spec => []CountDelivered
<1>1. TaskfileInv => CountDelivered
  <2> SUFFICES ASSUME TaskfileInv, state = "setup", todo = <<>>,
                      request.kind \notin {"plain", "nop", "lba"}
               PROVE  CountDelivered
    BY DEF CountDelivered, Sent
  <2>1. request.kind \in HasCount
    BY DEF TaskfileInv, TypeOK, Requests, Kinds, HasCount
  <2> QED
    BY <2>1 DEF TaskfileInv, CountInv, CountDelivered, LastIs, LastTwoAre
<1> QED
  BY <1>1, TaskfileInvInit, TaskfileInvStep, PTL DEF Spec

FeaturesUntouched == current["features"] = 0 /\ previous["features"] = 0

\* What NOP, SET FEATURES and DOWNLOAD MICROCODE pass to ata_device_set_features
\* never reaches the Features register: it keeps what it holds at the start.
THEOREM FeaturesUntouchedHolds == Spec => []FeaturesUntouched
<1>1. Init => FeaturesUntouched
  BY DEF Init, FeaturesUntouched, Registers
<1>2. TypeOK /\ FeaturesUntouched /\ [Next]_vars => FeaturesUntouched'
  <2> SUFFICES ASSUME TypeOK, FeaturesUntouched, [Next]_vars PROVE FeaturesUntouched'
    OBVIOUS
  <2>1. CASE WriteRegister
    <3>1. todo[1][1] # "features" /\ Head(todo) = todo[1]
      BY <2>1, Popped DEF WriteStep, WriteRegister, Writes, Registers
    <3> QED
      BY <2>1, <3>1 DEF WriteRegister, FeaturesUntouched, TypeOK, Registers
  <2>2. CASE DeviceEnds
    BY <2>2 DEF DeviceEnds, Left, FeaturesUntouched, Registers
  <2>3. CASE ResetEnds
    BY <2>3 DEF ResetEnds, Signature, FeaturesUntouched, Registers
  <2> QED
    BY <2>1, <2>2, <2>3
    DEF Next, vars, Select, Call, WriteDevice, SendCommand, FeaturesUntouched
<1> QED
  BY <1>1, <1>2, TypeCorrect, PTL DEF Spec
=============================================================================
