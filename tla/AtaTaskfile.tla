---------------------------- MODULE AtaTaskfile ----------------------------
(***************************************************************************)
(* The task file: what the command wrappers of src/src/lib/ata_device.c    *)
(* write to the registers of the device before they send the command.      *)
(* Each register is two deep: a write pushes the current content into the  *)
(* previous one, and the 48-bit commands read both.                        *)
(*                                                                         *)
(* Numbers of several bytes are sequences of bytes, lowest first: a count  *)
(* has two, an LBA six (28-bit commands use three and a half of them).     *)
(***************************************************************************)
EXTENDS Integers, Sequences

Byte == 0..255

CONSTANTS
  Codes,      \* the feature codes that are passed
  Counts,     \* the sector counts that are passed
  Lbas,       \* the LBAs that are passed
  Leftovers   \* what a device may leave in the registers after a command

ASSUME ArgumentsAssumption ==
  /\ Codes \subseteq Byte /\ Leftovers \subseteq Byte
  /\ Counts \subseteq [1..2 -> Byte] /\ Lbas \subseteq [1..6 -> Byte]

Registers == {"features", "sector_count", "lba_low", "lba_mid", "lba_high"}
\* The wrappers, by the setters they call.
Kinds == {"plain", "nop", "count", "lba", "count_lba", "count_lba_ext",
          "set_features", "microcode"}
Requests == [kind : Kinds, code : Codes, count : Counts, lba : Lbas]

VARIABLES
  current,    \* the content of the registers a 28-bit command reads
  previous,   \* the content a 48-bit command reads besides
  device,     \* the Device register: the DEV and LBA bits and bits 0 to 3
  selected,   \* the device the last select or reset selected
  request,    \* the command and its arguments
  todo,       \* the register writes the wrapper has still to make
  state       \* of the host: "idle", "setup" or "sent"

vars == <<current, previous, device, selected, request, todo, state>>

\* No setter writes the Features register.
Writes == ((Registers \ {"features"}) \X Byte) \cup ({"device"} \X (0..15))

TypeOK ==
  /\ current \in [Registers -> Byte] /\ previous \in [Registers -> Byte]
  /\ device \in [dev : {0, 1}, lba : BOOLEAN, low : 0..15]
  /\ selected \in {0, 1}
  /\ request \in Requests
  /\ todo \in Seq(Writes)
  /\ state \in {"idle", "setup", "sent"}

Init ==
  /\ current = [r \in Registers |-> 0] /\ previous = [r \in Registers |-> 0]
  /\ device = [dev |-> 0, lba |-> FALSE, low |-> 0] /\ selected = 0
  /\ request \in {r \in Requests : r.kind = "plain"}
  /\ todo = <<>> /\ state = "idle"

-----------------------------------------------------------------------------
(***************************************************************************)
(* The setters, as the writes they make in order.  A write to the Device   *)
(* register names its low bits: the setters keep DEV and set LBA.          *)
(***************************************************************************)
SetSectorCount(n) == << <<"sector_count", n>> >>

\* The feature code goes to the Sector Count register.
SetFeatures(code) == << <<"sector_count", code>> >>

SetSectorCount16Swapped(count) ==
  << <<"sector_count", count[1]>>, <<"sector_count", count[2]>> >>
SetSectorCount16(count) ==
  << <<"sector_count", count[2]>>, <<"sector_count", count[1]>> >>

SetLbaUnmasked(lba) ==
  << <<"lba_low", lba[1]>>, <<"lba_mid", lba[2]>>, <<"lba_high", lba[3]>>,
     <<"device", lba[4]>> >>
SetLba(lba) ==
  << <<"lba_low", lba[1]>>, <<"lba_mid", lba[2]>>, <<"lba_high", lba[3]>>,
     <<"device", lba[4] % 16>> >>

SetLba48CurrentFirst(lba) ==
  << <<"lba_low", lba[1]>>, <<"lba_mid", lba[2]>>, <<"lba_high", lba[3]>>,
     <<"lba_low", lba[4]>>, <<"lba_mid", lba[5]>>, <<"lba_high", lba[6]>>,
     <<"device", 0>> >>
SetLba48(lba) ==
  << <<"lba_low", lba[4]>>, <<"lba_mid", lba[5]>>, <<"lba_high", lba[6]>>,
     <<"lba_low", lba[1]>>, <<"lba_mid", lba[2]>>, <<"lba_high", lba[3]>>,
     <<"device", 0>> >>

\* The address a wrapper passes to a setter: SET FEATURES and DOWNLOAD
\* MICROCODE compose it from other arguments.
Address(r) ==
  CASE r.kind = "set_features" -> [r.lba EXCEPT ![4] = 0]
    [] r.kind = "microcode"    -> <<r.count[2], 0, 0, 0, 0, 0>>
    [] OTHER                   -> r.lba

Setup(r) ==
  CASE r.kind = "plain"         -> <<>>
    [] r.kind = "nop"           -> SetFeatures(r.code)
    [] r.kind = "count"         -> SetSectorCount(r.count[1])
    [] r.kind = "lba"           -> SetLba(Address(r))
    [] r.kind = "count_lba"     -> SetSectorCount(r.count[1]) \o SetLba(Address(r))
    [] r.kind = "count_lba_ext" -> SetSectorCount16(r.count) \o SetLba48(Address(r))
    [] OTHER -> SetFeatures(r.code) \o SetSectorCount(r.count[1]) \o SetLba(Address(r))

-----------------------------------------------------------------------------
\* ata_controller_device_select, before an iteration's command.
Select(d) ==
  /\ state = "idle"
  /\ device' = [device EXCEPT !.dev = d]
  /\ selected' = d
  /\ UNCHANGED <<current, previous, request, todo, state>>

Call(r) ==
  /\ state = "idle"
  /\ request' = r /\ todo' = Setup(r) /\ state' = "setup"
  /\ UNCHANGED <<current, previous, device, selected>>

\* pci_device_region_write8 to one of the two-deep registers.
WriteRegister ==
  /\ todo # <<>> /\ Head(todo)[1] \in Registers
  /\ LET r == Head(todo)[1] IN
       /\ previous' = [previous EXCEPT ![r] = current[r]]
       /\ current' = [current EXCEPT ![r] = Head(todo)[2]]
  /\ todo' = Tail(todo)
  /\ UNCHANGED <<device, selected, request, state>>

\* The Device register is read, and written with its upper half kept.
WriteDeviceWhole ==
  /\ todo # <<>> /\ Head(todo)[1] = "device"
  /\ device' = [dev |-> 0, lba |-> TRUE, low |-> Head(todo)[2]]
  /\ todo' = Tail(todo)
  /\ UNCHANGED <<current, previous, selected, request, state>>
WriteDevice ==
  /\ todo # <<>> /\ Head(todo)[1] = "device"
  /\ device' = [device EXCEPT !.lba = TRUE, !.low = Head(todo)[2]]
  /\ todo' = Tail(todo)
  /\ UNCHANGED <<current, previous, selected, request, state>>

\* The wrapper enters the protocol, which writes the Command register.
SendCommand ==
  /\ state = "setup" /\ todo = <<>>
  /\ state' = "sent"
  /\ UNCHANGED <<current, previous, device, selected, request, todo>>

\* The device ends the command.  It leaves the registers alone or leaves
\* something of its own in them; DEV and the Features register are the host's.
Left(content, b) ==
  [r \in Registers |-> IF r = "features" THEN content[r] ELSE b]
DeviceEnds ==
  /\ state = "sent"
  /\ state' = "idle"
  /\ \/ UNCHANGED <<current, previous, device>>
     \/ \E b \in Leftovers :
          /\ current' = Left(current, b)
          /\ previous' = Left(previous, b)
          /\ device' = [device EXCEPT !.low = b % 16]
  /\ UNCHANGED <<selected, request, todo>>

\* A command that fails or times out ends with a software reset: the device
\* puts its signature into the registers and device 0 is selected.
Signature == [r \in Registers |-> IF r \in {"sector_count", "lba_low"} THEN 1 ELSE 0]
ResetEnds ==
  /\ state = "sent"
  /\ state' = "idle"
  /\ current' = Signature /\ previous' = Signature
  /\ device' = [dev |-> 0, lba |-> FALSE, low |-> 0] /\ selected' = 0
  /\ UNCHANGED <<request, todo>>

Next ==
  \/ \E d \in {0, 1} : Select(d)
  \/ \E r \in Requests : Call(r)
  \/ WriteRegister \/ WriteDevice \/ SendCommand
  \/ DeviceEnds \/ ResetEnds

Spec == Init /\ [][Next]_vars

-----------------------------------------------------------------------------
\* What the device finds when the command is written.
Sent == state = "setup" /\ todo = <<>>

\* Whatever the commands before left in the registers, a device that gets a
\* command with an address finds the 28 bits, or all 48 bits, it was given,
\* marked as an LBA.
AddressDelivered ==
  Sent /\ request.kind \notin {"plain", "nop", "count"} =>
    LET lba == Address(request) IN
      /\ device.lba
      /\ <<current["lba_low"], current["lba_mid"], current["lba_high"]>>
           = <<lba[1], lba[2], lba[3]>>
      /\ IF request.kind = "count_lba_ext"
           THEN <<previous["lba_low"], previous["lba_mid"], previous["lba_high"]>>
                  = <<lba[4], lba[5], lba[6]>>
           ELSE device.low = lba[4] % 16

\* The device finds the sector count it was given, 8 bits or 16 bits, although
\* the setter of the features writes the same register.
CountDelivered ==
  Sent /\ request.kind \notin {"plain", "nop", "lba"} =>
    /\ current["sector_count"] = request.count[1]
    /\ request.kind = "count_lba_ext" => previous["sector_count"] = request.count[2]

\* The setters that write bits of the Device register do not move the
\* selection: the command goes to the device selected last.
SelectionKept == device.dev = selected
=============================================================================
