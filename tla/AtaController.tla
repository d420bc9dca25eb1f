--------------------------- MODULE AtaController ---------------------------
(***************************************************************************)
(* The ATA controller of src/src/lib/ata_controller.c: how it is created   *)
(* and destroyed, with every call of the creation that can fail, and how   *)
(* the fuzzer's iteration resets the devices, selects one and sends it a   *)
(* command.                                                                *)
(*                                                                         *)
(* A controller has two ATA buses.  A command runs on bus BusNum, the bus  *)
(* of the two device objects; the reset and the select of the controller   *)
(* use regions 0 and 1, bus 0, always.  Module AtaDevice has the steps of  *)
(* a command, which are one wait here.                                     *)
(***************************************************************************)
EXTENDS Integers

CONSTANTS
  BusNum,        \* bus_num: the ATA bus, 0 for primary, 1 for secondary
  DeviceNum,     \* device_num of the fuzzer
  ErrorHandler   \* what ata_controller_error does: "null" nothing, "abort" as
                 \* the handler main.c installs

Buses == {0, 1}
DeviceNums == {0, 1}

ASSUME BusNumAssumption == BusNum \in Buses
ASSUME DeviceNumAssumption == DeviceNum \in DeviceNums
ASSUME ErrorHandlerAssumption == ErrorHandler \in {"null", "abort"}

Resources == {"pci_device", "ata_device0", "ata_device1", "dma_buffer0",
              "prdt", "dma_buffer1", "buffer"}

DeviceObject(n) == IF n = 0 THEN "ata_device0" ELSE "ata_device1"

\* Mutants: buffers before their mappings; ata_device1 forgotten.
DestroyBuffersFirst == <<"dma_buffer1", "dma_buffer0", "buffer", "prdt",
                         "ata_device1", "ata_device0", "pci_device">>
DestroyOneDevice == <<"buffer", "prdt", "dma_buffer1", "dma_buffer0",
                      "ata_device0", "pci_device", "pci_device">>

\* The order in which ata_controller_destroy releases them.
DestroyOrder == <<"buffer", "prdt", "dma_buffer1", "dma_buffer0",
                  "ata_device1", "ata_device0", "pci_device">>

VARIABLES
  \* the host
  pc,            \* the next step of create, iterate or destroy
  return,        \* where device_select goes on
  objects,       \* the members of struct _ata_controller that are not NULL
  ata_device,    \* the member ata_device: the object commands go through
  frees,         \* how often the current controller's memory was freed
  path,          \* "error" in and after the error path of create
  step,          \* what destroy releases next: its place in DestroyOrder
  buffer_num,    \* the number of the last DMA buffer taken (dma_buffer.c)
  \* the channels; the first three for each bus
  phase,         \* what its devices are doing
  selected,      \* the DEV bit of its Device register
  control,       \* its Device Control register
  fresh          \* the buses reset by the controller since their last command

host == <<pc, return, objects, ata_device, frees, path, step, buffer_num>>
channels == <<phase, selected, control, fresh>>
vars == <<host, channels>>

PCs == {"none", "pci_device", "select0", "ata_device0", "identify0",
        "select1", "ata_device1", "identify1", "select_first", "dma",
        "dma_buffer0", "prdt", "dma_buffer1", "buffer", "idle", "reset",
        "release", "wait_reset", "select", "selecting", "command", "running",
        "err", "destroy", "free_again", "aborted"}

TypeOK ==
  /\ pc \in PCs
  /\ return \in {"dma", "command"}
  /\ objects \subseteq Resources
  /\ ata_device \in {"null", "ata_device0", "ata_device1"}
  /\ frees \in 0..2
  /\ path \in {"normal", "error"}
  /\ step \in 1..8
  /\ buffer_num \in -1..1
  /\ phase \in [Buses -> {"ready", "busy", "resetting"}]
  /\ selected \in [Buses -> DeviceNums]
  /\ control \in [Buses -> SUBSET {"nIEN", "SRST"}]
  /\ fresh \subseteq Buses

\* Firmware leaves either device selected.
Init ==
  /\ pc = "none" /\ return = "dma"
  /\ objects = {} /\ ata_device = "null"
  /\ frees = 0 /\ path = "normal" /\ step = 1 /\ buffer_num = -1
  /\ phase = [b \in Buses |-> "ready"]
  /\ selected \in [Buses -> DeviceNums]
  /\ control = [b \in Buses |-> {}]
  /\ fresh = {}

-----------------------------------------------------------------------------
(***************************************************************************)
(* The devices of a bus (external).  A reset selects device 0.             *)
(***************************************************************************)
CommandDone(b) ==
  /\ phase[b] = "busy"
  /\ phase' = [phase EXCEPT ![b] = "ready"]
  /\ UNCHANGED <<host, selected, control, fresh>>

ResetDone(b) ==
  /\ phase[b] = "resetting" /\ "SRST" \notin control[b]
  /\ phase' = [phase EXCEPT ![b] = "ready"]
  /\ fresh' = fresh \cup {b}
  /\ UNCHANGED <<host, selected, control>>

BusStep == \E b \in Buses : CommandDone(b) \/ ResetDone(b)

-----------------------------------------------------------------------------
(***************************************************************************)
(* ata_controller_create.  A call that fails reports the error; unless the *)
(* handler ends the process, the error path follows.                       *)
(***************************************************************************)
Fail ==
  /\ pc' = IF ErrorHandler = "abort" THEN "aborted" ELSE "err"
  /\ path' = "error"

\* calloc and the test of bus_num; a failing calloc leaves nothing behind.
Create ==
  /\ pc = "none"
  /\ pc' = "pci_device"
  /\ frees' = 0 /\ path' = "normal" /\ ata_device' = "null"
  /\ UNCHANGED <<return, objects, step, buffer_num, channels>>

\* pci_device_create, and the test that it is an ATA/IDE controller.
CreatePciDevice ==
  /\ pc = "pci_device"
  /\ \/ objects' = objects \cup {"pci_device"} /\ pc' = "select0"
        /\ UNCHANGED path
     \/ objects' \in {objects, objects \cup {"pci_device"}} /\ Fail
  /\ UNCHANGED <<return, ata_device, frees, step, buffer_num, channels>>

\* Mutant: the register is left alone when the member already points there.
DeviceSelectCached(from, n, next) ==
  /\ pc = from
  /\ {"ata_device0", "ata_device1"} \subseteq objects
  /\ ata_device' = DeviceObject(n)
  /\ selected' = IF ata_device = DeviceObject(n) THEN selected
                 ELSE [selected EXCEPT ![0] = n]
  /\ pc' = "selecting" /\ return' = next
  /\ UNCHANGED <<objects, frees, path, step, buffer_num, phase, control,
                 fresh>>

\* ata_controller_device_select(n) at from, followed by next.
DeviceSelect(from, n, next) ==
  /\ pc = from
  /\ {"ata_device0", "ata_device1"} \subseteq objects
  /\ ata_device' = DeviceObject(n)
  /\ selected' = [selected EXCEPT ![0] = n]
  /\ pc' = "selecting" /\ return' = next
  /\ UNCHANGED <<objects, frees, path, step, buffer_num, phase, control,
                 fresh>>

\* Its early return: nothing is selected before both device objects are there.
SkipSelect(from, next) ==
  /\ pc = from
  /\ ~ {"ata_device0", "ata_device1"} \subseteq objects
  /\ pc' = next
  /\ UNCHANGED <<return, objects, ata_device, frees, path, step, buffer_num,
                 channels>>

\* Mutant: the wait is for a busy device.
SelectedBusy ==
  /\ pc = "selecting" /\ phase[0] # "ready"
  /\ pc' = return
  /\ UNCHANGED <<return, objects, ata_device, frees, path, step, buffer_num,
                 channels>>

\* The last turn of the wait for a device that is not busy.
Selected ==
  /\ pc = "selecting" /\ phase[0] = "ready"
  /\ pc' = return
  /\ UNCHANGED <<return, objects, ata_device, frees, path, step, buffer_num,
                 channels>>

\* A command is written on the bus of the objects, with interrupts disabled.
SendCommand(from, next) ==
  /\ pc = from
  /\ pc' = next
  /\ phase' = [phase EXCEPT ![BusNum] = "busy"]
  /\ control' = [control EXCEPT ![BusNum] = {"nIEN"}]
  /\ fresh' = fresh \ {BusNum}
  /\ UNCHANGED <<return, objects, ata_device, frees, path, step, buffer_num,
                 selected>>

\* The command has returned; if it failed, after a software reset of its bus.
CommandEnded(from) ==
  /\ pc = from /\ phase[BusNum] = "ready"
  /\ selected' \in {selected, [selected EXCEPT ![BusNum] = 0]}
  /\ UNCHANGED <<return, ata_device, frees, step, buffer_num, phase, control,
                 fresh>>

\* The IDENTIFY DEVICE of ata_device_create decides whether there is a device.
Identified(n, from, next) ==
  /\ CommandEnded(from)
  /\ \/ objects' = objects \cup {DeviceObject(n)} /\ pc' = next
        /\ UNCHANGED path
     \/ UNCHANGED objects /\ Fail

\* ata_device_create fails before it sends anything.
NoDevice ==
  /\ pc \in {"ata_device0", "ata_device1"}
  /\ Fail
  /\ UNCHANGED <<return, objects, ata_device, frees, step, buffer_num,
                 channels>>

\* The first two selects come before both objects are there.
CreateDevices ==
  \/ SkipSelect("select0", "ata_device0")
  \/ SendCommand("ata_device0", "identify0")
  \/ Identified(0, "identify0", "select1")
  \/ SkipSelect("select1", "ata_device1")
  \/ SendCommand("ata_device1", "identify1")
  \/ Identified(1, "identify1", "select_first")
  \/ DeviceSelect("select_first", 0, "dma")
  \/ Selected \/ NoDevice

-----------------------------------------------------------------------------
(***************************************************************************)
(* The DMA buffers: one for the descriptor table, one for the data.  A     *)
(* buffer takes the next number; one that fails gives it back.             *)
(***************************************************************************)
DmaEnabled ==
  /\ pc = "dma"
  /\ pc' \in {"dma_buffer0", "idle"}
  /\ UNCHANGED <<return, objects, ata_device, frees, path, step, buffer_num,
                 channels>>

\* Mutant: a buffer that fails keeps its number.
CreateDmaBufferKeep(buffer, next) ==
  /\ pc = buffer
  /\ buffer_num' = buffer_num + 1
  /\ \/ objects' = objects \cup {buffer} /\ pc' = next /\ UNCHANGED path
     \/ UNCHANGED objects /\ Fail
  /\ UNCHANGED <<return, ata_device, frees, step, channels>>

CreateDmaBuffer(buffer, next) ==
  /\ pc = buffer
  /\ \/ objects' = objects \cup {buffer} /\ pc' = next
        /\ buffer_num' = buffer_num + 1 /\ UNCHANGED path
     \/ UNCHANGED <<objects, buffer_num>> /\ Fail
  /\ UNCHANGED <<return, ata_device, frees, step, channels>>

MapDmaBuffer(map, next) ==
  /\ pc = map
  /\ \/ objects' = objects \cup {map} /\ pc' = next /\ UNCHANGED path
     \/ UNCHANGED objects /\ Fail
  /\ UNCHANGED <<return, ata_device, frees, step, buffer_num, channels>>

CreateDma ==
  \/ DmaEnabled
  \/ CreateDmaBuffer("dma_buffer0", "prdt") \/ MapDmaBuffer("prdt", "dma_buffer1")
  \/ CreateDmaBuffer("dma_buffer1", "buffer") \/ MapDmaBuffer("buffer", "idle")

-----------------------------------------------------------------------------
(***************************************************************************)
(* ata_controller_destroy, called by the user or by the error path, which  *)
(* frees the controller once more.                                         *)
(***************************************************************************)
Destroy(from) ==
  /\ pc = from
  /\ pc' = "destroy"
  /\ step' = 1
  /\ UNCHANGED <<return, objects, ata_device, frees, path, buffer_num,
                 channels>>

\* What is NULL is skipped.
DestroyNext ==
  /\ pc = "destroy" /\ step <= 7
  /\ step' = step + 1
  /\ objects' = objects \ {DestroyOrder[step]}
  /\ buffer_num' = IF DestroyOrder[step] \in
                        objects \cap {"dma_buffer0", "dma_buffer1"}
                   THEN buffer_num - 1 ELSE buffer_num
  /\ UNCHANGED <<pc, return, ata_device, frees, path, channels>>

DestroyController ==
  /\ pc = "destroy" /\ step = 8
  /\ frees' = frees + 1
  /\ pc' = IF path = "error" THEN "free_again" ELSE "none"
  /\ UNCHANGED <<return, objects, ata_device, path, step, buffer_num,
                 channels>>

FreeAgain ==
  /\ pc = "free_again"
  /\ frees' = frees + 1
  /\ pc' = "none"
  /\ UNCHANGED <<return, objects, ata_device, path, step, buffer_num,
                 channels>>

DestroyStep == Destroy("err") \/ DestroyNext \/ DestroyController \/ FreeAgain

-----------------------------------------------------------------------------
(***************************************************************************)
(* ata_fuzzer_iterate: ata_controller_device_reset, then device_select,    *)
(* then one command.                                                       *)
(***************************************************************************)
\* Mutant: an iteration starts without the reset.
IterateSelect ==
  /\ pc = "idle"
  /\ pc' = "select"
  /\ UNCHANGED <<return, objects, ata_device, frees, path, step, buffer_num,
                 channels>>

Iterate ==
  /\ pc = "idle"
  /\ pc' = "reset"
  /\ UNCHANGED <<return, objects, ata_device, frees, path, step, buffer_num,
                 channels>>

AssertReset ==
  /\ pc = "reset"
  /\ pc' = "release"
  /\ control' = [control EXCEPT ![0] = {"nIEN", "SRST"}]
  /\ phase' = [phase EXCEPT ![0] = "resetting"]
  /\ selected' = [selected EXCEPT ![0] = 0]
  /\ UNCHANGED <<return, objects, ata_device, frees, path, step, buffer_num,
                 fresh>>

\* Mutant: SRST stays asserted.
ReleaseResetNot ==
  /\ pc = "release"
  /\ pc' = "wait_reset"
  /\ UNCHANGED <<return, objects, ata_device, frees, path, step, buffer_num,
                 channels>>

ReleaseReset ==
  /\ pc = "release"
  /\ pc' = "wait_reset"
  /\ control' = [control EXCEPT ![0] = {"nIEN"}]
  /\ UNCHANGED <<return, objects, ata_device, frees, path, step, buffer_num,
                 phase, selected, fresh>>

\* The last turn of the wait for the end of the reset.
WaitReset ==
  /\ pc = "wait_reset" /\ phase[0] = "ready"
  /\ pc' = "select"
  /\ UNCHANGED <<return, objects, ata_device, frees, path, step, buffer_num,
                 channels>>

DeviceReset == AssertReset \/ ReleaseReset \/ WaitReset

\* A DMA command without DMA: the iteration ends here.
SkipCommand ==
  /\ pc = "command"
  /\ "buffer" \notin objects
  /\ pc' = "idle"
  /\ UNCHANGED <<return, objects, ata_device, frees, path, step, buffer_num,
                 channels>>

\* The return value of the command is not looked at.
IterationEnds ==
  /\ CommandEnded("running")
  /\ pc' = "idle"
  /\ UNCHANGED <<objects, path>>

IterateStep ==
  \/ DeviceReset
  \/ DeviceSelect("select", DeviceNum, "command")
  \/ SendCommand("command", "running")
  \/ SkipCommand \/ IterationEnds

\* What goes on without a call of the user's; those are Create, Iterate and
\* Destroy.
HostStep ==
  \/ CreatePciDevice \/ CreateDevices \/ CreateDma \/ IterateStep
  \/ DestroyStep

Next == Create \/ Iterate \/ Destroy("idle") \/ HostStep \/ BusStep

Spec == Init /\ [][Next]_vars

\* The host thread keeps running, and the devices finish what they do.
FairSpec == Spec /\ WF_vars(HostStep) /\ \A b \in Buses :
                      WF_vars(CommandDone(b)) /\ WF_vars(ResetDone(b))
-----------------------------------------------------------------------------
(***************************************************************************)
(* Properties.  Those of an iteration are for the primary bus.             *)
(***************************************************************************)
Primary == BusNum = 0

\* The device that is addressed by the command of an iteration is the one the
\* fuzzer works on, and the object the command goes through is that device's:
\* the reset before it, and a reset in the command before that, have selected
\* device 0.
CommandAddressed ==
  pc = "command" =>
    ata_device = DeviceObject(DeviceNum) /\ selected[BusNum] = DeviceNum

AddressedOnPrimary == Primary => CommandAddressed

\* Every iteration sends its command to a device that was reset since the
\* last one and is not busy.
CommandFresh ==
  pc = "command" => BusNum \in fresh /\ phase[BusNum] = "ready"

FreshOnPrimary == Primary => CommandFresh

\* Whatever fails, and however far a destruction is, what is left can still be
\* released: a mapping has its buffer (the size of which unmapping needs), a
\* device its PCI device, and the table is there before the data buffer.
Releasable ==
  /\ "buffer" \in objects => "dma_buffer1" \in objects
  /\ "prdt" \in objects => "dma_buffer0" \in objects
  /\ "dma_buffer1" \in objects => "dma_buffer0" \in objects
  /\ {"ata_device0", "ata_device1"} \cap objects # {} => "pci_device" \in objects

\* When create has failed, or destroy has returned, nothing is left behind, and
\* the next controller's buffers start again with number 0.
NothingLeft ==
  pc = "none" => objects = {} /\ buffer_num = -1

\* The last number taken is that of the last live buffer, so no two live buffers
\* of the controller share a number, whichever of them failed before.
BuffersNumbered ==
  /\ buffer_num >= 0 <=> "dma_buffer0" \in objects
  /\ buffer_num >= 1 <=> "dma_buffer1" \in objects

\* An iteration comes to its end, and a creation to a controller or to none.
IterationReturns == (pc = "reset") ~> (pc = "idle")

CreateReturns == (pc = "pci_device") ~> (pc \in {"idle", "none", "aborted"})

-----------------------------------------------------------------------------
(***************************************************************************)
(* What the documentation says and the code does not do.                   *)
(***************************************************************************)

\* ata_controller.h: device_select "Selects an ATA device", device 1 before
\* ata_device1 identifies its device.
IdentifyAddressed ==
  pc = "ata_device1" => selected[BusNum] = 1

\* ata_controller.h: ata_controller_destroy "Destroys the ATA controller"; what
\* it has freed is not freed again.
FreedOnce == frees <= 1
=============================================================================
