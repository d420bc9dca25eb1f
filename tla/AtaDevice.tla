----------------------------- MODULE AtaDevice -----------------------------
(***************************************************************************)
(* The command protocols of src/src/lib/ata_device.c: how one thread, the  *)
(* host, issues an ATA command (non-data, PIO data-in, PIO data-out, DMA), *)
(* polls the device, gives up after the timeout, and recovers with a       *)
(* software reset.  The device moves between any two steps of the host.    *)
(* A step is one register access, except that the 256 words of a block are *)
(* one step; a turn of the reset loop that reads BSY changes nothing.      *)
(*                                                                         *)
(* A status value is the set of its bits.  Data is counted in blocks of    *)
(* 256 words, the unit of the transfer loops.  The contents of the task    *)
(* file registers, written before a protocol starts, are left out.         *)
(***************************************************************************)
EXTENDS Integers

CONSTANTS
  MaxBlocks,   \* bound: the most blocks a device has a PIO command transfer
  RoguePhases  \* the phases a device may jump to at any time; {} when the
               \* device follows the protocol

Bits == {"BSY", "DRQ", "DF", "ERR"}
Protocols == {"non_data", "pio_in", "pio_out", "dma"}
Pio == {"pio_in", "pio_out"}
Phases == {"ready", "busy", "drq", "resetting"}

ASSUME MaxBlocksAssumption == MaxBlocks \in Nat
ASSUME RoguePhasesAssumption == RoguePhases \subseteq Phases

VARIABLES
  \* the host: control state and struct _ata_device
  pc,         \* the next step of the command function or of the reset
  proto,      \* the protocol of the current (or last) command
  after,      \* where ata_device_software_reset returns to
  blocks,     \* i / 256: blocks transferred by the current command
  status,     \* ata_device->status
  error,      \* ata_device->error, as where its value came from
  result,     \* what the last command returned
  deadline,   \* "expired" once the current command's clock test came out true
  \* the channel: the device and the registers of the controller
  phase,      \* what the device is doing
  flags,      \* the ERR and DF bits the device ended the command with
  demand,     \* blocks the device has this command transfer
  pending,    \* those of them not transferred yet
  errorReg,   \* the Error register
  control,    \* the Device Control register
  busMaster   \* the Bus Master IDE Command register

host == <<pc, proto, after, blocks, status, error, result, deadline>>
device == <<phase, flags, demand, pending, errorReg>>
vars == <<host, device, control, busMaster>>

PCs == {"idle", "nien", "command", "start", "poll", "transfer", "clock",
        "check", "error", "stop", "stop_err", "reset", "release", "wait",
        "fail"}

TypeOK ==
  /\ pc \in PCs
  /\ proto \in Protocols
  /\ after \in {"check", "fail"}
  /\ blocks \in 0..MaxBlocks
  /\ status \in SUBSET Bits
  /\ error \in {"none", "command", "diagnostic"}
  /\ result \in {0, -1}
  /\ deadline \in {"running", "expired"}
  /\ phase \in Phases
  /\ flags \in SUBSET {"DF", "ERR"}
  /\ demand \in 0..MaxBlocks
  /\ pending \in 0..MaxBlocks
  /\ errorReg \in {"none", "command", "diagnostic"}
  /\ control \in SUBSET {"nIEN", "SRST"}
  /\ busMaster \in SUBSET {"START", "WRITE"}

Init ==
  /\ pc = "idle" /\ proto = "non_data" /\ after = "check"
  /\ blocks = 0 /\ status = {} /\ error = "none"
  /\ result = 0 /\ deadline = "running"
  /\ phase = "ready" /\ flags = {} /\ demand = 0 /\ pending = 0
  /\ errorReg = "none" /\ control = {} /\ busMaster = {}

-----------------------------------------------------------------------------
(***************************************************************************)
(* The device (external): what the Status register reads, and the steps    *)
(* the device takes on its own.  While BSY is set the other bits are       *)
(* indeterminate.                                                          *)
(***************************************************************************)
Reads(s) ==
  \/ phase = "ready" /\ s = flags
  \/ phase = "drq" /\ s = {"DRQ"} \cup flags
  \/ phase \in {"busy", "resetting"} /\ "BSY" \in s

DeviceOfferBlock ==
  /\ phase = "busy" /\ proto \in Pio /\ pending > 0 /\ blocks < MaxBlocks
  /\ phase' = "drq"
  /\ UNCHANGED <<host, flags, demand, pending, errorReg, control, busMaster>>

DeviceSucceed ==
  /\ phase = "busy" /\ pending = 0
  /\ proto = "dma" => "START" \in busMaster
  /\ phase' = "ready"
  /\ UNCHANGED <<host, flags, demand, pending, errorReg, control, busMaster>>

DeviceFail ==
  /\ phase = "busy"
  /\ phase' = "ready"
  /\ flags' \in (SUBSET {"DF", "ERR"}) \ {{}}
  /\ errorReg' = IF "ERR" \in flags' THEN "command" ELSE errorReg
  /\ UNCHANGED <<host, demand, pending, control, busMaster>>

\* The reset leaves the diagnostic code in the Error register.
DeviceResetDone ==
  /\ phase = "resetting" /\ "SRST" \notin control
  /\ phase' = "ready"
  /\ flags' = {}
  /\ errorReg' = "diagnostic"
  /\ UNCHANGED <<host, demand, pending, control, busMaster>>

\* A device that does not follow the protocol: any phase, with any flags.  It
\* offers no more than MaxBlocks blocks.
DeviceMisbehave ==
  /\ phase' \in RoguePhases
  /\ phase' = "drq" => blocks < MaxBlocks
  /\ flags' \in SUBSET {"DF", "ERR"}
  /\ UNCHANGED <<host, demand, pending, errorReg, control, busMaster>>

DeviceStep ==
  \/ DeviceOfferBlock \/ DeviceSucceed \/ DeviceFail
  \/ DeviceResetDone \/ DeviceMisbehave

-----------------------------------------------------------------------------
(***************************************************************************)
(* Calls.  A DMA command comes through the controller, which sets the      *)
(* direction of the bus master first: the WRITE bit for a read command.    *)
(***************************************************************************)
Begin(p) ==
  /\ pc = "idle"
  /\ pc' = "nien"
  /\ proto' = p
  /\ blocks' = 0
  /\ deadline' = "running"
  /\ UNCHANGED <<after, status, error, result, device, control>>

Call(p) ==
  /\ Begin(p)
  /\ UNCHANGED busMaster

CallReadDma ==
  /\ Begin("dma")
  /\ busMaster' = busMaster \cup {"WRITE"}

CallWriteDma ==
  /\ Begin("dma")
  /\ busMaster' = busMaster \ {"WRITE"}

-----------------------------------------------------------------------------
(***************************************************************************)
(* ata_device_software_reset.  It does not touch ata_device->status.       *)
(***************************************************************************)
AssertReset ==
  /\ pc = "reset"
  /\ control' = {"nIEN", "SRST"}
  /\ phase' = "resetting"
  /\ pc' = "release"
  /\ UNCHANGED <<proto, after, blocks, status, error, result, deadline, flags,
                 demand, pending, errorReg, busMaster>>

\* Mutant: SRST stays asserted.
ReleaseResetNot ==
  /\ pc = "release"
  /\ pc' = "wait"
  /\ UNCHANGED <<proto, after, blocks, status, error, result, deadline,
                 device, control, busMaster>>

\* Mutant: clearing SRST enables interrupts.
ReleaseResetAll ==
  /\ pc = "release"
  /\ control' = {}
  /\ pc' = "wait"
  /\ UNCHANGED <<proto, after, blocks, status, error, result, deadline,
                 device, busMaster>>

ReleaseReset ==
  /\ pc = "release"
  /\ control' = {"nIEN"}
  /\ pc' = "wait"
  /\ UNCHANGED <<proto, after, blocks, status, error, result, deadline,
                 device, busMaster>>

\* Mutant: the reset is not waited for.
WaitResetNot ==
  /\ pc = "wait"
  /\ pc' = after
  /\ UNCHANGED <<proto, after, blocks, status, error, result, deadline,
                 device, control, busMaster>>

\* Mutant: the loop reads into ata_device->status.
WaitResetStatus ==
  /\ pc = "wait"
  /\ status' \in {s \in SUBSET Bits : Reads(s) /\ "BSY" \notin s}
  /\ pc' = after
  /\ UNCHANGED <<proto, after, blocks, error, result, deadline, device,
                 control, busMaster>>

\* The last turn of the loop; a turn that reads BSY changes nothing.
WaitReset ==
  /\ pc = "wait"
  /\ \E s \in SUBSET Bits : Reads(s) /\ "BSY" \notin s
  /\ pc' = after
  /\ UNCHANGED <<proto, after, blocks, status, error, result, deadline,
                 device, control, busMaster>>

SoftwareReset == AssertReset \/ ReleaseReset \/ WaitReset

-----------------------------------------------------------------------------
(***************************************************************************)
(* The steps the four command functions are made of.                       *)
(***************************************************************************)
DisableInterrupts ==
  /\ pc = "nien"
  /\ control' = {"nIEN"}
  /\ pc' = "command"
  /\ UNCHANGED <<proto, after, blocks, status, error, result, deadline,
                 device, busMaster>>

\* The device takes the command and decides how much it will transfer.
WriteCommand(next) ==
  /\ pc = "command"
  /\ pc' = next
  /\ phase' = "busy" /\ flags' = {}
  /\ demand' \in IF proto \in Pio THEN 0..MaxBlocks ELSE {0}
  /\ pending' = demand'
  /\ UNCHANGED <<proto, after, blocks, status, error, result, deadline,
                 errorReg, control, busMaster>>

\* Mutant: DRQ is believed while BSY is set.
PollBusyDrq ==
  /\ pc = "poll"
  /\ status' \in {s \in SUBSET Bits : Reads(s)}
  /\ \/ status' \cap {"BSY", "DRQ"} = {} /\ pc' = "check"
     \/ "DRQ" \in status' /\ proto \in Pio /\ pc' = "transfer"
     \/ "BSY" \in status' /\ "DRQ" \notin status' /\ pc' = "clock"
  /\ UNCHANGED <<proto, after, blocks, error, result, deadline, device,
                 control, busMaster>>

\* Mutant: a device that is not busy has completed the command.
PollNotBusy ==
  /\ pc = "poll"
  /\ status' \in {s \in SUBSET Bits : Reads(s)}
  /\ pc' = IF "BSY" \in status' THEN "clock" ELSE "check"
  /\ UNCHANGED <<proto, after, blocks, error, result, deadline, device,
                 control, busMaster>>

\* One read of the Status register in the polling loop: the command is
\* completed, a block is ready (PIO only), or neither.
Poll ==
  /\ pc = "poll"
  /\ status' \in {s \in SUBSET Bits : Reads(s)}
  /\ \/ status' \cap {"BSY", "DRQ"} = {} /\ pc' = "check"
     \/ status' \cap {"BSY", "DRQ"} = {"DRQ"} /\ proto \in Pio
        /\ pc' = "transfer"
     \/ "BSY" \in status' /\ pc' = "clock"
     \/ "DRQ" \in status' /\ proto \notin Pio /\ pc' = "clock"
  /\ UNCHANGED <<proto, after, blocks, error, result, deadline, device,
                 control, busMaster>>

\* 256 words through the Data register.  It ignores the size of the buffer and
\* the sector count; the device that asked for the block takes it.
Transfer ==
  /\ pc = "transfer"
  /\ pc' = "clock"
  /\ blocks' = blocks + 1
  /\ phase' = IF phase = "drq" THEN "busy" ELSE phase
  /\ pending' = IF phase = "drq" /\ pending > 0 THEN pending - 1 ELSE pending
  /\ UNCHANGED <<proto, after, status, error, result, deadline, flags, demand,
                 errorReg, control, busMaster>>

KeepPolling ==
  /\ pc = "clock"
  /\ pc' = "poll"
  /\ UNCHANGED <<proto, after, blocks, status, error, result, deadline,
                 device, control, busMaster>>

\* The reset, then out of the loop to the tests of the status read last.
TimeOut ==
  /\ pc = "clock"
  /\ deadline' = "expired"
  /\ after' = "check"
  /\ pc' = "reset"
  /\ UNCHANGED <<proto, blocks, status, error, result, device, control,
                 busMaster>>

\* Mutant: a DMA command resets without stopping the bus master.
GotoErrReset ==
  /\ pc' = "reset"
  /\ after' = "fail"

\* Label err of a command that does not use the bus master, and of one that does.
GotoErr ==
  /\ pc' = IF proto = "dma" THEN "stop_err" ELSE "reset"
  /\ after' = "fail"

CheckFault ==
  /\ pc = "check" /\ "DF" \in status
  /\ GotoErr
  /\ UNCHANGED <<proto, blocks, status, error, result, deadline, device,
                 control, busMaster>>

CheckError ==
  /\ pc = "check" /\ "DF" \notin status /\ "ERR" \in status
  /\ pc' = "error"
  /\ UNCHANGED <<proto, after, blocks, status, error, result, deadline,
                 device, control, busMaster>>

ReadError ==
  /\ pc = "error"
  /\ error' = errorReg
  /\ GotoErr
  /\ UNCHANGED <<proto, blocks, status, result, deadline, device, control,
                 busMaster>>

\* Mutant: only a device fault is a failure.
CheckNoFault(next) ==
  /\ pc = "check" /\ "DF" \notin status
  /\ pc' = next
  /\ result' = IF next = "idle" THEN 0 ELSE result
  /\ UNCHANGED <<proto, after, blocks, status, error, deadline, device,
                 control, busMaster>>

CheckSuccess(next) ==
  /\ pc = "check" /\ status \cap {"DF", "ERR"} = {}
  /\ pc' = next
  /\ result' = IF next = "idle" THEN 0 ELSE result
  /\ UNCHANGED <<proto, after, blocks, status, error, deadline, device,
                 control, busMaster>>

\* Mutant: the Error register is read after the reset.
ReturnFailureError ==
  /\ pc = "fail"
  /\ pc' = "idle"
  /\ result' = -1
  /\ error' = errorReg
  /\ UNCHANGED <<proto, after, blocks, status, deadline, device, control,
                 busMaster>>

ReturnFailure ==
  /\ pc = "fail"
  /\ pc' = "idle"
  /\ result' = -1
  /\ UNCHANGED <<proto, after, blocks, status, error, deadline, device,
                 control, busMaster>>

Loop == Poll \/ KeepPolling \/ TimeOut

Finish == CheckFault \/ CheckError \/ ReadError \/ ReturnFailure

-----------------------------------------------------------------------------
(***************************************************************************)
(* The bus master steps of ata_device_command_dma.  The direction bit      *)
(* stays as it is when the bus master is stopped.                          *)
(***************************************************************************)
StartBusMaster ==
  /\ pc = "start"
  /\ busMaster' = busMaster \cup {"START"}
  /\ pc' = "poll"
  /\ UNCHANGED <<proto, after, blocks, status, error, result, deadline,
                 device, control>>

StopBusMaster ==
  /\ pc = "stop"
  /\ busMaster' = busMaster \ {"START"}
  /\ pc' = "idle"
  /\ result' = 0
  /\ UNCHANGED <<proto, after, blocks, status, error, deadline, device,
                 control>>

StopBusMasterErr ==
  /\ pc = "stop_err"
  /\ busMaster' = busMaster \ {"START"}
  /\ pc' = "reset"
  /\ UNCHANGED <<proto, after, blocks, status, error, result, deadline,
                 device, control>>

-----------------------------------------------------------------------------
CommandNonData ==
  /\ proto = "non_data"
  /\ \/ DisableInterrupts \/ WriteCommand("poll") \/ Loop
     \/ CheckSuccess("idle") \/ Finish

CommandPioDataIn ==
  /\ proto = "pio_in"
  /\ \/ DisableInterrupts \/ WriteCommand("poll") \/ Loop \/ Transfer
     \/ CheckSuccess("idle") \/ Finish

CommandPioDataOut ==
  /\ proto = "pio_out"
  /\ \/ DisableInterrupts \/ WriteCommand("poll") \/ Loop \/ Transfer
     \/ CheckSuccess("idle") \/ Finish

CommandDma ==
  /\ proto = "dma"
  /\ \/ DisableInterrupts \/ WriteCommand("start") \/ StartBusMaster \/ Loop
     \/ CheckSuccess("stop") \/ StopBusMaster
     \/ StopBusMasterErr \/ Finish

HostStep ==
  \/ CommandNonData \/ CommandPioDataIn \/ CommandPioDataOut \/ CommandDma
  \/ SoftwareReset

Next ==
  \/ \E p \in Protocols \ {"dma"} : Call(p)
  \/ CallReadDma
  \/ CallWriteDma
  \/ HostStep
  \/ DeviceStep

Spec == Init /\ [][Next]_vars

(***************************************************************************)
(* Fairness.  The host thread keeps running; it burns processor time in    *)
(* the loop, so clock() - start passes the timeout if the loop does not    *)
(* end.  Nothing in the code makes the device finish a reset: only         *)
(* FairSpec assumes that it does.                                          *)
(***************************************************************************)
HostFairness == WF_vars(HostStep) /\ SF_vars(TimeOut)

FairSpec == Spec /\ HostFairness /\ WF_vars(DeviceResetDone)

-----------------------------------------------------------------------------
(***************************************************************************)
(* Properties for every device, whatever it does (any RoguePhases).        *)
(***************************************************************************)

\* Between commands, and until the next command is written, the bus master is
\* stopped and no reset is asserted, whichever way the last command ended:
\* success, device fault, error or timeout (ata_device_command_dma stops the
\* bus master on both of its ways out, and a reset always releases SRST).
Quiescent ==
  pc \in {"idle", "nien", "command"} =>
    "START" \notin busMaster /\ "SRST" \notin control

\* The reset that follows a fault or an error starts with the bus master
\* stopped (label err of ata_device_command_dma stops it first).
StoppedBeforeErrReset ==
  pc \in {"reset", "release", "wait"} /\ after = "fail" =>
    "START" \notin busMaster

\* A command that failed leaves its status for the caller: the bits that made
\* it fail are still in ata_device->status, although a reset came after them
\* (the reset reads the Status register into a local variable for this).
FailureKeepsStatus ==
  pc = "idle" /\ result = -1 => status \cap {"DF", "ERR"} # {}

\* The host polls only with interrupts disabled, also after a reset rewrote the
\* Device Control register.
PolledWithoutInterrupts ==
  pc \notin {"idle", "nien"} => "nIEN" \in control

-----------------------------------------------------------------------------
(***************************************************************************)
(* Properties for a device that follows the protocol (RoguePhases = {}).   *)
(***************************************************************************)
Conforming == RoguePhases = {}

\* The Command register is written only when the device is neither busy nor in
\* the middle of a transfer, although no command function looks first: every
\* way out of the previous command left the device ready.
CommandWhenReady ==
  Conforming /\ pc = "command" => phase = "ready"

\* When the host moves a block, the device still waits for that block: the
\* status that was read is not stale by then.
TransferWhenAsked ==
  Conforming /\ pc = "transfer" => phase = "drq" /\ pending > 0

\* The status that decides between success and failure is the one the device
\* ended the command with, unless the command timed out.
StatusCurrent ==
  Conforming /\ deadline = "running" /\ pc \in {"check", "error"} =>
    phase = "ready" /\ status = flags

\* A command that did not time out returns 0 only if the device ended it
\* without fault or error and exactly the blocks it demanded were moved.
ResultHonest ==
  Conforming /\ pc = "idle" /\ deadline = "running" /\ result = 0 =>
    phase = "ready" /\ flags = {} /\ blocks = demand

\* When the device reports an error (and no fault), ata_device->error is the
\* value the command left in the Error register, not the diagnostic code of the
\* reset that follows.
ErrorFromCommand ==
  /\ Conforming /\ pc = "idle" /\ deadline = "running"
  /\ result = -1 /\ "DF" \notin status
  => error = "command"

\* The state of a command as its caller sees it.
CallState == IF pc = "idle" THEN "idle" ELSE "running"

CallDevice == IF phase = "ready" THEN "ready" ELSE "working"

\* How the command has ended.  Once the host is on its way to label err, the
\* device may have been reset and no longer tells.
CallVerdict ==
  IF deadline = "expired" THEN "abandoned"
  ELSE IF pc \in {"nien", "command"} THEN "none"
  ELSE IF pc \in {"error", "stop_err", "reset", "release", "wait", "fail"}
       THEN "failure"
  ELSE IF pc = "idle" THEN IF result = 0 THEN "success" ELSE "failure"
  ELSE IF phase # "ready" THEN "none"
  ELSE IF flags = {} THEN "success" ELSE "failure"

Command == INSTANCE AtaCommand WITH
  state <- CallState, device <- CallDevice, verdict <- CallVerdict

\* The four protocols are commands as AtaCommand describes them: the device is
\* left ready and untouched between calls, works once per call, and the result
\* tells how its work ended, whatever resets and late completions lie between.
ImplementsCommand == Command!Spec

\* Every command returns, if the device finishes its resets.
CommandReturns == (pc # "idle") ~> (pc = "idle")

-----------------------------------------------------------------------------
(***************************************************************************)
(* What the documentation says and the code does not do.                   *)
(***************************************************************************)

\* ata_device.h: a command "Returns zero on success; otherwise, returns -1 on
\* failure".  A command that ran into the timeout did not succeed.
TimeOutIsFailure ==
  pc = "idle" /\ deadline = "expired" => result = -1
=============================================================================
