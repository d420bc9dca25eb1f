-------------------------- MODULE AtaDeviceProofs --------------------------
(***************************************************************************)
(* The safety properties of AtaDevice, for every bound MaxBlocks.  The     *)
(* first invariant holds whatever the device does; the second one adds     *)
(* what holds when the device follows the protocol.                        *)
(***************************************************************************)
EXTENDS AtaDevice, TLAPS

Resetting == pc \in {"reset", "release", "wait"}

\* What the steps with a guard on the protocol rely on.
ProtocolInv ==
  /\ pc = "transfer" => proto \in Pio
  /\ pc \in {"start", "stop", "stop_err"} => proto = "dma"

\* The bus master runs only where ata_device_command_dma still has a stop ahead.
BusMasterInv ==
  "START" \in busMaster =>
    /\ proto = "dma"
    /\ \/ pc \in {"poll", "clock", "check", "error", "stop", "stop_err"}
       \/ Resetting /\ after = "check"

ControlInv ==
  /\ "SRST" \in control => pc = "release"
  /\ pc \notin {"idle", "nien"} => "nIEN" \in control

\* Past label err, and after a failure, the bits that led there are kept.
StatusInv ==
  \/ pc \in {"error", "stop_err", "fail"}
  \/ Resetting /\ after = "fail"
  \/ pc = "idle" /\ result = -1
  => status \cap {"DF", "ERR"} # {}

\* A block is offered only below the bound.
BlocksInv ==
  phase = "drq" \/ pc = "transfer" => blocks < MaxBlocks

HostInv ==
  /\ TypeOK
  /\ ProtocolInv
  /\ BusMasterInv
  /\ ControlInv
  /\ StatusInv
  /\ BlocksInv

-----------------------------------------------------------------------------
(***************************************************************************)
(* The steps of the system one by one, each with the protocol it belongs   *)
(* to.                                                                     *)
(***************************************************************************)
Step ==
  \/ \E p \in Protocols \ {"dma"} : Call(p)
  \/ CallReadDma \/ CallWriteDma
  \/ DisableInterrupts
  \/ proto # "dma" /\ WriteCommand("poll")
  \/ proto = "dma" /\ WriteCommand("start")
  \/ StartBusMaster
  \/ Poll \/ Transfer \/ KeepPolling \/ TimeOut
  \/ CheckFault \/ CheckError \/ ReadError \/ ReturnFailure
  \/ proto # "dma" /\ CheckSuccess("idle")
  \/ proto = "dma" /\ CheckSuccess("stop")
  \/ StopBusMaster \/ StopBusMasterErr
  \/ AssertReset \/ ReleaseReset \/ WaitReset
  \/ DeviceOfferBlock \/ DeviceSucceed \/ DeviceFail
  \/ DeviceResetDone \/ DeviceMisbehave

\* Every step of Next is one of the steps above.
LEMMA NextIsStep == Next => Step
<1> SUFFICES ASSUME Next PROVE Step
  OBVIOUS
<1>1. CASE \E p \in Protocols \ {"dma"} : Call(p)
  BY <1>1 DEF Step
<1>2. CASE CallReadDma \/ CallWriteDma
  BY <1>2 DEF Step
<1>3. CASE CommandNonData
  BY <1>3 DEF Step, CommandNonData, Loop, Finish
<1>4. CASE CommandPioDataIn
  BY <1>4 DEF Step, CommandPioDataIn, Loop, Finish
<1>5. CASE CommandPioDataOut
  BY <1>5 DEF Step, CommandPioDataOut, Loop, Finish
<1>6. CASE CommandDma
  BY <1>6 DEF Step, CommandDma, Loop, Finish
<1>7. CASE SoftwareReset
  BY <1>7 DEF Step, SoftwareReset
<1>8. CASE DeviceStep
  BY <1>8 DEF Step, DeviceStep
<1> QED
  BY <1>1, <1>2, <1>3, <1>4, <1>5, <1>6, <1>7, <1>8 DEF Next, HostStep

-----------------------------------------------------------------------------
\* HostInv holds initially.
LEMMA InitHostInv == Init => HostInv
<1> SUFFICES ASSUME Init PROVE HostInv
  OBVIOUS
<1> QED
  BY MaxBlocksAssumption
  DEF Init, HostInv, TypeOK, PCs, Protocols, Pio, Phases, Bits, ProtocolInv,
      BusMasterInv, ControlInv, StatusInv, BlocksInv, Resetting

\* Every step preserves HostInv.
LEMMA NextHostInv == HostInv /\ [Next]_vars => HostInv'
<1> SUFFICES ASSUME HostInv, [Next]_vars PROVE HostInv'
  OBVIOUS
<1> USE MaxBlocksAssumption, RoguePhasesAssumption
    DEF HostInv, TypeOK, PCs, Protocols, Pio, Phases, Bits, ProtocolInv,
        BusMasterInv, ControlInv, StatusInv, BlocksInv, Resetting
<1>1. ASSUME NEW p \in Protocols \ {"dma"}, Call(p) PROVE HostInv'
  BY <1>1 DEF Call, Begin, device
<1>2. CASE CallReadDma
  BY <1>2 DEF CallReadDma, Begin, device
<1>3. CASE CallWriteDma
  BY <1>3 DEF CallWriteDma, Begin, device
<1>4. CASE DisableInterrupts
  BY <1>4 DEF DisableInterrupts, device
<1>5. CASE proto # "dma" /\ WriteCommand("poll")
  BY <1>5 DEF WriteCommand
<1>6. CASE proto = "dma" /\ WriteCommand("start")
  BY <1>6 DEF WriteCommand
<1>7. CASE StartBusMaster
  BY <1>7 DEF StartBusMaster, device
<1>8. CASE Poll
  BY <1>8 DEF Poll, Reads, device
<1>9. CASE Transfer
  BY <1>9 DEF Transfer
<1>10. CASE KeepPolling
  BY <1>10 DEF KeepPolling, device
<1>11. CASE TimeOut
  BY <1>11 DEF TimeOut, device
<1>12. CASE CheckFault
  BY <1>12 DEF CheckFault, GotoErr, device
<1>13. CASE CheckError
  BY <1>13 DEF CheckError, device
<1>14. CASE ReadError
  BY <1>14 DEF ReadError, GotoErr, device
<1>15. CASE ReturnFailure
  BY <1>15 DEF ReturnFailure, device
<1>16. CASE proto # "dma" /\ CheckSuccess("idle")
  BY <1>16 DEF CheckSuccess, device
<1>17. CASE proto = "dma" /\ CheckSuccess("stop")
  BY <1>17 DEF CheckSuccess, device
<1>18. CASE StopBusMaster
  BY <1>18 DEF StopBusMaster, device
<1>19. CASE StopBusMasterErr
  BY <1>19 DEF StopBusMasterErr, device
<1>20. CASE AssertReset
  BY <1>20 DEF AssertReset
<1>21. CASE ReleaseReset
  BY <1>21 DEF ReleaseReset, device
<1>22. CASE WaitReset
  BY <1>22 DEF WaitReset, device
<1>23. CASE DeviceOfferBlock
  BY <1>23 DEF DeviceOfferBlock, host
<1>24. CASE DeviceSucceed
  BY <1>24 DEF DeviceSucceed, host
<1>25. CASE DeviceFail
  BY <1>25 DEF DeviceFail, host
<1>26. CASE DeviceResetDone
  BY <1>26 DEF DeviceResetDone, host
<1>27. CASE DeviceMisbehave
  BY <1>27 DEF DeviceMisbehave, host
<1>28. CASE UNCHANGED vars
  BY <1>28 DEF vars, host, device
<1> QED
  BY <1>1, <1>2, <1>3, <1>4, <1>5, <1>6, <1>7, <1>8, <1>9, <1>10, <1>11,
     <1>12, <1>13, <1>14, <1>15, <1>16, <1>17, <1>18, <1>19, <1>20, <1>21,
     <1>22, <1>23, <1>24, <1>25, <1>26, <1>27, <1>28, NextIsStep DEF Step

-----------------------------------------------------------------------------
(***************************************************************************)
(* What the first invariant gives.                                         *)
(***************************************************************************)

\* HostInv holds in every reachable state.
THEOREM HostInvariant == Spec => []HostInv
BY InitHostInv, NextHostInv, PTL DEF Spec

\* Every variable stays in its type: in particular the transfer loops move a
\* block only where the status that was read asked for one.
THEOREM TypeCorrect == Spec => []TypeOK
<1>1. HostInv => TypeOK
  BY DEF HostInv
<1> QED
  BY <1>1, HostInvariant, PTL

\* Whatever the device does, the bus master is stopped and no reset is asserted
\* between commands.
THEOREM QuiescentHolds == Spec => []Quiescent
<1>1. HostInv => Quiescent
  BY DEF HostInv, BusMasterInv, ControlInv, Resetting, Quiescent
<1> QED
  BY <1>1, HostInvariant, PTL

\* Whatever the device does, the reset of label err starts with the bus master
\* stopped.
THEOREM StoppedBeforeErrResetHolds == Spec => []StoppedBeforeErrReset
<1>1. HostInv => StoppedBeforeErrReset
  BY DEF HostInv, TypeOK, BusMasterInv, Resetting, StoppedBeforeErrReset
<1> QED
  BY <1>1, HostInvariant, PTL

\* Whatever the device does, a failed command leaves the bits that made it fail
\* in ata_device->status.
THEOREM FailureKeepsStatusHolds == Spec => []FailureKeepsStatus
<1>1. HostInv => FailureKeepsStatus
  BY DEF HostInv, StatusInv, FailureKeepsStatus
<1> QED
  BY <1>1, HostInvariant, PTL

\* Whatever the device does, the host polls with interrupts disabled.
THEOREM PolledWithoutInterruptsHolds == Spec => []PolledWithoutInterrupts
<1>1. HostInv => PolledWithoutInterrupts
  BY DEF HostInv, ControlInv, PolledWithoutInterrupts
<1> QED
  BY <1>1, HostInvariant, PTL

-----------------------------------------------------------------------------
(***************************************************************************)
(* A device that follows the protocol.  The polling loop is the only place *)
(* where the device moves by itself; the parts below say what it can have  *)
(* done by then, and what is settled once the loop has ended.              *)
(***************************************************************************)
Polling == pc \in {"start", "poll", "transfer", "clock"}

\* Past label err, or returned through it.
Failing ==
  \/ pc \in {"stop_err", "fail"}
  \/ Resetting /\ after = "fail"
  \/ pc = "idle" /\ result = -1

\* Past the tests of the status, on the way to a return of zero.
Succeeding ==
  \/ pc = "stop"
  \/ pc = "idle" /\ result = 0

PhaseInv ==
  /\ pc \in {"idle", "nien", "command", "check", "error", "stop", "stop_err",
             "fail"} => phase = "ready"
  /\ phase = "resetting" => pc \in {"release", "wait"}
  /\ pc = "release" => phase = "resetting" /\ "SRST" \in control
  /\ pc = "wait" => phase \in {"resetting", "ready"}
  /\ phase = "drq" => proto \in Pio /\ pending > 0
  /\ pc = "transfer" => phase = "drq"

\* The deadline of a command expires only by TimeOut, which leaves the loop.
DeadlineInv ==
  /\ pc \in {"nien", "command"} \/ Polling => deadline = "running"
  /\ Resetting /\ after = "check" => deadline = "expired"
  /\ pc = "stop_err" => after = "fail"

\* The blocks moved and those still pending make up the demand.
CountInv ==
  /\ pc \in {"nien", "command"} => blocks = 0
  /\ Polling => blocks + pending = demand
  /\ Polling /\ phase = "ready" /\ flags = {} => pending = 0

\* A device error is in the Error register until the error path has read it.
ErrorInv ==
  /\ Polling /\ "ERR" \in flags => errorReg = "command"
  /\ deadline = "running" /\ pc = "error" => errorReg = "command"
  /\ deadline = "running" /\ Failing /\ "DF" \notin status =>
       error = "command"

\* The status tested after the loop is the one the command ended with.
EndInv ==
  deadline = "running" =>
    /\ pc \in {"check", "error"} => status = flags
    /\ pc = "check" =>
         /\ flags = {} => blocks = demand
         /\ "ERR" \in flags => errorReg = "command"
    /\ Succeeding => flags = {} /\ blocks = demand

ConformingInv ==
  /\ HostInv
  /\ PhaseInv
  /\ DeadlineInv
  /\ CountInv
  /\ ErrorInv
  /\ EndInv

\* The invariant under the assumption on the constant.
DeviceInv == Conforming => ConformingInv

LEMMA InitConformingInv == Init => ConformingInv
<1> SUFFICES ASSUME Init PROVE ConformingInv
  OBVIOUS
<1>1. HostInv
  BY InitHostInv
<1> QED
  BY <1>1
  DEF Init, ConformingInv, PhaseInv, DeadlineInv, CountInv, ErrorInv, EndInv,
      Polling, Failing, Succeeding, Resetting

\* Every step preserves ConformingInv, if no phase is rogue.
LEMMA NextConformingInv ==
  ASSUME Conforming, ConformingInv, [Next]_vars
  PROVE  ConformingInv'
<1>0. HostInv'
  BY NextHostInv DEF ConformingInv
<1> DEFINE NewInv == PhaseInv /\ DeadlineInv /\ CountInv /\ ErrorInv /\ EndInv
<1> SUFFICES NewInv'
  BY <1>0 DEF ConformingInv
<1> USE MaxBlocksAssumption
    DEF Conforming, ConformingInv, HostInv, TypeOK, PCs, Protocols, Pio,
        Phases, Bits, ProtocolInv, StatusInv, BlocksInv, PhaseInv,
        DeadlineInv, CountInv, ErrorInv, EndInv, Polling, Failing, Succeeding,
        Resetting
<1>1. ASSUME NEW p \in Protocols \ {"dma"}, Call(p) PROVE NewInv'
  BY <1>1 DEF Call, Begin, device
<1>2. CASE CallReadDma
  BY <1>2 DEF CallReadDma, Begin, device
<1>3. CASE CallWriteDma
  BY <1>3 DEF CallWriteDma, Begin, device
<1>4. CASE DisableInterrupts
  BY <1>4 DEF DisableInterrupts, device
<1>5. CASE proto # "dma" /\ WriteCommand("poll")
  <2>1. /\ blocks' = 0 /\ deadline' = "running"
        /\ pc' = "poll" /\ phase' = "busy" /\ flags' = {}
    BY <1>5 DEF WriteCommand
  <2>2. demand' \in Int /\ pending' = demand'
    BY <1>5 DEF WriteCommand
  <2>3. \A n \in Int : 0 + n = n
    OBVIOUS
  <2>4. blocks' + pending' = demand'
    BY <2>1, <2>2, <2>3, Zenon
  <2> QED
    BY <2>1, <2>2, <2>4
<1>6. CASE proto = "dma" /\ WriteCommand("start")
  BY <1>6 DEF WriteCommand
<1>7. CASE StartBusMaster
  BY <1>7 DEF StartBusMaster, device
<1>8. CASE Poll
  BY <1>8 DEF Poll, Reads, device
<1>9. CASE Transfer
  BY <1>9 DEF Transfer
<1>10. CASE KeepPolling
  BY <1>10 DEF KeepPolling, device
<1>11. CASE TimeOut
  BY <1>11 DEF TimeOut, device
<1>12. CASE CheckFault
  BY <1>12 DEF CheckFault, GotoErr, device
<1>13. CASE CheckError
  BY <1>13 DEF CheckError, device
<1>14. CASE ReadError
  BY <1>14 DEF ReadError, GotoErr, device
<1>15. CASE ReturnFailure
  BY <1>15 DEF ReturnFailure, device
<1>16. CASE proto # "dma" /\ CheckSuccess("idle")
  BY <1>16 DEF CheckSuccess, device
<1>17. CASE proto = "dma" /\ CheckSuccess("stop")
  BY <1>17 DEF CheckSuccess, device
<1>18. CASE StopBusMaster
  BY <1>18 DEF StopBusMaster, device
<1>19. CASE StopBusMasterErr
  BY <1>19 DEF StopBusMasterErr, device
<1>20. CASE AssertReset
  BY <1>20 DEF AssertReset
<1>21. CASE ReleaseReset
  BY <1>21 DEF ReleaseReset, device
<1>22. CASE WaitReset
  BY <1>22 DEF WaitReset, Reads, device
<1>23. CASE DeviceOfferBlock
  BY <1>23 DEF DeviceOfferBlock, host
<1>24. CASE DeviceSucceed
  BY <1>24 DEF DeviceSucceed, host
<1>25. CASE DeviceFail
  BY <1>25 DEF DeviceFail, host
<1>26. CASE DeviceResetDone
  BY <1>26 DEF DeviceResetDone, host
<1>27. CASE DeviceMisbehave
  BY <1>27 DEF DeviceMisbehave, host
<1>28. CASE UNCHANGED vars
  BY <1>28 DEF vars, host, device
<1> QED
  BY <1>1, <1>2, <1>3, <1>4, <1>5, <1>6, <1>7, <1>8, <1>9, <1>10, <1>11, <1>12, <1>13, <1>14, <1>15, <1>16, <1>17, <1>18, <1>19, <1>20, <1>21, <1>22, <1>23, <1>24, <1>25, <1>26, <1>27, <1>28,
     NextIsStep DEF Step

-----------------------------------------------------------------------------
(***************************************************************************)
(* What the second invariant gives.                                        *)
(***************************************************************************)

\* ConformingInv holds in every reachable state, if no phase is rogue.
THEOREM DeviceInvariant == Spec => []DeviceInv
<1>1. Init => DeviceInv
  BY InitConformingInv DEF DeviceInv
<1>2. DeviceInv /\ [Next]_vars => DeviceInv'
  BY NextConformingInv DEF DeviceInv, Conforming
<1> QED
  BY <1>1, <1>2, PTL DEF Spec

\* A device that follows the protocol is never sent a command while it is busy
\* or in the middle of a transfer.
THEOREM CommandWhenReadyHolds == Spec => []CommandWhenReady
<1>1. DeviceInv => CommandWhenReady
  BY DEF DeviceInv, ConformingInv, PhaseInv, CommandWhenReady
<1> QED
  BY <1>1, DeviceInvariant, PTL

\* A block is moved only while the device waits for it.
THEOREM TransferWhenAskedHolds == Spec => []TransferWhenAsked
<1>1. DeviceInv => TransferWhenAsked
  BY DEF DeviceInv, ConformingInv, PhaseInv, TransferWhenAsked
<1> QED
  BY <1>1, DeviceInvariant, PTL

\* The status tested after the loop is the one the device ended with.
THEOREM StatusCurrentHolds == Spec => []StatusCurrent
<1>1. DeviceInv => StatusCurrent
  BY DEF DeviceInv, ConformingInv, PhaseInv, EndInv, StatusCurrent
<1> QED
  BY <1>1, DeviceInvariant, PTL

\* Zero is returned, without a timeout, only for a command the device ended
\* well and whose whole demand was moved.
THEOREM ResultHonestHolds == Spec => []ResultHonest
<1>1. DeviceInv => ResultHonest
  BY DEF DeviceInv, ConformingInv, PhaseInv, EndInv, Succeeding, ResultHonest
<1> QED
  BY <1>1, DeviceInvariant, PTL

\* The error recorded is the error of the command, not the diagnostic code that
\* the reset leaves.
THEOREM ErrorFromCommandHolds == Spec => []ErrorFromCommand
<1>1. DeviceInv => ErrorFromCommand
  BY DEF DeviceInv, ConformingInv, ErrorInv, Failing, ErrorFromCommand
<1> QED
  BY <1>1, DeviceInvariant, PTL

-----------------------------------------------------------------------------
(***************************************************************************)
(* AtaDevice implements AtaCommand, if the device follows the protocol.    *)
(***************************************************************************)
\* A command starts out as AtaCommand says.
LEMMA InitImplements == Init => Command!Init
BY DEF Init, Command!Init, CallState, CallDevice, CallVerdict

\* Every step of the protocols is a step of AtaCommand or leaves what the caller
\* sees as it is.
LEMMA NextImplements ==
  ASSUME Conforming, ConformingInv, [Next]_vars
  PROVE  [Command!Next]_(Command!vars)
<1> DEFINE Goal == Command!Next \/ UNCHANGED Command!vars
<1> SUFFICES Goal
  OBVIOUS
<1> USE DEF Conforming, ConformingInv, HostInv, TypeOK, PCs, Protocols, Pio,
        Phases, Bits, StatusInv, PhaseInv, DeadlineInv, EndInv, Polling,
        Failing, Succeeding, Resetting, CallState, CallDevice, CallVerdict,
        Command!Next, Command!vars, Command!Call, Command!Accept, Command!End,
        Command!GiveUp, Command!Reset, Command!Recover, Command!Return
<1>1. ASSUME NEW p \in Protocols \ {"dma"}, Call(p) PROVE Goal
  BY <1>1 DEF Call, Begin, device
<1>2. CASE CallReadDma
  BY <1>2 DEF CallReadDma, Begin, device
<1>3. CASE CallWriteDma
  BY <1>3 DEF CallWriteDma, Begin, device
<1>4. CASE DisableInterrupts
  BY <1>4 DEF DisableInterrupts, device
<1>5. CASE proto # "dma" /\ WriteCommand("poll")
  BY <1>5 DEF WriteCommand
<1>6. CASE proto = "dma" /\ WriteCommand("start")
  BY <1>6 DEF WriteCommand
<1>7. CASE StartBusMaster
  BY <1>7 DEF StartBusMaster, device
<1>8. CASE Poll
  BY <1>8 DEF Poll, Reads, device
<1>9. CASE Transfer
  BY <1>9 DEF Transfer
<1>10. CASE KeepPolling
  BY <1>10 DEF KeepPolling, device
<1>11. CASE TimeOut
  BY <1>11 DEF TimeOut, device
<1>12. CASE CheckFault
  BY <1>12 DEF CheckFault, GotoErr, device
<1>13. CASE CheckError
  BY <1>13 DEF CheckError, device
<1>14. CASE ReadError
  BY <1>14 DEF ReadError, GotoErr, device
<1>15. CASE ReturnFailure
  BY <1>15 DEF ReturnFailure, device
<1>16. CASE proto # "dma" /\ CheckSuccess("idle")
  BY <1>16 DEF CheckSuccess, device
<1>17. CASE proto = "dma" /\ CheckSuccess("stop")
  BY <1>17 DEF CheckSuccess, device
<1>18. CASE StopBusMaster
  BY <1>18 DEF StopBusMaster, device
<1>19. CASE StopBusMasterErr
  BY <1>19 DEF StopBusMasterErr, device
<1>20. CASE AssertReset
  BY <1>20 DEF AssertReset
<1>21. CASE ReleaseReset
  BY <1>21 DEF ReleaseReset, device
<1>22. CASE WaitReset
  BY <1>22 DEF WaitReset, Reads, device
<1>23. CASE DeviceOfferBlock
  BY <1>23 DEF DeviceOfferBlock, host
<1>24. CASE DeviceSucceed
  BY <1>24 DEF DeviceSucceed, host
<1>25. CASE DeviceFail
  BY <1>25 DEF DeviceFail, host
<1>26. CASE DeviceResetDone
  BY <1>26 DEF DeviceResetDone, host
<1>27. CASE DeviceMisbehave
  BY <1>27 DEF DeviceMisbehave, host
<1>28. CASE UNCHANGED vars
  BY <1>28 DEF vars, host, device
<1> QED
  BY <1>1, <1>2, <1>3, <1>4, <1>5, <1>6, <1>7, <1>8, <1>9, <1>10, <1>11, 
     <1>12, <1>13, <1>14, <1>15, <1>16, <1>17, <1>18, <1>19, <1>20, <1>21, 
     <1>22, <1>23, <1>24, <1>25, <1>26, <1>27, <1>28, 
     NextIsStep DEF Step

\* The protocols of a conforming device are commands as AtaCommand describes
\* them: no work outside a call, one piece of work per call, and a result that
\* tells how that work ended.
THEOREM Implements == ASSUME Conforming PROVE Spec => ImplementsCommand
<1>1. DeviceInv /\ [Next]_vars => [Command!Next]_(Command!vars)
  BY NextImplements DEF DeviceInv, Conforming
<1> QED
  BY <1>1, InitImplements, DeviceInvariant, PTL
  DEF Spec, ImplementsCommand, Command!Spec
=============================================================================
