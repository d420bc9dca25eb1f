------------------------ MODULE AtaControllerProofs ------------------------
(***************************************************************************)
(* The safety properties of AtaController for both buses, both devices and *)
(* both error handlers.                                                    *)
(***************************************************************************)
EXTENDS AtaController, FiniteSetTheorems, TLAPS

Devices == {"pci_device", "ata_device0", "ata_device1"}

\* What create has made so far, at each of its calls.
CreateInv ==
  /\ pc \in {"none", "pci_device", "free_again"} => objects = {}
  /\ pc \in {"select0", "ata_device0", "identify0"} => objects = {"pci_device"}
  /\ pc \in {"select1", "ata_device1", "identify1"} =>
       objects = {"pci_device", "ata_device0"}
  /\ pc \in {"select_first", "dma", "dma_buffer0"} => objects = Devices
  /\ pc = "selecting" /\ return = "dma" => objects = Devices
  /\ pc = "prdt" => objects = Devices \cup {"dma_buffer0"}
  /\ pc = "dma_buffer1" => objects = Devices \cup {"dma_buffer0", "prdt"}
  /\ pc = "buffer" =>
       objects = Devices \cup {"dma_buffer0", "prdt", "dma_buffer1"}

\* What destroy has passed is gone.
DestroyInv ==
  pc = "destroy" =>
    /\ step > 1 => "buffer" \notin objects
    /\ step > 2 => "prdt" \notin objects
    /\ step > 3 => "dma_buffer1" \notin objects
    /\ step > 4 => "dma_buffer0" \notin objects
    /\ step > 5 => "ata_device1" \notin objects
    /\ step > 6 => "ata_device0" \notin objects
    /\ step > 7 => "pci_device" \notin objects

\* The second free comes only after the error path, which an aborting handler
\* never lets run.
FreesInv ==
  /\ path = "normal" => frees \in {0, 1}
  /\ pc \notin {"none", "free_again"} => frees = 0
  /\ pc = "free_again" => frees = 1 /\ path = "error"
  /\ ErrorHandler = "abort" =>
       /\ pc # "err"
       /\ path = "error" => pc = "aborted"

\* A controller that is created keeps its devices.
UsableInv ==
  pc \in {"idle", "reset", "release", "wait_reset", "select", "command",
          "running", "selecting"} => Devices \subseteq objects

ControllerInv ==
  /\ TypeOK
  /\ CreateInv
  /\ DestroyInv
  /\ FreesInv
  /\ UsableInv
  /\ Releasable
  /\ BuffersNumbered

-----------------------------------------------------------------------------
(***************************************************************************)
(* The primary bus during an iteration: what the reset has set up stays    *)
(* until the command.                                                      *)
(***************************************************************************)
\* A reset in progress ends in a fresh and idle bus.
ResetInv ==
  /\ phase[0] = "busy" => pc \in {"identify0", "identify1", "running"}
  /\ pc = "release" => phase[0] = "resetting" /\ "SRST" \in control[0]
  /\ pc = "wait_reset" /\ phase[0] = "ready" => 0 \in fresh

\* Past the wait for the reset the bus is fresh, and past the select the chosen
\* device is selected in the register as in the struct.
SelectInv ==
  /\ pc \in {"select", "command"} \/ (pc = "selecting" /\ return = "command")
       => 0 \in fresh /\ phase[0] = "ready"
  /\ pc = "command" \/ (pc = "selecting" /\ return = "command")
       => ata_device = DeviceObject(DeviceNum) /\ selected[0] = DeviceNum

IterationInv ==
  /\ TypeOK
  /\ Primary => ResetInv /\ SelectInv

-----------------------------------------------------------------------------
(***************************************************************************)
(* The steps of the controller one by one.                                 *)
(***************************************************************************)
Step ==
  \/ Create
  \/ Iterate
  \/ Destroy("idle")
  \/ Destroy("err")
  \/ CreatePciDevice
  \/ SkipSelect("select0", "ata_device0")
  \/ SkipSelect("select1", "ata_device1")
  \/ SendCommand("ata_device0", "identify0")
  \/ SendCommand("ata_device1", "identify1")
  \/ SendCommand("command", "running")
  \/ Identified(0, "identify0", "select1")
  \/ Identified(1, "identify1", "select_first")
  \/ DeviceSelect("select_first", 0, "dma")
  \/ DeviceSelect("select", DeviceNum, "command")
  \/ Selected
  \/ NoDevice
  \/ DmaEnabled
  \/ CreateDmaBuffer("dma_buffer0", "prdt")
  \/ MapDmaBuffer("prdt", "dma_buffer1")
  \/ CreateDmaBuffer("dma_buffer1", "buffer")
  \/ MapDmaBuffer("buffer", "idle")
  \/ DestroyNext
  \/ DestroyController
  \/ FreeAgain
  \/ AssertReset
  \/ ReleaseReset
  \/ WaitReset
  \/ SkipCommand
  \/ IterationEnds
  \/ \E b \in Buses : CommandDone(b)
  \/ \E b \in Buses : ResetDone(b)

\* Every step of Next is one of the steps above.
LEMMA NextIsStep == Next => Step
BY DEF Next, Step, HostStep, CreateDevices, CreateDma, IterateStep,
       DestroyStep, DeviceReset, BusStep

\* ControllerInv holds initially.
LEMMA InitControllerInv == Init => ControllerInv
<1> SUFFICES ASSUME Init PROVE ControllerInv
  OBVIOUS
<1> QED
  BY DEF Init, ControllerInv, TypeOK, PCs, Buses, DeviceNums, Resources,
         CreateInv, DestroyInv, FreesInv, UsableInv, Releasable,
         BuffersNumbered

\* Every step preserves ControllerInv.
LEMMA NextControllerInv == ControllerInv /\ [Next]_vars => ControllerInv'
<1> SUFFICES ASSUME ControllerInv, [Next]_vars PROVE ControllerInv'
  OBVIOUS
<1> USE BusNumAssumption, DeviceNumAssumption, ErrorHandlerAssumption
    DEF ControllerInv, TypeOK, PCs, Buses, DeviceNums, Resources, CreateInv,
        DestroyInv, FreesInv, UsableInv, Releasable, BuffersNumbered, Devices,
        channels
<1>1. CASE Create
  BY <1>1 DEF Create
<1>2. CASE Iterate
  BY <1>2 DEF Iterate
<1>3. CASE Destroy("idle")
  BY <1>3 DEF Destroy
<1>4. CASE Destroy("err")
  BY <1>4 DEF Destroy
<1>5. CASE CreatePciDevice
  <2>1. TypeOK'
    BY <1>5 DEF CreatePciDevice, Fail
  <2>2. CreateInv' /\ DestroyInv' /\ UsableInv'
    BY <1>5 DEF CreatePciDevice, Fail
  <2>3. FreesInv'
    BY <1>5 DEF CreatePciDevice, Fail
  <2>4. Releasable' /\ BuffersNumbered'
    BY <1>5 DEF CreatePciDevice, Fail
  <2> QED
    BY <2>1, <2>2, <2>3, <2>4
<1>6. CASE SkipSelect("select0", "ata_device0")
  BY <1>6 DEF SkipSelect
<1>7. CASE SkipSelect("select1", "ata_device1")
  BY <1>7 DEF SkipSelect
<1>8. CASE SendCommand("ata_device0", "identify0")
  BY <1>8 DEF SendCommand
<1>9. CASE SendCommand("ata_device1", "identify1")
  BY <1>9 DEF SendCommand
<1>10. CASE SendCommand("command", "running")
  BY <1>10 DEF SendCommand
<1>11. CASE Identified(0, "identify0", "select1")
  BY <1>11 DEF Identified, CommandEnded, Fail, DeviceObject
<1>12. CASE Identified(1, "identify1", "select_first")
  BY <1>12 DEF Identified, CommandEnded, Fail, DeviceObject
<1>13. CASE DeviceSelect("select_first", 0, "dma")
  BY <1>13 DEF DeviceSelect, DeviceObject
<1>14. CASE DeviceSelect("select", DeviceNum, "command")
  BY <1>14 DEF DeviceSelect, DeviceObject
<1>15. CASE Selected
  BY <1>15 DEF Selected
<1>16. CASE NoDevice
  BY <1>16 DEF NoDevice, Fail
<1>17. CASE DmaEnabled
  BY <1>17 DEF DmaEnabled
<1>18. CASE CreateDmaBuffer("dma_buffer0", "prdt")
  BY <1>18 DEF CreateDmaBuffer, Fail
<1>19. CASE MapDmaBuffer("prdt", "dma_buffer1")
  BY <1>19 DEF MapDmaBuffer, Fail
<1>20. CASE CreateDmaBuffer("dma_buffer1", "buffer")
  BY <1>20 DEF CreateDmaBuffer, Fail
<1>21. CASE MapDmaBuffer("buffer", "idle")
  BY <1>21 DEF MapDmaBuffer, Fail
<1>22. CASE DestroyNext
  <2>1. /\ pc = "destroy" /\ pc' = pc /\ step \in 1..7 /\ step' = step + 1
        /\ objects' = objects \ {DestroyOrder[step]}
        /\ UNCHANGED <<return, ata_device, frees, path, phase, selected,
                       control, fresh>>
    BY <1>22 DEF DestroyNext
  <2>2. buffer_num' = IF DestroyOrder[step] \in
                           objects \cap {"dma_buffer0", "dma_buffer1"}
                      THEN buffer_num - 1 ELSE buffer_num
    BY <1>22 DEF DestroyNext
  <2>3. CASE step = 1
    <3>1. DestroyOrder[step] = "buffer" /\ step' = 2
      BY <2>1, <2>3 DEF DestroyOrder
    <3> QED
      BY <2>1, <2>2, <2>3, <3>1
  <2>4. CASE step = 2
    <3>1. DestroyOrder[step] = "prdt" /\ step' = 3
      BY <2>1, <2>4 DEF DestroyOrder
    <3> QED
      BY <2>1, <2>2, <2>4, <3>1
  <2>5. CASE step = 3
    <3>1. DestroyOrder[step] = "dma_buffer1" /\ step' = 4
      BY <2>1, <2>5 DEF DestroyOrder
    <3> QED
      BY <2>1, <2>2, <2>5, <3>1
  <2>6. CASE step = 4
    <3>1. DestroyOrder[step] = "dma_buffer0" /\ step' = 5
      BY <2>1, <2>6 DEF DestroyOrder
    <3> QED
      BY <2>1, <2>2, <2>6, <3>1
  <2>7. CASE step = 5
    <3>1. DestroyOrder[step] = "ata_device1" /\ step' = 6
      BY <2>1, <2>7 DEF DestroyOrder
    <3> QED
      BY <2>1, <2>2, <2>7, <3>1
  <2>8. CASE step = 6
    <3>1. DestroyOrder[step] = "ata_device0" /\ step' = 7
      BY <2>1, <2>8 DEF DestroyOrder
    <3> QED
      BY <2>1, <2>2, <2>8, <3>1
  <2>9. CASE step = 7
    <3>1. DestroyOrder[step] = "pci_device" /\ step' = 8
      BY <2>1, <2>9 DEF DestroyOrder
    <3> QED
      BY <2>1, <2>2, <2>9, <3>1
  <2> QED
    BY <2>1, <2>3, <2>4, <2>5, <2>6, <2>7, <2>8, <2>9
<1>23. CASE DestroyController
  BY <1>23 DEF DestroyController
<1>24. CASE FreeAgain
  BY <1>24 DEF FreeAgain
<1>25. CASE AssertReset
  BY <1>25 DEF AssertReset
<1>26. CASE ReleaseReset
  BY <1>26 DEF ReleaseReset
<1>27. CASE WaitReset
  BY <1>27 DEF WaitReset
<1>28. CASE SkipCommand
  BY <1>28 DEF SkipCommand
<1>29. CASE IterationEnds
  BY <1>29 DEF IterationEnds, CommandEnded
<1>30. ASSUME NEW b \in Buses, CommandDone(b) PROVE ControllerInv'
  BY <1>30 DEF CommandDone, host
<1>31. ASSUME NEW b \in Buses, ResetDone(b) PROVE ControllerInv'
  BY <1>31 DEF ResetDone, host
<1>32. CASE UNCHANGED vars
  BY <1>32 DEF vars, host
<1> QED
  BY <1>1, <1>2, <1>3, <1>4, <1>5, <1>6, <1>7, <1>8, <1>9, <1>10, <1>11,
     <1>12, <1>13, <1>14, <1>15, <1>16, <1>17, <1>18, <1>19, <1>20,
     <1>21, <1>22, <1>23, <1>24, <1>25, <1>26, <1>27, <1>28, <1>29,
     <1>30, <1>31, <1>32, NextIsStep DEF Step

-----------------------------------------------------------------------------
\* IterationInv holds initially.
LEMMA InitIterationInv == Init => IterationInv
<1> SUFFICES ASSUME Init PROVE IterationInv
  OBVIOUS
<1>1. TypeOK
  BY InitControllerInv DEF ControllerInv
<1> QED
  BY <1>1
  DEF Init, IterationInv, ResetInv, SelectInv, Buses

\* Every step preserves IterationInv.
LEMMA NextIterationInv ==
  ASSUME ControllerInv, IterationInv, [Next]_vars
  PROVE  IterationInv'
<1> DEFINE NewInv == ResetInv /\ SelectInv
<1>0. TypeOK'
  BY NextControllerInv DEF ControllerInv
<1> SUFFICES ASSUME Primary PROVE NewInv'
  BY <1>0 DEF IterationInv, Primary
<1> USE BusNumAssumption, DeviceNumAssumption
    DEF Primary, IterationInv, ResetInv, SelectInv, TypeOK, PCs, Buses,
        DeviceNums, channels
<1>1. CASE Create
  BY <1>1 DEF Create
<1>2. CASE Iterate
  BY <1>2 DEF Iterate
<1>3. CASE Destroy("idle")
  BY <1>3 DEF Destroy
<1>4. CASE Destroy("err")
  BY <1>4 DEF Destroy
<1>5. CASE CreatePciDevice
  BY <1>5 DEF CreatePciDevice, Fail
<1>6. CASE SkipSelect("select0", "ata_device0")
  BY <1>6 DEF SkipSelect
<1>7. CASE SkipSelect("select1", "ata_device1")
  BY <1>7 DEF SkipSelect
<1>8. CASE SendCommand("ata_device0", "identify0")
  BY <1>8 DEF SendCommand
<1>9. CASE SendCommand("ata_device1", "identify1")
  BY <1>9 DEF SendCommand
<1>10. CASE SendCommand("command", "running")
  BY <1>10 DEF SendCommand
<1>11. CASE Identified(0, "identify0", "select1")
  BY <1>11 DEF Identified, CommandEnded, Fail, DeviceObject
<1>12. CASE Identified(1, "identify1", "select_first")
  BY <1>12 DEF Identified, CommandEnded, Fail, DeviceObject
<1>13. CASE DeviceSelect("select_first", 0, "dma")
  BY <1>13 DEF DeviceSelect, DeviceObject
<1>14. CASE DeviceSelect("select", DeviceNum, "command")
  BY <1>14 DEF DeviceSelect, DeviceObject
<1>15. CASE Selected
  BY <1>15 DEF Selected
<1>16. CASE NoDevice
  BY <1>16 DEF NoDevice, Fail
<1>17. CASE DmaEnabled
  BY <1>17 DEF DmaEnabled
<1>18. CASE CreateDmaBuffer("dma_buffer0", "prdt")
  BY <1>18 DEF CreateDmaBuffer, Fail
<1>19. CASE MapDmaBuffer("prdt", "dma_buffer1")
  BY <1>19 DEF MapDmaBuffer, Fail
<1>20. CASE CreateDmaBuffer("dma_buffer1", "buffer")
  BY <1>20 DEF CreateDmaBuffer, Fail
<1>21. CASE MapDmaBuffer("buffer", "idle")
  BY <1>21 DEF MapDmaBuffer, Fail
<1>22. CASE DestroyNext
  BY <1>22 DEF DestroyNext, DestroyOrder
<1>23. CASE DestroyController
  BY <1>23 DEF DestroyController
<1>24. CASE FreeAgain
  BY <1>24 DEF FreeAgain
<1>25. CASE AssertReset
  BY <1>25 DEF AssertReset
<1>26. CASE ReleaseReset
  BY <1>26 DEF ReleaseReset
<1>27. CASE WaitReset
  BY <1>27 DEF WaitReset
<1>28. CASE SkipCommand
  BY <1>28 DEF SkipCommand
<1>29. CASE IterationEnds
  BY <1>29 DEF IterationEnds, CommandEnded
<1>30. ASSUME NEW b \in Buses, CommandDone(b) PROVE NewInv'
  BY <1>30 DEF CommandDone, host
<1>31. ASSUME NEW b \in Buses, ResetDone(b) PROVE NewInv'
  BY <1>31 DEF ResetDone, host
<1>32. CASE UNCHANGED vars
  BY <1>32 DEF vars, host
<1> QED
  BY <1>1, <1>2, <1>3, <1>4, <1>5, <1>6, <1>7, <1>8, <1>9, <1>10, <1>11,
     <1>12, <1>13, <1>14, <1>15, <1>16, <1>17, <1>18, <1>19, <1>20,
     <1>21, <1>22, <1>23, <1>24, <1>25, <1>26, <1>27, <1>28, <1>29,
     <1>30, <1>31, <1>32, NextIsStep DEF Step

-----------------------------------------------------------------------------
\* Both invariants hold in every reachable state.
THEOREM ControllerInvariant == Spec => [](ControllerInv /\ IterationInv)
<1>1. Init => ControllerInv /\ IterationInv
  BY InitControllerInv, InitIterationInv
<1>2. ControllerInv /\ IterationInv /\ [Next]_vars =>
        (ControllerInv /\ IterationInv)'
  BY NextControllerInv, NextIterationInv
<1> QED
  BY <1>1, <1>2, PTL DEF Spec

\* Every variable stays in its type.
THEOREM TypeCorrect == Spec => []TypeOK
<1>1. ControllerInv => TypeOK
  BY DEF ControllerInv
<1> QED
  BY <1>1, ControllerInvariant, PTL

\* On the primary bus the command of an iteration reaches the device the fuzzer
\* works on, through the object of that device.
THEOREM AddressedOnPrimaryHolds == Spec => []AddressedOnPrimary
<1>1. IterationInv => AddressedOnPrimary
  BY DEF IterationInv, SelectInv, AddressedOnPrimary, CommandAddressed, Primary
<1> QED
  BY <1>1, ControllerInvariant, PTL

\* On the primary bus every command of an iteration follows a reset of its own,
\* and the bus is not busy.
THEOREM FreshOnPrimaryHolds == Spec => []FreshOnPrimary
<1>1. IterationInv => FreshOnPrimary
  BY DEF IterationInv, SelectInv, FreshOnPrimary, CommandFresh, Primary
<1> QED
  BY <1>1, ControllerInvariant, PTL

\* Wherever create fails, and however far destroy is, a mapping has its buffer
\* and a device its PCI device.
THEOREM ReleasableHolds == Spec => []Releasable
<1>1. ControllerInv => Releasable
  BY DEF ControllerInv
<1> QED
  BY <1>1, ControllerInvariant, PTL

\* A failed create and a finished destroy leave nothing behind.
THEOREM NothingLeftHolds == Spec => []NothingLeft
<1>1. ControllerInv => NothingLeft
  BY DEF ControllerInv, TypeOK, CreateInv, BuffersNumbered, NothingLeft
<1> QED
  BY <1>1, ControllerInvariant, PTL

\* Live DMA buffers have different numbers.
THEOREM BuffersNumberedHolds == Spec => []BuffersNumbered
<1>1. ControllerInv => BuffersNumbered
  BY DEF ControllerInv
<1> QED
  BY <1>1, ControllerInvariant, PTL

\* With a handler that aborts, as the program's does, the controller's memory
\* is never freed twice.
THEOREM FreedOnceHolds == Spec => [](ErrorHandler = "abort" => FreedOnce)
<1>1. ControllerInv => (ErrorHandler = "abort" => FreedOnce)
  BY DEF ControllerInv, TypeOK, FreesInv, FreedOnce
<1> QED
  BY <1>1, ControllerInvariant, PTL

-----------------------------------------------------------------------------
(***************************************************************************)
(* The controller as a user of DMA buffers.  DmaBuffer holds its callers   *)
(* to give back the newest buffer first; the controller does, on every     *)
(* path: the numbers it holds are 0 up to buffer_num, and change by one at *)
(* the end.                                                                *)
(***************************************************************************)
DmaBuffers == {"dma_buffer0", "dma_buffer1"}
Live == Cardinality(DmaBuffers \cap objects)
Pool == INSTANCE BufferPool WITH NumBuffers <- 1, held <- 0..buffer_num, live <- Live

\* The number of the newest buffer counts the live ones.
LEMMA LiveIs == ControllerInv => buffer_num \in -1..1 /\ Live = buffer_num + 1
<1> SUFFICES ASSUME ControllerInv PROVE buffer_num \in -1..1 /\ Live = buffer_num + 1
  OBVIOUS
<1>1. /\ buffer_num \in -1..1
      /\ buffer_num >= 0 <=> "dma_buffer0" \in objects
      /\ buffer_num >= 1 <=> "dma_buffer1" \in objects
  BY DEF ControllerInv, TypeOK, BuffersNumbered
<1>2. CASE buffer_num = -1
  <2>1. DmaBuffers \cap objects = {}
    BY <1>1, <1>2 DEF DmaBuffers
  <2> QED
    BY <1>2, <2>1, FS_EmptySet DEF Live
<1>3. CASE buffer_num = 0
  <2>1. DmaBuffers \cap objects = {"dma_buffer0"}
    BY <1>1, <1>3 DEF DmaBuffers
  <2> QED
    BY <1>3, <2>1, FS_Singleton DEF Live
<1>4. CASE buffer_num = 1
  <2>1. DmaBuffers \cap objects = {"dma_buffer0"} \cup {"dma_buffer1"}
    BY <1>1, <1>4 DEF DmaBuffers
  <2>2. IsFiniteSet({"dma_buffer0"}) /\ Cardinality({"dma_buffer0"}) = 1
    BY FS_Singleton
  <2>3. Cardinality({"dma_buffer0"} \cup {"dma_buffer1"}) = 2
    BY <2>2, FS_AddElement
  <2> QED
    BY <1>4, <2>1, <2>3 DEF Live
<1> QED
  BY <1>1, <1>2, <1>3, <1>4

LEMMA OneAtATime ==
  ControllerInv /\ [Next]_vars =>
    buffer_num' \in {buffer_num, buffer_num + 1, buffer_num - 1}
<1> SUFFICES ASSUME ControllerInv, [Next]_vars
             PROVE buffer_num' \in {buffer_num, buffer_num + 1, buffer_num - 1}
  OBVIOUS
<1>1. CASE CreateDevices \/ CreateDma
  BY <1>1 DEF CreateDevices, CreateDma, SkipSelect, SendCommand, Identified, CommandEnded,
              DeviceSelect, Selected, NoDevice, DmaEnabled, CreateDmaBuffer, MapDmaBuffer
<1>2. CASE Create \/ CreatePciDevice \/ DestroyStep \/ Destroy("idle")
  BY <1>2 DEF Create, CreatePciDevice, DestroyStep, Destroy, DestroyNext,
              DestroyController, FreeAgain
<1>3. CASE Iterate \/ IterateStep
  BY <1>3 DEF Iterate, IterateStep, DeviceReset, AssertReset, ReleaseReset, WaitReset,
              DeviceSelect, SendCommand, SkipCommand, IterationEnds, CommandEnded
<1>4. CASE BusStep
  BY <1>4 DEF BusStep, CommandDone, ResetDone, host
<1>5. CASE UNCHANGED vars
  BY <1>5 DEF vars, host
<1> QED
  BY <1>1, <1>2, <1>3, <1>4, <1>5 DEF Next, HostStep

\* Whatever call of the creation fails and however often controllers come and go,
\* create and destroy use dma_buffer.c as it may be used: each buffer gets the
\* next number, and the newest is given back first.
THEOREM UsesPool == Spec => Pool!Spec
<1>1. Init => Pool!Init
  <2> SUFFICES ASSUME Init PROVE Pool!Init
    OBVIOUS
  <2>1. buffer_num = -1 /\ Live = 0
    BY InitControllerInv, LiveIs DEF Init
  <2> QED
    BY <2>1 DEF Pool!Init
<1>2. ControllerInv => buffer_num \in -1..1 /\ Live = buffer_num + 1
  BY LiveIs
<1>3. (ControllerInv => buffer_num \in -1..1 /\ Live = buffer_num + 1)'
  BY <1>2, PTL
<1>4. ControllerInv /\ ControllerInv' /\ [Next]_vars => [Pool!Next]_<<0..buffer_num, Live>>
  <2> SUFFICES ASSUME ControllerInv, ControllerInv', [Next]_vars
               PROVE Pool!Next \/ UNCHANGED <<0..buffer_num, Live>>
    OBVIOUS
  <2>1. /\ buffer_num \in -1..1 /\ buffer_num' \in -1..1
        /\ Live = buffer_num + 1 /\ Live' = buffer_num' + 1
    BY <1>2, <1>3
  <2>2. CASE buffer_num' = buffer_num
    BY <2>1, <2>2
  <2>3. CASE buffer_num' = buffer_num + 1
    <3>1. /\ buffer_num' \in 0..1 /\ buffer_num' \notin 0..buffer_num
          /\ 0..buffer_num' = (0..buffer_num) \cup {buffer_num'}
      BY <2>1, <2>3
    <3>2. Pool!Take(buffer_num')
      BY <2>1, <2>3, <3>1 DEF Pool!Take
    <3> QED
      BY <3>1, <3>2 DEF Pool!Next
  <2>4. CASE buffer_num' = buffer_num - 1
    <3>1. /\ buffer_num \in 0..1 /\ buffer_num \in 0..buffer_num
          /\ 0..buffer_num' = (0..buffer_num) \ {buffer_num}
      BY <2>1, <2>4
    <3>2. Pool!Give(buffer_num)
      BY <2>1, <2>4, <3>1 DEF Pool!Give
    <3> QED
      BY <3>1, <3>2 DEF Pool!Next
  <2> QED
    BY <2>2, <2>3, <2>4, OneAtATime
<1> QED
  BY <1>1, <1>4, ControllerInvariant, PTL DEF Spec, Pool!Spec
=============================================================================
