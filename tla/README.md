# atafuzzer, modelled in TLA+

atafuzzer drives an ATA/IDE controller from user space: it resets the devices,
selects one, and sends it a command derived from random or given input, over
and over.  It is one thread against a piece of hardware (usually a hypervisor's
model of it) that moves on its own between any two register accesses, and that
the fuzzer wants to upset.  This directory models that program, checks the
models with TLC and proves their safety properties with TLAPS.

Paths below are relative to the repository (`src/lib/ata_device.c` and so on).

## Inventory

| Part | Source | State it keeps | Operations |
|---|---|---|---|
| Command protocols | `ata_device.c`, `ata.h` | `status`, `error`, the deadline of a command; in hardware the Device Control register, the phase of the device, the bus master | non-data, PIO data-in, PIO data-out, DMA, software reset |
| Task file | `ata_device.c` | two-deep copies of the Features, Sector Count, LBA and Device registers | the setters, and the 25 wrappers that call them |
| Controller | `ata_controller.c` | the PCI device, two device objects, the selected one, two DMA buffers and their mappings | create, destroy, reset, select, one wrapper per command |
| Descriptor table | `ata_controller.c`, `bus_master.h` | the table in the first DMA buffer | prepare before every DMA command |
| DMA buffers | `dma_buffer.c` | the static `buffer_num`, a file and a size per buffer | create, destroy, map, unmap |
| PCI device | `pci_device.c`, `pci.h`, `io.h` | up to six regions | size the base address registers, map, read, write |
| Input | `input.c` | a stream | derive a number, read numbers and strings |
| Fuzzer | `ata_fuzzer.c` | the controller, `device_num`, the log | iterate |
| Main | `main.c` | options | parse, create, iterate once or for ever, destroy |

How they interact: `main` creates a controller and a fuzzer; `ata_fuzzer_iterate`
calls the controller's reset and select, reads its input and calls one wrapper
of the controller; a DMA wrapper prepares the descriptor table and the
direction of the bus master; every wrapper calls the wrapper of the selected
`ata_device`, which fills the task file and runs a protocol; the protocols
reach the hardware through `pci_device_region_read*/write*`.  Errors go to one
handler per component; `main` installs handlers that abort the process.

What is hard in it:

- the device moves between two register accesses, so a status that was read is
  old when it is used, and a timeout can race the completion of the command;
- a command that fails half way must leave the bus master stopped, SRST
  released and the status for the caller, or the next command starts on a
  device that is not ready (no command function looks first);
- the waits of reset and select have no timeout;
- creation can fail at each of eight calls, and its error path has to release
  exactly what exists;
- selection is kept twice, in the Device register and in the member
  `ata_device`; a reset changes one of them only;
- the descriptor table is cut at 64 KiB boundaries in 16-bit and 32-bit fields;
- register setters write two-deep registers whose order of writes matters;
- a DMA buffer takes its number and its descriptor before the steps that can
  fail, and its release has to give back exactly these;
- base address registers take one or two registers each, and sizing them
  overwrites them for a moment;
- four variables of `main.c` have the same name, and an iteration aborts the
  program when its input ends early.

What makes each part correct:

- protocols: a command is written only to a ready device, blocks are moved only
  when the device asks, the result is what the device did, everything is
  quiescent afterwards, and a command returns;
- controller: commands reach the chosen and freshly reset device; nothing is
  leaked, freed twice or released too early;
- table: contiguous, complete, within boundaries, its end marked;
- task file: what the device reads is what the wrapper was given, and the
  selected device stays selected;
- DMA buffers: a live buffer has a device of its own, and its descriptor refers
  to it; no other file is closed;
- PCI device: an access stays within a region, regions are what the hardware
  decodes, and sizing leaves the registers as they were;
- input: a derived number lies in its range, and an iteration's input is never
  longer than what is generated for it;
- main: a stream that is used is open, and a single iteration ends.

## Modules

`AtaDevice` models the four command functions and the software reset of
`ata_device.c`.  One action is one register access of the host (`Poll` is one
read of the Status register with the branch it leads to), and the device takes
its own steps in between.  Two things are coarser: the 256 words of a block are
one step (`Transfer`), and a turn of the loop that waits for the end of a reset
is no step while it reads BSY, since it changes nothing (`WaitReset`).

- Host state: `pc`, `proto`, `status`, `error`, `result` and `blocks` (the
  loop's `i`, in blocks of 256 words) are the variables of the code;
  `deadline` is "expired" from the moment the clock test came out true; `after`
  tells a reset on a timeout from the one at label `err`.
- Channel state: the `phase` of the device, the `flags` it ended the command
  with, the blocks it `demand`s and those `pending`, its Error register, the
  Device Control register and the Bus Master IDE Command register.
- A status is the set of its bits.  While BSY is set, the other bits read as
  anything.
- The clock is a choice: the test may come out true in any turn of the loop.
- `RoguePhases` makes the device hostile: it may jump to any of those phases
  with any flags at any time.  With `{}` it follows the protocol.

The four command functions are the same but for the steps they are made of, so
they share actions, which are mapped to the lines of `ata_device_command_dma`,
and `CommandNonData`, `CommandPioDataIn`, `CommandPioDataOut` and `CommandDma`
say which steps each has.

`AtaCommand` is the abstract specification of a command: a call that has the
device work once and tells how that ended, unless it was given up.
`AtaDevice` implements it (`ImplementsCommand`, with the mapping `CallState`,
`CallDevice`, `CallVerdict`).  This is the view of a command that
`AtaController` has.

`AtaController` models creation, destruction, reset, select and the iteration
of the fuzzer.  `objects` is the set of members of the struct that are not
`NULL`; `DestroyNext` releases them one by one in the order of the code.  There
are two buses, because reset and select use the registers of the primary bus
whatever the bus of the controller is.  A command is sent, waited for and ended
(`SendCommand`, `CommandDone`, `CommandEnded`); a failed one ends with a software
reset of its bus, which selects device 0.  Failures of any call are a choice.
The two selects before both objects exist are the early return of the code
(`SkipSelect`).

`Prdt` models `ata_controller_prepare_prdt`, one turn of its loop per action.
The parameters stand for 64 KiB, 2^32, 2^64, the entries of the table and the
largest count; `base` is any 64-bit address, `Truncate` its assignment to 32 bits,
`Wrap` the 32-bit sum, `% Boundary` the 16-bit field, and `reserved` is the set of
its bits, so that bit 16 is lost when it is stored.  Nothing clears the table: it
begins with anything (`Leftovers`) and keeps what earlier commands left.  `Size`
and `IsLast` are how a bus master reads a descriptor.  `MCPrdt` gives the memory
of the table two contents, one with the mark of a last descriptor.

`AtaTaskfile` models the setters of `ata_device.c` and what each wrapper calls
before it enters its protocol.  `Setup` is the list of register writes of a
request, in order; `WriteRegister` and `WriteDevice` make them one by one, and a
register keeps the content before the last as `previous`, which is what 48-bit
commands read.  Between commands a device leaves registers alone or leaves
something in them (but for the Features register, which only the host writes), or
a software reset puts its signature there and selects
device 0; selects come in between.  Wrappers that call the same setters are one
kind.  `MCAtaTaskfile` gives it arguments whose bytes differ.

`DmaBuffer` models `dma_buffer.c` against the descriptors of the process.  `pc`
is the step of `dma_buffer_create`, each with its failure and the way through
label `err`; `files` says what each descriptor refers to, and the rest of the
process opens and closes files of its own between calls.  Descriptor 0 is the
content `calloc` leaves in the member `fd`.  The sizes and addresses read from
`/sys` decide only between `CheckFails` and `Created`.  `BufferPool` is what a
caller relies on: devices handed out and given back, none twice.  `DmaBuffer`
implements it (`ImplementsPool`, `held` being the numbers of live buffers)
because buffers are released last-in first-out, as the controller does.

`PciDevice` models `pci_device.c` from the header type on: each turn of the
sizing loop saves a register, writes ones, reads it back (`SizeBar`) and restores
it (`Restore*`), and goes on to the next register when the first is the lower
half of a 64-bit one (`SizeUpper`, `RestoreUpper`).  The accesses to one register
between two of its writes are one step, since nothing else accesses the device;
what the device decodes in between is `decodes`, which `SetDecoding` would change
if the code wrote to the command register.  Numbers are below `Half`, which stands
for 2^32; `size` keeps the lower half of the code's variable, the upper being all
ones from the start, so that what `SizeUpper` reads back has no effect.  `Half` is
a multiple of 1024, as 2^32 is, so that every size below it divides it.  `compat`
stands for an ATA controller in compatibility mode, whose empty registers get
fixed ports.  `Touched` is what the access functions of a region reach.

The hardware is a register that stores some of the bits written to it (`Stored`).
Its kinds: nothing, ports, ports of which 16 bits are decoded (`short`), 32-bit
memory, and 64-bit memory of less than 4 GiB (`lo` and `hi`), of 4 GiB (`wide` and
`hi`) and of more (`wide` and `top`).  `Decoded` is how much of it a BAR decodes.

`Input` has the arithmetic of `input.c`: a word of `WordBits` bits is rounded to
`MantissaBits` when it becomes a double, to nearest and then to even; `end + 1`
wraps as an integer; the product and the sum are rounded again; and the division
by `(double)UINT64_MAX` is exact because that is a power of two.  Its assumptions
admit the 64 and 53 bits of the program, so its theorems hold for them; TLC runs
it with small ones.

`Main` models `main.c` and the part of `ata_fuzzer_iterate` that reads.  Each of
the 25 cases is known by what it reads; an input is the number of its bytes,
and reading beyond it aborts, as `input.c` does.  The case is derived from a word
(`DerivedCase`, which is `DeriveRange` with the range of the code).  `log` is the outer variable
`stream` and `source` the inner one; a file named on the command line is opened
into a third that nothing reads.  Controller and command are single steps here.
The error handler of `main.c` aborts, so a failed creation never returns.

The modules `*Proofs` hold the theorems.

## Runs

| Run | Bounds | What it shows |
|---|---|---|
| `device_conforming` | two blocks per PIO command | safety of the protocols with a device that follows them, the refinement of `AtaCommand`, and that commands return |
| `device_rogue` | one block; any phase at any time | what holds whatever the device does |
| `prdt` | boundary 3, 32-bit addresses 0..11, physical ones 0..23, table of 3, counts to 8, two contents of the memory | the table |
| `controller` | primary bus, device 1, a handler that returns | the controller through every failure, and that it comes to its ends |
| `taskfile` | two feature codes, counts and LBAs, one leftover | that each command finds its address and its count in the registers |
| `dma_buffer` | devices 0 to 2, descriptors 0 to 5 | descriptors and devices through every failure, and the refinement of `BufferPool` |
| `pci_device` | `Half` 2048, six registers of any of eight kinds | sizing and accesses |
| `main` | words of 6 bits, 5 of precision; counts to 3; inputs to 33 bytes | every way through the program |
| `finding_*` | as above | see Findings |

Why the bounds are enough.  Commands follow one another without end in every
run, so each starts from what any other has left.  Two blocks give a first, a
middle and a last turn of a transfer; the rogue device needs only one, because
it can offer it again.  The `prdt` numbers give bases off and on a boundary,
pieces shorter than, equal to and longer than a boundary's worth, transfers
that fill the table, ones that do not fit, a sum that wraps, and buffers below,
across and beyond the end of the 32-bit addresses.  Device 1 is
the case in which the select after a reset matters.  A handler that returns is
the one that lets the error path run.  The arguments of `taskfile` are one LBA
and one count with all bytes different, so that a byte in the wrong place shows,
and one of each with bytes at the ends of their range; a 28-bit LBA has bits to
drop in its fourth byte.  Three devices and six descriptors let a creation over
the limit close standard input and a later buffer get that descriptor.  `Half`
leaves room for registers of different sizes at different addresses, and for ports
beyond the 1024 that stand for 16 bits of address; all arrangements are tried, so
that the loop also runs beyond the last of them by up to three registers.  Of the
registers there the first two read as fixed values that look like ports.  In `main`, one bit less of
precision than the words have is enough to round the largest word up; the longest
input of any case (8 bytes for the case, 18 of arguments, 6 of data) is 32.

Deadlock is checked in all runs.

### Fairness

`HostFairness` says that the thread keeps running, and that the clock test of
the loop comes out true if it is evaluated for ever (strong fairness of
`TimeOut`: `clock()` counts processor time, and the loop burns it).  Nothing
in the code makes a device finish a reset, and the wait for it has no timeout:
`CommandReturns` needs the assumption, made in `FairSpec` and only there, that
it does: without it, a command that ran into the timeout may wait for ever in the
reset that follows.  In `AtaController` the devices are assumed to finish commands (a command returns, by `CommandReturns`) and
resets.

`FairSpec` of `Main` says that the process keeps running (weak fairness of
`Step`, which is every step but the stuttering of an ended process), and that a
command returns, which is a step of it.  Nothing else is needed: `SingleRunEnds`
has no loop to get out of.

## Findings

Disagreements between the code and its own documentation, each with a run that
shows a counterexample:

- `finding_timeout`: a command that ran into the timeout returns 0 when the
  status read last has neither DF nor ERR, although commands are documented to
  return -1 on failure.
- `finding_identify`: the select before each IDENTIFY DEVICE of the creation
  does nothing, so device 1 may be identified by device 0.
- `finding_range`: the largest words round to 1.0 as doubles, so that a range
  documented as [begin,end] can give end + 1; the fuzzer then aborts on case 25.
  `WordsBeyond` proves which words these are, for a range that begins with 0: the
  1024 greatest of 2^64.
- `finding_input`: a file named on the command line, documented as `[INPUT]`, is
  opened into a variable that hides the one that is read: standard input is read,
  and the file is neither read nor closed.

Met on the way, without a run of their own; where a theorem is named, it proves
the disagreement for every value of the constants:

- the mark of the last descriptor ("Is the last PRD?", `ata_controller.c:436`) is
  bit 16 of a 16-bit field, and no step ever sets it (`NoneMarked`);
- the physical address of a buffer is 64 bits wide and is assigned to 32 without a
  check (`ata_controller.c:426`), so a buffer that does not end below 4 GiB is not
  what the table describes: descriptors hold 32-bit addresses.  That is why
  `Contiguous` and `CoversCount` are modulo 2^32, and why `TransferComplete` has
  the end of the buffer among its hypotheses.  The address of the table itself is
  cut in the same way (`ata_controller.c:73`);
- the upper register of a 64-bit BAR cannot "extend the current size"
  (`pci_device.c:331`), whose upper half is ones since line 276: of a region of more
  than 4 GiB, 4 GiB are found.  `RegionExact` says exactly this of them;
- a region of ports whose register holds only 16 bits of the address (`short`) gets
  a size of nearly 4 GiB, because 32 bits are complemented (`pci_device.c:317`);
  `RegionExact` leaves the size of these open, and `AccessInside` is not about them;
- decoding is not disabled while registers are sized, as a comment says
  (`pci_device.c:267`): the command register is looked for at offset 2
  (`DecodesThroughout`);
- `--timeout`, "for each iteration" (`main.c:46`), does not bound one: the reset
  after a timeout waits without a bound for a device that need not finish it;
- the subcommand code of SET FEATURES is written to the Sector Count register
  (`ata_device.c:521`) and overwritten there; the Features register never changes
  (`FeaturesUntouchedHolds`);
- the error path of `ata_controller_create` frees the controller twice, under a
  handler that returns (`FreedOnceHolds` proves that it does not under one that
  aborts, as `main.c` installs);
- on the secondary bus reset and select go to the primary bus, which is why
  `AddressedOnPrimary` and `FreshOnPrimary` speak of the primary one;
- a range that does not begin at 0 reaches up to begin + end + 1, and the rounding
  of the sum lets more words than the greatest get there; nothing calls the
  functions that derive such ranges;
- `--bus-num` and `--device-num` are documented, but no options of these names are
  in `longopts`;
- a mapping is unmapped at its base address and not where it is mapped; the
  direction bit of the bus master is not reset where a comment says so.

## Proofs

Each theorem holds for every value of the constants that the assumptions of
the module allow.

`AtaDeviceProofs` goes in two stages.

- `HostInv` holds whatever the device does.  `Quiescent` is not inductive: one
  has to know that a running bus master has a stop ahead of it on every path
  (`BusMasterInv`), that SRST is set only between the two writes of a reset
  (`ControlInv`), and that the failing bits survive from `CheckFault` or
  `CheckError` to the return (`StatusInv`).
- `ConformingInv` adds, for `RoguePhases = {}`, where the device can be at each
  step of the host (`PhaseInv`), that blocks moved and blocks pending make up
  the demand (`CountInv`), that a device error stays in the Error register
  until it is read (`ErrorInv`) and that the status tested is the status the
  command ended with (`EndInv`).  `CommandWhenReady`, `TransferWhenAsked`,
  `StatusCurrent`, `ResultHonest` and `ErrorFromCommand` follow.

`Implements` proves from `ConformingInv` that every step of `AtaDevice` is a step
of `AtaCommand` or a stutter, under `Conforming`.

`PrdtProofs` proves `PrdtInv`: during the loop, the next address and the bytes
left always add up to the end of the transfer, modulo the 32-bit addresses
(`RestInv`), and the entries written so far are a chain (`ChainInv`) within boundaries (`BoundaryInv`).  The
arithmetic of one piece is in `PieceFacts`, that of the stored count in
`StoredCount`.  It holds for every 64-bit base, contiguity and coverage being those
of 32-bit addresses; only `TransferComplete` asks that the buffer ends below 4 GiB,
since the descriptors cannot name memory beyond.

`CoversCount` lets a full table end the transfer early.  `TransferComplete` says
when it does not: descriptor k begins at the k-th boundary after the base
(`StrideInv`, with `NextBoundary` for the step), so what is left always fits the
entries that are left (`FullInv`) if the transfer spans no more boundaries than
the table has entries.  For the 64 KiB of the second buffer two are enough.

`AtaControllerProofs` proves `ControllerInv`: which objects exist at each step of
the creation (`CreateInv`) and of the destruction (`DestroyInv`), and that no
iteration runs without both devices (`UsableInv`); and `IterationInv`, that on
the primary bus what the reset established lasts until the command.
`UsesPool` joins it to the buffers: the controller, seen through `buffer_num` and
its live buffers (`LiveIs`), takes and gives back numbers as `BufferPool` allows,
one at a time and the newest first (`OneAtATime`).  This is the order that
`DmaBuffer` holds its callers to, so both sides of the interface are proved.

`AtaTaskfileProofs` proves that at every moment of a wrapper, the last write to a
register that is still to come, or its content if none is, is what the command
needs (`LastIs`), and for 48-bit commands the last two (`LastTwoAre`).  A write
preserves both whatever it writes (`LastKept`, `LastTwoKept`), so that all that
is left is to look at the list each wrapper makes (`CallInv`).  `FeaturesUntouchedHolds` rests
on the type of these writes alone.

`DmaBufferProofs` proves `DmaInv`: live buffers are numbered 0 up to
`buffer_num` (`NumberInv`), and each owns its descriptor (`LiveInv`), the one
being created included unless it is over the limit (`FreshInv`).  `OwnFile`
alone is not inductive: a close must not hit another buffer's descriptor, and it
does not because two buffers have two numbers and a descriptor refers to one
device.  The devices handed out are then an interval (`HeldIsPrefix`) that
grows or shrinks by one at its end (`StackStep`), a step of `BufferPool`.

`PciDeviceProofs` proves `PciInv`: the registers are as before but for the one
that is sized, whose content `base` has kept (`ConfigInv`), and the loop never
gets beyond the registers the device has (`TurnInv`: after the BARs, one register
a turn).  Restoring works because what a register holds is what it stores when
that is written to it (`StoredAgain`).

`RegionExact` needs `RegionInv`: the register of a turn is the first register of
its region (`LayoutInv`), and the regions of the turns before are exact
(`DoneInv`).  `First` finds the register of region n by counting the registers
that begin a region; instead of an induction over that count, `OrderNext` says
that the next such register has the next number and `OrderStrict` that no two
have the same one, both from the cardinalities of the sets counted, so the
register of a turn is the one `First` finds (`FirstIs`).  `IoExact` and
`MemoryExact` are the arithmetic of one register: writing ones and
complementing what comes back gives the size.  `AccessInside` follows
(`InsideAt`), and `AnyAccessInside` for every offset and not only the ones the
run tries.  The size of a region is exact up to 2^32, and that of ports if the
register holds more than 16 bits of the address; Findings says why.
`DecodesThroughout` needs no invariant: no step writes the command register.

`InputProofs` is about the arithmetic of `input.c`, and has no state.  The
library's induction cannot be instantiated, so powers of two are reasoned about
in two ways: `Induction` states induction for a set of naturals, from the
well-foundedness of the order, and `PowerCounts` says that 2^n is the number of
subsets of 1..n, from which `PowerDoubles`, `PowerAdds` and `PowerMonotone`
follow.  `SpacingIs` then finds the distance between doubles at a word,
`ToDoubleBound` and `SpacingTop` bound the rounding, and `TopWords` says which
words it takes to the greatest double.  `RangeBounds` is about ranges whose numbers
a double can hold, begin + end + 1 being at most 2^53, and follows because rounding
is monotone and leaves such numbers alone; `WordsBeyond` is about those of them
that begin with 0, as the one the fuzzer dispatches on does.

`MainProofs` proves `MainInv`: the bytes left at each step of an iteration on
generated input (`BudgetInv`, with `ArgumentsBound` for the 25 cases) and the
streams that are open at each step of `main` (`StreamInv`).  The types of `Main`
need `RangeBounds` for the derived command and `ReadTyped` for the bytes left.
`BeyondCases` says for which words the default case aborts the program.

Only model-checked: the four liveness properties (`CommandReturns`,
`IterationReturns`, `CreateReturns`, `SingleRunEnds`), which rest on fairness, and
what the findings refute.  Every other property of a run has its theorem.

## Not modelled

- The data that is transferred, and the text of the log and of error messages.
- In `input.c`, the booleans, floats, Fermat and Mersenne numbers: nothing in
  the repository calls them.
- `lib/error.c` (a vendored substitute for a library function), the port
  instructions of `io.h`, and the build: nothing here changes state that the
  rest depends on.
- The sizes of PIO buffers: the loops have no bound but the device, as a comment
  in the code says on purpose; `MaxBlocks` stands for it in the model.
- The time a device may take before it sets BSY: it is set with the write of the
  command or of the reset.
- Conversions of a double that an `unsigned long` cannot hold (a range that reaches
  2^64), which C leaves undefined.
- What `munmap` does when it is given the base address of a region, and a failed
  `calloc`.
- Regions of a device that is not one of the kinds of `Hardware`: registers
  after the last BAR that look like memory or like a 64-bit BAR.

## Plan

Done: `AtaDevice`, `AtaCommand`, `Prdt`, `AtaController`, then `AtaTaskfile`,
`DmaBuffer` with `BufferPool`, `PciDevice`, `Input` and `Main`, all with proofs.

Left: iterations of `AtaController` with the commands of `AtaCommand` in place of
its own wait, which needs the result of a command as a variable of the
controller's module.
