-------------------------------- MODULE Main --------------------------------
(***************************************************************************)
(* The program: src/src/main.c, with the iteration of src/src/lib/         *)
(* ata_fuzzer.c that reads its input and dispatches on it.  The controller *)
(* is created, used and destroyed in single steps here; AtaController has  *)
(* theirs.  main.c installs error handlers that abort the process.         *)
(*                                                                         *)
(* An input is the number of its bytes; the words derived from it are a    *)
(* choice.                                                                 *)
(***************************************************************************)
EXTENDS Input

CONSTANTS
  MaxCount,   \* UINT16_MAX, the largest count of words of data
  MaxStdin    \* bound: the most bytes standard input has

ASSUME MaxCountAssumption == MaxCount \in Nat
ASSUME MaxStdinAssumption == MaxStdin \in Nat
\* A double holds the number of cases.
ASSUME CasesAssumption == 25 <= 2^MantissaBits

-----------------------------------------------------------------------------
(***************************************************************************)
(* ata_fuzzer_iterate: the 25 cases, by what they read.                    *)
(***************************************************************************)
Cases == 0..24
DerivedCase == [word \in Words |-> DeriveRange(word, 0, 24)]
Dma == {4, 5, 15, 16}                    \* nothing without DMA
ReadsCode == {13, 21, 22}
ReadsSpecific == {13}
ReadsSectors == (4..11) \cup (14..21)    \* by input_derive_range
ReadsLba32 == {4, 6, 8, 10, 12, 15, 17, 19}
ReadsLba64 == {5, 7, 9, 11, 16, 18, 20}
ReadsCount == (4..9) \cup (15..21) \cup {23, 24}
ReadsData == (17..21) \cup {24}          \* count words of 16 bits

\* The bytes of a case before its data.
ArgumentBytes(c) ==
  LET Bytes(cases, n) == IF c \in cases THEN n ELSE 0
  IN Bytes(ReadsCode, 1) + Bytes(ReadsSpecific, 4) + Bytes(ReadsSectors, 8)
       + Bytes(ReadsLba32, 4) + Bytes(ReadsLba64, 8) + Bytes(ReadsCount, 2)

DataBytes(c, count) == IF c \in ReadsData THEN 2 * count ELSE 0

\* ATA_FUZZER_MAX_INPUT.
MaxInputShort == 18 + 2 * MaxCount
MaxInput == 26 + 2 * MaxCount

-----------------------------------------------------------------------------
Streams == {"stdin", "stdout", "output", "input", "memory"}

VARIABLES
  pc,          \* the next step; "ended" when the process has
  status,      \* how it ended
  generate,    \* option -g
  open,        \* the streams that are open
  log,         \* the variable stream of main: where the log goes
  source,      \* the variable stream inside: what an iteration reads
  left,        \* the bytes left in it
  dma_enabled, \* of the controller
  command,     \* the case of the iteration
  count        \* and its count

vars == <<pc, status, generate, open, log, source, left, dma_enabled, command, count>>
options == <<generate, log>>
iteration == <<source, left, command, count>>

Ended == pc = "ended"

TypeOK ==
  /\ pc \in {"parse", "open", "controller", "fuzzer", "input", "iterate", "arguments",
             "data", "perform", "close", "finish", "err", "ended"}
  /\ status \in {"running", "success", "failure", "abort", "starved"}
  /\ generate \in BOOLEAN /\ dma_enabled \in BOOLEAN
  /\ open \subseteq Streams
  /\ log \in {"stdout", "output"} /\ source \in {"stdin", "memory"}
  /\ left \in 0..MaxInput + MaxStdin
  /\ command \in 0..25 /\ count \in 0..MaxCount

Init ==
  /\ pc = "parse" /\ status = "running" /\ generate = FALSE
  /\ open = {"stdin", "stdout"} /\ log = "stdout" /\ source = "stdin" /\ left = 0
  /\ dma_enabled = FALSE /\ command = 0 /\ count = 0

Goto(step) == pc' = step /\ UNCHANGED status
End(s) == pc' = "ended" /\ status' = s

-----------------------------------------------------------------------------
(***************************************************************************)
(* main.                                                                   *)
(***************************************************************************)
Parse ==
  /\ pc = "parse"
  /\ \/ /\ generate' \in BOOLEAN /\ log' \in {"stdout", "output"}
        /\ Goto("open")
     \/ End("failure") /\ UNCHANGED options    \* help, version, a bad option
  /\ UNCHANGED <<open, dma_enabled, iteration>>

\* The output file is opened; iopl may fail after that.
OpenOutput ==
  /\ pc = "open"
  /\ \/ Goto("controller") /\ open' = open \cup {log}
     \/ End("failure") /\ open' \in {open, open \cup {log}}
  /\ UNCHANGED <<options, dma_enabled, iteration>>

\* ata_controller_create: a failure ends in the error handler.
CreateController ==
  /\ pc = "controller"
  /\ \/ Goto("fuzzer") /\ dma_enabled' \in BOOLEAN
     \/ End("abort") /\ UNCHANGED dma_enabled
  /\ UNCHANGED <<options, open, iteration>>

\* ata_fuzzer_create: so does this one.
CreateFuzzer ==
  /\ pc = "fuzzer"
  /\ Goto("input") \/ End("abort")
  /\ UNCHANGED <<options, open, dma_enabled, iteration>>

\* The generate loop: random_buf, and fmemopen on what it filled.
GenerateInput ==
  /\ pc = "input" /\ generate
  /\ \/ /\ Goto("iterate")
        /\ open' = open \cup {"memory"} /\ source' = "memory" /\ left' = MaxInput
     \/ Goto("err") /\ UNCHANGED <<open, source, left>>
  /\ UNCHANGED <<options, dma_enabled, command, count>>

\* The single iteration.  A file named on the command line is opened, but into
\* a variable of its block: standard input is what is read.
OpenInput ==
  /\ pc = "input" /\ ~generate
  /\ \/ /\ Goto("iterate")
        /\ open' \in {open, open \cup {"input"}}
        /\ source' = "stdin" /\ left' \in 0..MaxStdin
     \/ End("failure") /\ UNCHANGED <<open, source, left>>
  /\ UNCHANGED <<options, dma_enabled, command, count>>

\* fclose of the inner stream.
CloseInputOuter ==
  /\ pc = "close"
  /\ open' = open \ {log}
  /\ Goto(IF generate THEN "input" ELSE "finish")
  /\ UNCHANGED <<options, dma_enabled, iteration>>
CloseInputAgain ==
  /\ pc = "close"
  /\ open' = open \ {source}
  /\ Goto("input")
  /\ UNCHANGED <<options, dma_enabled, iteration>>
CloseInput ==
  /\ pc = "close"
  /\ open' = open \ {source}
  /\ Goto(IF generate THEN "input" ELSE "finish")
  /\ UNCHANGED <<options, dma_enabled, iteration>>

\* Fuzzer and controller are destroyed, the outer stream is closed.
Finish ==
  /\ \/ pc = "finish" /\ End("success")
     \/ pc = "err" /\ End("failure")
  /\ open' = open \ {log}
  /\ UNCHANGED <<options, dma_enabled, iteration>>

-----------------------------------------------------------------------------
(***************************************************************************)
(* ata_fuzzer_iterate.  A read beyond the end of the input aborts.         *)
(***************************************************************************)
ReadUnchecked(bytes) == left' = left - bytes
Read(bytes) == left >= bytes /\ left' = left - bytes
Starve(bytes) ==
  left < bytes /\ End("starved") /\ UNCHANGED <<left, command, count>>

\* Reset and select, and the case is derived.  A DMA case without DMA returns;
\* a number beyond the cases aborts.
Dispatch ==
  /\ pc = "iterate"
  /\ \/ Starve(8)
     \/ \E word \in Words :
          /\ Read(8)
          /\ command' = DerivedCase[word]
          /\ IF command' \notin Cases THEN End("abort")
             ELSE IF command' \in Dma /\ ~dma_enabled THEN Goto("close")
             ELSE Goto("arguments")
          /\ UNCHANGED count
  /\ UNCHANGED <<options, open, dma_enabled, source>>

ReadArguments ==
  /\ pc = "arguments"
  /\ \/ Starve(ArgumentBytes(command))
     \/ /\ Read(ArgumentBytes(command))
        /\ count' \in IF command \in ReadsCount THEN 0..MaxCount ELSE {0}
        /\ Goto("data") /\ UNCHANGED command
  /\ UNCHANGED <<options, open, dma_enabled, source>>

ReadData ==
  /\ pc = "data"
  /\ \/ Starve(DataBytes(command, count))
     \/ /\ Read(DataBytes(command, count))
        /\ Goto("perform") /\ UNCHANGED <<command, count>>
  /\ UNCHANGED <<options, open, dma_enabled, source>>

\* The command is logged and sent to the device.
Perform ==
  /\ pc = "perform"
  /\ Goto("close")
  /\ UNCHANGED <<options, open, dma_enabled, iteration>>

Iterate == Dispatch \/ ReadArguments \/ ReadData \/ Perform

Step ==
  \/ Parse \/ OpenOutput \/ CreateController \/ CreateFuzzer
  \/ GenerateInput \/ OpenInput \/ CloseInput \/ Finish \/ Iterate

\* The process has ended.
Stay == Ended /\ UNCHANGED vars

Next == Step \/ Stay

Spec == Init /\ [][Next]_vars

\* The process runs, and a command returns.
FairSpec == Spec /\ WF_vars(Step)

-----------------------------------------------------------------------------
\* What the generate loop fills is enough for every case with every count: the
\* loop is never ended by the end of its input.
InputSuffices == generate => status # "starved"

Iterating == pc \in {"iterate", "arguments", "data", "perform", "close"}

\* Four variables of main.c are called stream.  Whichever of them a statement
\* means, what is read, logged to or closed is open, and the generate loop
\* keeps nothing open but the stream of the iteration it is in.
StreamsUsable ==
  /\ Iterating => {log, source} \subseteq open
  /\ pc \in {"finish", "err"} => log \in open
  /\ generate /\ ~Ended =>
       open \subseteq {"stdin", "stdout", log} \cup (IF Iterating THEN {source} ELSE {})

\* Without -g the program performs one iteration and ends, unless it is aborted.
SingleRunEnds == pc = "input" /\ ~generate ~> Ended

\* input.h on input_derive_range: the result is in the range [begin,end].
RangeRespected == command \in Cases

\* main.c:26, "Usage: %s [OPTION]... [INPUT]": an input file that is named and
\* opened is what the iteration reads.
InputIsRead == Iterating /\ "input" \in open => source = "input"
=============================================================================
