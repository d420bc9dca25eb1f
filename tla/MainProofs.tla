----------------------------- MODULE MainProofs -----------------------------
(***************************************************************************)
(* Proofs about Main: the generated input is long enough and the streams   *)
(* are open when they are used, whatever the largest count is and however  *)
(* the numbers are derived from the input.                                 *)
(***************************************************************************)
EXTENDS Main, InputProofs

\* The bytes a generated input still has to have at each step.
BudgetInv ==
  /\ pc \in {"parse", "open", "controller", "fuzzer", "input", "iterate", "arguments",
             "data", "perform", "close", "finish", "err", "ended"}
  /\ pc # "ended" => status = "running"
  /\ status # "starved" \/ ~generate
  /\ pc \in {"arguments", "data"} => command \in Cases
  /\ count \in 0..MaxCount
  /\ generate /\ pc = "iterate" => left = MaxInput
  /\ generate /\ pc = "arguments" => left = MaxInput - 8
  /\ generate /\ pc = "data" => left \in Int /\ left >= 2 * MaxCount

\* The streams by the step of main.
StreamInv ==
  /\ log \in {"stdout", "output"} /\ source \in {"stdin", "memory"}
  /\ pc \in {"parse", "open"} => open = {"stdin", "stdout"}
  /\ pc \in {"controller", "fuzzer", "input"} =>
       /\ {"stdin", log} \subseteq open
       /\ open \subseteq {"stdin", "stdout", log}
  /\ Iterating =>
       /\ {"stdin", log, source} \subseteq open
       /\ IF generate THEN /\ source = "memory"
                           /\ open \subseteq {"stdin", "stdout", log, "memory"}
                      ELSE source = "stdin"
  /\ pc = "finish" => ~generate
  /\ pc \in {"finish", "err"} => log \in open
  /\ pc = "err" => generate /\ open \subseteq {"stdin", "stdout", log}

MainInv == BudgetInv /\ StreamInv

\* No case reads more than 18 bytes before its data.
LEMMA ArgumentsBound ==
  ASSUME NEW c \in Cases PROVE ArgumentBytes(c) \in 0..18
BY DEF Cases, ArgumentBytes, ReadsCode, ReadsSpecific, ReadsSectors, ReadsLba32, ReadsLba64,
       ReadsCount

LEMMA DataBound ==
  ASSUME NEW c, NEW n \in 0..MaxCount
  PROVE  DataBytes(c, n) \in Int /\ 0 <= DataBytes(c, n) /\ DataBytes(c, n) <= 2 * MaxCount
BY MaxCountAssumption DEF DataBytes

LEMMA MainInvInit == Init => MainInv
BY MaxCountAssumption DEF Init, MainInv, BudgetInv, StreamInv, Iterating

LEMMA BudgetStep == MainInv /\ [Next]_vars => BudgetInv'
<1> SUFFICES ASSUME MainInv, [Next]_vars PROVE BudgetInv'
  OBVIOUS
<1> USE MaxCountAssumption DEF MainInv, BudgetInv, Goto, End, options, iteration
<1>1. CASE Parse
  BY <1>1 DEF Parse
<1>2. CASE OpenOutput
  BY <1>2 DEF OpenOutput
<1>3. CASE CreateController
  BY <1>3 DEF CreateController
<1>4. CASE CreateFuzzer
  BY <1>4 DEF CreateFuzzer
<1>5. CASE GenerateInput
  BY <1>5 DEF GenerateInput
<1>6. CASE OpenInput
  BY <1>6 DEF OpenInput
<1>7. CASE CloseInput
  BY <1>7 DEF CloseInput
<1>8. CASE Finish
  BY <1>8 DEF Finish
<1>9. CASE Dispatch
  BY <1>9 DEF Dispatch, Starve, Read, MaxInput
<1>10. CASE ReadArguments
  <2>1. /\ pc = "arguments" /\ command \in Cases
        /\ ArgumentBytes(command) \in 0..18
    BY <1>10, ArgumentsBound DEF ReadArguments
  <2>2. generate => left >= ArgumentBytes(command) + 2 * MaxCount
    BY <2>1 DEF MaxInput
  <2> QED
    BY <1>10, <2>1, <2>2 DEF ReadArguments, Starve, Read, MaxInput
<1>11. CASE ReadData
  <2>1. /\ pc = "data"
        /\ DataBytes(command, count) \in Int /\ DataBytes(command, count) <= 2 * MaxCount
    BY <1>11, DataBound DEF ReadData
  <2>2. generate => left >= DataBytes(command, count)
    BY <2>1
  <2> QED
    BY <1>11, <2>1, <2>2 DEF ReadData, Starve, Read
<1>12. CASE Perform
  BY <1>12 DEF Perform
<1>13. CASE Stay \/ UNCHANGED vars
  BY <1>13 DEF Stay, vars
<1> QED
  BY <1>1, <1>2, <1>3, <1>4, <1>5, <1>6, <1>7, <1>8, <1>9, <1>10, <1>11, <1>12, <1>13
     DEF Next, Step, Iterate

LEMMA StreamStep == MainInv /\ [Next]_vars => StreamInv'
<1> SUFFICES ASSUME MainInv, [Next]_vars PROVE StreamInv'
  OBVIOUS
<1> USE DEF MainInv, StreamInv, Goto, End, options, iteration, Iterating
<1>1. CASE Parse
  BY <1>1 DEF Parse
<1>2. CASE OpenOutput
  BY <1>2 DEF OpenOutput
<1>3. CASE CreateController
  BY <1>3 DEF CreateController
<1>4. CASE CreateFuzzer
  BY <1>4 DEF CreateFuzzer
<1>5. CASE GenerateInput
  BY <1>5 DEF GenerateInput
<1>6. CASE OpenInput
  BY <1>6 DEF OpenInput
<1>7. CASE CloseInput
  BY <1>7 DEF CloseInput
<1>8. CASE Finish
  BY <1>8 DEF Finish
<1>9. CASE Dispatch
  BY <1>9 DEF Dispatch, Starve, Read
<1>10. CASE ReadArguments
  BY <1>10 DEF ReadArguments, Starve, Read
<1>11. CASE ReadData
  BY <1>11 DEF ReadData, Starve, Read
<1>12. CASE Perform
  BY <1>12 DEF Perform
<1>13. CASE Stay \/ UNCHANGED vars
  BY <1>13 DEF Stay, vars
<1> QED
  BY <1>1, <1>2, <1>3, <1>4, <1>5, <1>6, <1>7, <1>8, <1>9, <1>10, <1>11, <1>12, <1>13
     DEF Next, Step, Iterate

\* ATA_FUZZER_MAX_INPUT is enough for every case, for every largest count: the
\* generate loop never ends because its input does.
THEOREM InputSufficesHolds == Spec => []InputSuffices
<1>1. MainInv /\ [Next]_vars => MainInv'
  BY BudgetStep, StreamStep DEF MainInv
<1>2. MainInv => InputSuffices
  BY DEF MainInv, BudgetInv, InputSuffices
<1> QED
  BY <1>1, <1>2, MainInvInit, PTL DEF Spec

\* Every stream main.c reads, logs to or closes is open, although four variables
\* are called stream.
THEOREM StreamsUsableHolds == Spec => []StreamsUsable
<1>1. MainInv /\ [Next]_vars => MainInv'
  BY BudgetStep, StreamStep DEF MainInv
<1>2. MainInv => StreamsUsable
  <2> SUFFICES ASSUME MainInv PROVE StreamsUsable
    OBVIOUS
  <2>1. Iterating => {log, source} \subseteq open
    BY DEF MainInv, StreamInv
  <2>2. pc \in {"finish", "err"} => log \in open
    BY DEF MainInv, StreamInv
  <2>3. ASSUME generate, ~Ended
        PROVE  open \subseteq {"stdin", "stdout", log}
                               \cup (IF Iterating THEN {source} ELSE {})
    BY <2>3 DEF MainInv, BudgetInv, StreamInv, Iterating, Ended
  <2> QED
    BY <2>1, <2>2, <2>3 DEF StreamsUsable
<1> QED
  BY <1>1, <1>2, MainInvInit, PTL DEF Spec

-----------------------------------------------------------------------------
(***************************************************************************)
(* Types.  The only number that is not bounded by the guards is the case   *)
(* that is derived.                                                        *)
(***************************************************************************)
LEMMA SumsBounds ==
  /\ MaxInput \in Nat /\ MaxInput + MaxStdin \in Nat
  /\ 0..MaxStdin \subseteq 0..MaxInput + MaxStdin /\ MaxInput \in 0..MaxInput + MaxStdin
BY MaxCountAssumption, MaxStdinAssumption DEF MaxInput

\* Reading takes no more than is left.
LEMMA ReadTyped ==
  ASSUME NEW bytes \in Nat, left \in 0..MaxInput + MaxStdin, Read(bytes)
  PROVE  left' \in 0..MaxInput + MaxStdin
BY SumsBounds DEF Read

LEMMA CasesFit == 0 + 24 + 1 <= 2^MantissaBits /\ 24 + 1 <= 2^MantissaBits
<1>1. 0 + 24 + 1 = 25 /\ 24 + 1 = 25
  OBVIOUS
<1> QED
  BY <1>1, CasesAssumption

LEMMA TypeStep == TypeOK /\ MainInv /\ [Next]_vars => TypeOK'
<1> SUFFICES ASSUME TypeOK, MainInv, [Next]_vars PROVE TypeOK'
  OBVIOUS
<1> USE DEF TypeOK, Goto, End, options, iteration
<1>1. CASE Parse
  BY <1>1 DEF Parse
<1>2. CASE OpenOutput
  BY <1>2 DEF OpenOutput, Streams
<1>3. CASE CreateController
  BY <1>3 DEF CreateController
<1>4. CASE CreateFuzzer
  BY <1>4 DEF CreateFuzzer
<1>5. CASE GenerateInput
  BY <1>5, SumsBounds DEF GenerateInput, Streams
<1>6. CASE OpenInput
  BY <1>6, SumsBounds DEF OpenInput, Streams
<1>7. CASE CloseInput
  BY <1>7 DEF CloseInput
<1>8. CASE Finish
  BY <1>8 DEF Finish
<1>9. CASE Dispatch
  <2>1. CASE Starve(8)
    BY <1>9, <2>1 DEF Dispatch, Starve
  <2>2. CASE ~Starve(8)
    <3>1. PICK word \in Words : /\ Read(8) /\ command' = DerivedCase[word]
                                /\ \/ End("abort") \/ Goto("close") \/ Goto("arguments")
                                /\ UNCHANGED count
      BY <1>9, <2>2 DEF Dispatch
    <3>2. command' \in 0..25
      <4>1. DeriveRange(word, 0, 24) \in 0..0 + 24 + 1
        BY CasesFit, RangeBounds
      <4> QED
        BY <3>1, <4>1 DEF DerivedCase
    <3>3. left' \in 0..MaxInput + MaxStdin
      BY <3>1, ReadTyped
    <3> QED
      BY <1>9, <3>1, <3>2, <3>3 DEF Dispatch
  <2> QED
    BY <2>1, <2>2
<1>10. CASE ReadArguments
  <2>1. pc = "arguments" /\ ArgumentBytes(command) \in Nat
    BY <1>10, ArgumentsBound DEF ReadArguments, MainInv, BudgetInv
  <2>2. CASE Starve(ArgumentBytes(command))
    BY <1>10, <2>2 DEF ReadArguments, Starve
  <2>3. CASE ~Starve(ArgumentBytes(command))
    <3>1. /\ Read(ArgumentBytes(command)) /\ Goto("data") /\ UNCHANGED command
          /\ count' \in IF command \in ReadsCount THEN 0..MaxCount ELSE {0}
      BY <1>10, <2>3 DEF ReadArguments
    <3>2. count' \in 0..MaxCount
      BY <3>1, MaxCountAssumption
    <3>3. left' \in 0..MaxInput + MaxStdin
      BY <2>1, <3>1, ReadTyped
    <3> QED
      BY <1>10, <3>1, <3>2, <3>3 DEF ReadArguments
  <2> QED
    BY <2>2, <2>3
<1>11. CASE ReadData
  <2>1. DataBytes(command, count) \in Nat
    BY MaxCountAssumption DEF DataBytes
  <2>2. CASE Starve(DataBytes(command, count))
    BY <1>11, <2>2 DEF ReadData, Starve
  <2>3. CASE ~Starve(DataBytes(command, count))
    <3>1. Read(DataBytes(command, count)) /\ Goto("perform") /\ UNCHANGED <<command, count>>
      BY <1>11, <2>3 DEF ReadData
    <3>2. left' \in 0..MaxInput + MaxStdin
      BY <2>1, <3>1, ReadTyped
    <3> QED
      BY <1>11, <3>1, <3>2 DEF ReadData
  <2> QED
    BY <2>2, <2>3
<1>12. CASE Perform
  BY <1>12 DEF Perform
<1>13. CASE Stay \/ UNCHANGED vars
  BY <1>13 DEF Stay, vars
<1> QED
  BY <1>1, <1>2, <1>3, <1>4, <1>5, <1>6, <1>7, <1>8, <1>9, <1>10, <1>11, <1>12, <1>13
     DEF Next, Step, Iterate

\* The derived case is at most one beyond the cases, and no read takes more bytes
\* than are left, for every width of a word, precision of a double and largest
\* count.
THEOREM TypeCorrect == Spec => []TypeOK
<1>1. Init => TypeOK
  <2>1. 0 \in 0..MaxInput + MaxStdin /\ 0 \in 0..MaxCount /\ 0 \in 0..25
    BY SumsBounds, MaxCountAssumption
  <2>2. {"stdin", "stdout"} \subseteq Streams
    BY DEF Streams
  <2> QED
    BY <2>1, <2>2 DEF Init, TypeOK
<1>2. MainInv /\ [Next]_vars => MainInv'
  BY BudgetStep, StreamStep DEF MainInv
<1> QED
  BY <1>1, <1>2, TypeStep, MainInvInit, PTL DEF Spec

\* The case is one of the 25, or 25 itself after the words that are rounded to the
\* divisor: then the process is aborted.
THEOREM BeyondCases ==
  ASSUME NEW word \in Words
  PROVE  DerivedCase[word] \in Cases <=> DeriveDouble(word) # One
<1>1. DeriveRange(word, 0, 24) \in 0..0 + 24 + 1
  BY CasesFit, RangeBounds
<1>2. DeriveRange(word, 0, 24) = 24 + 1 <=> DeriveDouble(word) = One
  BY CasesFit, RangeBeyond
<1> QED
  BY <1>1, <1>2 DEF Cases, DerivedCase
=============================================================================
