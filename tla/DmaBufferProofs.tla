-------------------------- MODULE DmaBufferProofs --------------------------
(***************************************************************************)
(* Proofs about DmaBuffer: with buffers released last-in first-out, their  *)
(* numbers are those of a stack, and this is what keeps descriptors and    *)
(* devices apart.                                                          *)
(***************************************************************************)
EXTENDS DmaBuffer, SequenceTheorems, TLAPS

\* The buffers are numbered from the oldest, and the static variable is the
\* number of the newest one, the one being created included.
NumberInv ==
  /\ Len(buffers) <= NumBuffers + 1
  /\ \A i \in 1..Len(buffers) : buffers[i].num = i - 1
  /\ pc = "idle" => buffer_num = Len(buffers) - 1
  /\ pc # "idle" => buffer_num = Len(buffers) /\ fresh.num = Len(buffers)
  /\ pc \in {"open", "check"} => fresh.num <= NumBuffers

\* The buffer being created owns its descriptor, has none, or is over the limit
\* and has 0.
FreshInv ==
  /\ pc = "check" => fresh.fd \in Fds /\ files[fresh.fd] = fresh.num
  /\ pc = "err" => \/ fresh.fd = -1
                   \/ fresh.fd \in Fds /\ files[fresh.fd] = fresh.num
                   \/ fresh.fd = 0 /\ fresh.num > NumBuffers

LiveInv ==
  \A i \in 1..Len(buffers) :
    /\ buffers[i].fd \in Fds
    /\ buffers[i].fd # 0 => files[buffers[i].fd] = buffers[i].num

DmaInv == TypeOK /\ NumberInv /\ FreshInv /\ LiveInv

USE DEF Fds, Closed, Foreign, Buffers

LEMMA DmaInvInit == Init => DmaInv
  BY NumBuffersAssumption, LastFdAssumption
  DEF Init, DmaInv, TypeOK, NumberInv, FreshInv, LiveInv

\* The live buffers, element by element.
LEMMA LiveFacts ==
  ASSUME DmaInv
  PROVE  /\ buffers \in Seq(Buffers) /\ Len(buffers) \in Nat /\ DOMAIN buffers = 1..Len(buffers)
         /\ \A n \in 1..Len(buffers) : /\ buffers[n] \in Buffers /\ buffers[n].num = n - 1
                                       /\ buffers[n].fd \in Fds
                                       /\ buffers[n].fd # 0 => files[buffers[n].fd] = n - 1
<1>1. buffers \in Seq(Buffers) /\ Len(buffers) \in Nat /\ DOMAIN buffers = 1..Len(buffers)
  BY LenProperties DEF DmaInv, TypeOK
<1>2. ASSUME NEW n \in 1..Len(buffers)
      PROVE  /\ buffers[n] \in Buffers /\ buffers[n].num = n - 1 /\ buffers[n].fd \in Fds
             /\ buffers[n].fd # 0 => files[buffers[n].fd] = n - 1
  <2>1. buffers[n] \in Buffers
    BY <1>1, ElementOfSeq
  <2> QED
    BY <2>1 DEF DmaInv, NumberInv, LiveInv
<1> QED
  BY <1>1, <1>2

\* Steps of the creation that take or give back no descriptor.
LEMMA CreationStep ==
  ASSUME DmaInv, TakeNumber \/ OpenFails \/ CheckFails
  PROVE  DmaInv'
<1>1. UNCHANGED <<buffers, files>>
  BY DEF TakeNumber, OpenFails, CheckFails
<1>2. Len(buffers) \in Nat
  BY LiveFacts
<1>3. TypeOK'
  <2>1. CASE TakeNumber
    <3>1. buffer_num + 1 \in 0..NumBuffers + 1 /\ buffer_num + 1 \in Nat
      BY <1>2, <2>1, NumBuffersAssumption DEF TakeNumber, DmaInv, NumberInv
    <3>2. fresh' \in Buffers /\ buffer_num' = buffer_num + 1 /\ pc' \in {"err", "open"}
      BY <2>1, <3>1, LastFdAssumption DEF TakeNumber
    <3> QED
      BY <1>1, <3>1, <3>2, NumBuffersAssumption DEF DmaInv, TypeOK
  <2>2. CASE OpenFails \/ CheckFails
    <3>1. UNCHANGED buffer_num /\ fresh' \in Buffers /\ pc' = "err"
      BY <2>2 DEF OpenFails, CheckFails, DmaInv, TypeOK
    <3> QED
      BY <1>1, <3>1 DEF DmaInv, TypeOK
  <2> QED
    BY <2>1, <2>2
<1>4. NumberInv'
  <2>1. CASE TakeNumber
    BY <1>2, <2>1, NumBuffersAssumption DEF DmaInv, NumberInv, TakeNumber
  <2>2. CASE OpenFails \/ CheckFails
    <3>1. UNCHANGED <<buffers, buffer_num>> /\ fresh'.num = fresh.num /\ pc' = "err" /\ pc # "idle"
      BY <2>2 DEF OpenFails, CheckFails, DmaInv, TypeOK
    <3> QED
      BY <3>1 DEF DmaInv, NumberInv
  <2> QED
    BY <2>1, <2>2
<1>5. FreshInv'
  BY <1>1, NumBuffersAssumption, LastFdAssumption
     DEF DmaInv, TypeOK, FreshInv, TakeNumber, OpenFails, CheckFails
<1>6. LiveInv'
  BY <1>1 DEF DmaInv, LiveInv
<1> QED
  BY <1>3, <1>4, <1>5, <1>6 DEF DmaInv

\* The device is opened on a descriptor that was free.
LEMMA OpenStep ==
  ASSUME DmaInv, OpenDevice
  PROVE  DmaInv'
<1>1. PICK fd \in Fds : /\ LowestFree(fd)
                        /\ fresh' = [fresh EXCEPT !.fd = fd]
                        /\ files' = [files EXCEPT ![fd] = fresh.num]
  BY DEF OpenDevice
<1>2. /\ files[fd] = -1 /\ pc = "open" /\ pc' = "check"
      /\ UNCHANGED <<buffer_num, buffers>>
  BY <1>1 DEF OpenDevice, LowestFree, FreeFds
<1>3. /\ fresh \in Buffers /\ fresh.num \in 0..NumBuffers
      /\ files \in [Fds -> {Closed, Foreign} \cup 0..NumBuffers]
  BY <1>2, NumBuffersAssumption DEF DmaInv, TypeOK, NumberInv
<1>4. /\ fresh' \in Buffers /\ fresh'.num = fresh.num /\ fresh'.fd = fd
      /\ files' \in [Fds -> {Closed, Foreign} \cup 0..NumBuffers] /\ files'[fd] = fresh.num
  BY <1>1, <1>3
<1>5. TypeOK'
  BY <1>2, <1>4 DEF DmaInv, TypeOK
<1>6. NumberInv'
  BY <1>2, <1>4 DEF DmaInv, NumberInv
<1>7. FreshInv'
  BY <1>2, <1>4 DEF FreshInv
<1>8. LiveInv'
  <2>1. \A n \in 1..Len(buffers) :
          buffers[n].fd # 0 => files[buffers[n].fd] = n - 1 /\ n - 1 # -1
    BY LiveFacts
  <2>2. \A n \in 1..Len(buffers) : buffers[n].fd # 0 => files'[buffers[n].fd] = n - 1
    <3> SUFFICES ASSUME NEW n \in 1..Len(buffers), buffers[n].fd # 0
                 PROVE  files'[buffers[n].fd] = n - 1
      OBVIOUS
    <3>1. buffers[n].fd \in Fds /\ buffers[n].fd # fd
      BY <1>2, <2>1, LiveFacts
    <3> QED
      BY <1>1, <1>3, <2>1, <3>1
  <2>3. \A n \in 1..Len(buffers) : buffers[n].fd \in Fds /\ buffers[n].num = n - 1
    BY LiveFacts
  <2> QED
    BY <1>2, <2>2, <2>3 DEF LiveInv
<1> QED
  BY <1>5, <1>6, <1>7, <1>8 DEF DmaInv

\* The buffer that was created becomes the newest one.
LEMMA CreatedStep ==
  ASSUME DmaInv, Created
  PROVE  DmaInv'
<1> DEFINE n == Len(buffers)
<1>1. /\ pc = "check" /\ pc' = "idle" /\ UNCHANGED <<buffer_num, fresh, files>>
      /\ buffers' = Append(buffers, fresh)
  BY DEF Created
<1>2. /\ fresh \in Buffers /\ fresh.num = n /\ n <= NumBuffers /\ buffer_num = n
      /\ fresh.fd \in Fds /\ files[fresh.fd] = fresh.num
  BY <1>1 DEF DmaInv, TypeOK, NumberInv, FreshInv
<1>3. n \in Nat /\ buffers \in Seq(Buffers)
  BY LiveFacts
<1>4. /\ buffers' \in Seq(Buffers) /\ Len(buffers') = n + 1
      /\ \A k \in 1..n : buffers'[k] = buffers[k]
      /\ buffers'[n + 1] = fresh
  BY <1>1, <1>2, <1>3, AppendProperties
<1> HIDE DEF n
<1>5. TypeOK'
  BY <1>1, <1>4 DEF DmaInv, TypeOK
<1>6. \A k \in 1..n + 1 : k \in 1..n \/ k = n + 1
  BY <1>3
<1>7. \A k \in 1..n : /\ buffers[k].num = k - 1 /\ buffers[k].fd \in Fds
                      /\ buffers[k].fd # 0 => files[buffers[k].fd] = k - 1
  BY LiveFacts DEF n
<1>8. NumberInv'
  BY <1>1, <1>2, <1>3, <1>4, <1>6, <1>7, NumBuffersAssumption DEF NumberInv
<1>9. FreshInv'
  BY <1>1 DEF FreshInv
<1>10. LiveInv'
  BY <1>1, <1>2, <1>3, <1>4, <1>6, <1>7 DEF LiveInv
<1> QED
  BY <1>5, <1>8, <1>9, <1>10 DEF DmaInv

\* The error path closes the descriptor of the buffer it gives up, if that has one
\* of its own, and otherwise none or descriptor 0.
LEMMA UndoStep ==
  ASSUME DmaInv, Undo
  PROVE  DmaInv'
<1>1. /\ pc = "err" /\ pc' = "idle" /\ UNCHANGED <<buffers, fresh>>
      /\ buffer_num' = buffer_num - 1
      /\ files' = [f \in Fds |-> IF f = fresh.fd THEN Closed ELSE files[f]]
  BY DEF Undo, Close
<1>2. /\ buffer_num = Len(buffers) /\ fresh.num = Len(buffers)
      /\ buffer_num \in -1..NumBuffers + 1
      /\ files \in [Fds -> {Closed, Foreign} \cup 0..NumBuffers]
  BY <1>1 DEF DmaInv, TypeOK, NumberInv
<1>3. Len(buffers) \in Nat
  BY LiveFacts
<1>4. TypeOK'
  BY <1>1, <1>2, <1>3, NumBuffersAssumption DEF DmaInv, TypeOK
<1>5. NumberInv'
  BY <1>1, <1>2 DEF DmaInv, NumberInv
<1>6. FreshInv'
  BY <1>1 DEF FreshInv
<1>7. LiveInv'
  <2>1. \A n \in 1..Len(buffers) : /\ buffers[n].num = n - 1 /\ buffers[n].fd \in Fds
                                   /\ buffers[n].fd # 0 => files[buffers[n].fd] = n - 1
    BY LiveFacts
  <2>2. fresh.fd \in {-1, 0} \/ files[fresh.fd] = Len(buffers)
    BY <1>1, <1>2 DEF DmaInv, FreshInv
  <2>3. \A n \in 1..Len(buffers) : buffers[n].fd # 0 => buffers[n].fd # fresh.fd
    <3> SUFFICES ASSUME NEW n \in 1..Len(buffers), buffers[n].fd # 0
                 PROVE  buffers[n].fd # fresh.fd
      OBVIOUS
    <3>1. buffers[n].fd \in Nat \ {0} /\ files[buffers[n].fd] = n - 1
      BY <2>1, LastFdAssumption
    <3>2. n - 1 # Len(buffers)
      BY <1>3
    <3> QED
      BY <2>2, <3>1, <3>2
  <2> QED
    BY <1>1, <2>1, <2>3 DEF LiveInv
<1> QED
  BY <1>4, <1>5, <1>6, <1>7 DEF DmaInv

\* Mapping and unmapping change nothing else.
LEMMA MapStep ==
  ASSUME DmaInv, NEW i \in DOMAIN buffers, Map(i) \/ Unmap(i)
  PROVE  DmaInv'
<1>1. PICK b \in BOOLEAN : /\ buffers' = [buffers EXCEPT ![i] = [buffers[i] EXCEPT !.map = b]]
                           /\ UNCHANGED <<buffer_num, fresh, files, pc>>
  BY DEF Map, Unmap
<1> DEFINE mapped == [buffers[i] EXCEPT !.map = b]
<1>2. i \in 1..Len(buffers) /\ buffers[i] \in Buffers
  BY LiveFacts
<1>3. mapped \in Buffers /\ mapped.num = buffers[i].num /\ mapped.fd = buffers[i].fd
  BY <1>2
<1>4. buffers' = [buffers EXCEPT ![i] = mapped]
  BY <1>1
<1> HIDE DEF mapped
<1>5. buffers \in Seq(Buffers)
  BY LiveFacts
<1>6. /\ buffers' \in Seq(Buffers) /\ Len(buffers') = Len(buffers)
      /\ \A n \in 1..Len(buffers) : buffers'[n] = IF n = i THEN mapped ELSE buffers[n]
  BY <1>2, <1>3, <1>4, <1>5, ExceptSeq
<1>7. \A n \in 1..Len(buffers) : buffers'[n].num = buffers[n].num /\ buffers'[n].fd = buffers[n].fd
  BY <1>3, <1>6
<1>8. TypeOK'
  BY <1>1, <1>6 DEF DmaInv, TypeOK
<1>9. NumberInv'
  BY <1>1, <1>6, <1>7 DEF DmaInv, NumberInv
<1>10. FreshInv'
  BY <1>1 DEF DmaInv, FreshInv
<1>11. LiveInv'
  BY <1>1, <1>6, <1>7 DEF DmaInv, LiveInv
<1> QED
  BY <1>8, <1>9, <1>10, <1>11 DEF DmaInv

\* The newest buffer goes, and with it its number and its descriptor.
LEMMA DestroyStep ==
  ASSUME DmaInv, Destroy
  PROVE  DmaInv'
<1> DEFINE last == Len(buffers)
<1>1. /\ buffers # <<>> /\ pc = "idle"
      /\ buffers' = SubSeq(buffers, 1, last - 1)
      /\ files' = [f \in Fds |-> IF f = buffers[last].fd THEN Closed ELSE files[f]]
      /\ buffer_num' = buffer_num - 1 /\ UNCHANGED <<fresh, pc>>
  BY DEF Destroy, Close
<1>2. last \in Nat \ {0} /\ \A n \in 1..last : buffers[n] \in Buffers
  BY <1>1, LiveFacts, EmptySeq
<1>3. buffer_num = last - 1 /\ last <= NumBuffers + 1
  BY <1>1 DEF DmaInv, NumberInv
<1>4. /\ Len(buffers') = last - 1
      /\ \A n \in 1..last - 1 : buffers'[n] = buffers[n]
      /\ buffers' \in Seq(Buffers)
  <2> DEFINE m == last - 1
  <2>1. m \in Nat /\ \A k \in 1..m : buffers[k] \in Buffers
    BY <1>2
  <2> HIDE DEF m
  <2>2. /\ SubSeq(buffers, 1, m) \in Seq(Buffers)
        /\ Len(SubSeq(buffers, 1, m)) = m
        /\ \A n \in 1..m : SubSeq(buffers, 1, m)[n] = buffers[n]
    <3>1. /\ SubSeq(buffers, 1, m) \in Seq(Buffers)
          /\ Len(SubSeq(buffers, 1, m)) = IF 1 <= m THEN m - 1 + 1 ELSE 0
          /\ \A n \in 1..m - 1 + 1 : SubSeq(buffers, 1, m)[n] = buffers[1 + n - 1]
      BY <2>1, SubSeqProperties
    <3>2. m - 1 + 1 = m /\ \A n \in 1..m : 1 + n - 1 = n
      BY <2>1
    <3> QED
      BY <2>1, <3>1, <3>2
  <2> QED
    BY <1>1, <2>2 DEF m
<1>5. \A n \in 1..last : /\ buffers[n].num = n - 1 /\ buffers[n].fd \in Fds
                         /\ buffers[n].fd # 0 => files[buffers[n].fd] = n - 1
  BY LiveFacts
<1>6. files \in [Fds -> {Closed, Foreign} \cup 0..NumBuffers]
  BY DEF DmaInv, TypeOK
<1> HIDE DEF last
<1>7. TypeOK'
  <2>1. files' \in [Fds -> {Closed, Foreign} \cup 0..NumBuffers]
    BY <1>1, <1>6
  <2>2. buffer_num' \in -1..NumBuffers + 1
    BY <1>1, <1>2, <1>3, NumBuffersAssumption
  <2> QED
    BY <1>1, <1>4, <2>1, <2>2 DEF DmaInv, TypeOK
<1>8. NumberInv'
  BY <1>1, <1>2, <1>3, <1>4, <1>5, NumBuffersAssumption DEF NumberInv
<1>9. FreshInv'
  BY <1>1 DEF FreshInv
<1>10. LiveInv'
  <2> SUFFICES ASSUME NEW n \in 1..last - 1
               PROVE  /\ buffers[n].fd \in Fds
                      /\ buffers[n].fd # 0 => files'[buffers[n].fd] = buffers[n].num
    BY <1>2, <1>4 DEF LiveInv
  <2>1. n \in 1..last /\ last \in 1..last /\ n - 1 # last - 1
    BY <1>2
  <2>2. buffers[n].fd # 0 => buffers[n].fd # buffers[last].fd
    BY <1>5, <2>1
  <2> QED
    BY <1>1, <1>5, <2>1, <2>2
<1> QED
  BY <1>7, <1>8, <1>9, <1>10 DEF DmaInv

\* What the rest of the process does with its own files.
LEMMA ForeignStep ==
  ASSUME DmaInv, OpenForeign \/ CloseForeign
  PROVE  DmaInv'
<1>1. pc = "idle" /\ UNCHANGED <<buffer_num, buffers, fresh, pc>>
  BY DEF OpenForeign, CloseForeign
<1>2. PICK fd \in Fds :
        /\ files[fd] \in {Closed, Foreign}
        /\ \/ files' = [files EXCEPT ![fd] = Foreign]
           \/ files' = [f \in Fds |-> IF f = fd THEN Closed ELSE files[f]]
  BY DEF OpenForeign, CloseForeign, LowestFree, FreeFds, Close
<1>3. files \in [Fds -> {Closed, Foreign} \cup 0..NumBuffers]
  BY DEF DmaInv, TypeOK
<1>4. /\ files' \in [Fds -> {Closed, Foreign} \cup 0..NumBuffers]
      /\ \A f \in Fds : f # fd => files'[f] = files[f]
  BY <1>2, <1>3
<1>5. TypeOK'
  BY <1>1, <1>4 DEF DmaInv, TypeOK
<1>6. NumberInv' /\ FreshInv'
  BY <1>1 DEF DmaInv, NumberInv, FreshInv
<1>7. LiveInv'
  <2>1. \A n \in 1..Len(buffers) :
          /\ buffers[n].num = n - 1 /\ buffers[n].fd \in Fds
          /\ buffers[n].fd # 0 => files[buffers[n].fd] = n - 1 /\ n - 1 >= 0
    BY LiveFacts
  <2>2. \A n \in 1..Len(buffers) : buffers[n].fd # 0 => buffers[n].fd # fd
    BY <1>2, <2>1
  <2> QED
    BY <1>1, <1>4, <2>1, <2>2 DEF LiveInv
<1> QED
  BY <1>5, <1>6, <1>7 DEF DmaInv

\* Every step of dma_buffer.c and of the process around it.
LEMMA DmaInvStep == DmaInv /\ [Next]_vars => DmaInv'
<1> SUFFICES ASSUME DmaInv, [Next]_vars PROVE DmaInv'
  OBVIOUS
<1>1. CASE UNCHANGED vars
  BY <1>1 DEF vars, DmaInv, TypeOK, NumberInv, FreshInv, LiveInv
<1> QED
  BY <1>1, CreationStep, OpenStep, CreatedStep, UndoStep, MapStep, DestroyStep, ForeignStep
     DEF Next

\* The types hold of every reachable state.
THEOREM TypeCorrect == Spec => []TypeOK
<1>1. Init => DmaInv
  BY DmaInvInit
<1>2. DmaInv /\ [Next]_vars => DmaInv'
  BY DmaInvStep
<1>3. DmaInv => TypeOK
  BY DEF DmaInv
<1> QED
  BY <1>1, <1>2, <1>3, PTL DEF Spec

\* A live buffer's descriptor refers to its own device, for every number of
\* devices and of descriptors: the failed creations of dma_buffer_create and
\* the closes of dma_buffer_destroy never reach another buffer's.
THEOREM OwnFileHolds == Spec => []OwnFile
<1>1. Init => DmaInv
  BY DmaInvInit
<1>2. DmaInv /\ [Next]_vars => DmaInv'
  BY DmaInvStep
<1>3. DmaInv => OwnFile
  BY LiveFacts DEF OwnFile
<1> QED
  BY <1>1, <1>2, <1>3, PTL DEF Spec

\* A file of the rest of the process stays open while a buffer within the limit
\* is created, whether the creation succeeds or undoes itself.
THEOREM ForeignKeptHolds == Spec => ForeignKept
<1>1. DmaInv /\ [Next]_vars =>
        [pc # "idle" /\ fresh.num <= NumBuffers =>
           \A fd \in Fds : files[fd] = Foreign => files'[fd] = Foreign]_vars
  <2> SUFFICES ASSUME DmaInv, Next, pc # "idle", fresh.num <= NumBuffers,
                      NEW fd \in Fds, files[fd] = Foreign
               PROVE  files'[fd] = Foreign
    OBVIOUS
  <2> USE DEF DmaInv, TypeOK, NumberInv
  <2>1. CASE OpenDevice
    BY <2>1 DEF OpenDevice, LowestFree, FreeFds
  <2>2. CASE Undo
    <3>1. pc = "err" /\ FreshInv
      BY <2>2 DEF Undo
    <3>2. fresh.num \in Nat /\ ~(fresh.num > NumBuffers)
      BY NumBuffersAssumption
    <3>3. fresh.fd = -1 \/ (fresh.fd \in Fds /\ files[fresh.fd] = fresh.num)
      BY <3>1, <3>2 DEF FreshInv
    <3>4. fd # fresh.fd
      BY <3>2, <3>3, LastFdAssumption
    <3> QED
      BY <2>2, <3>4 DEF Undo, Close
  <2>3. CASE OpenFails \/ CheckFails \/ Created
    BY <2>3 DEF OpenFails, CheckFails, Created
  <2> QED
    BY <2>1, <2>2, <2>3
       DEF Next, TakeNumber, Map, Unmap, Destroy, OpenForeign, CloseForeign
<1>2. Init => DmaInv
  BY DmaInvInit
<1>3. DmaInv /\ [Next]_vars => DmaInv'
  BY DmaInvStep
<1> QED
  BY <1>1, <1>2, <1>3, PTL DEF Spec, ForeignKept

-----------------------------------------------------------------------------
\* The devices handed out are 0 up to the newest one.
LEMMA HeldIsPrefix ==
  DmaInv => held = 0..Len(buffers) - 1 /\ Len(buffers) \in 0..NumBuffers + 1
<1> SUFFICES ASSUME DmaInv PROVE held = 0..Len(buffers) - 1 /\ Len(buffers) \in 0..NumBuffers + 1
  OBVIOUS
<1>1. /\ DOMAIN buffers = 1..Len(buffers) /\ Len(buffers) \in 0..NumBuffers + 1
      /\ \A i \in 1..Len(buffers) : buffers[i].num = i - 1
  BY LenProperties, NumBuffersAssumption DEF DmaInv, TypeOK, NumberInv
<1>2. ASSUME NEW n \in 0..Len(buffers) - 1 PROVE n \in held
  <2>1. n + 1 \in DOMAIN buffers /\ buffers[n + 1].num = n
    BY <1>1
  <2> QED
    BY <2>1 DEF held
<1>3. ASSUME NEW n \in held PROVE n \in 0..Len(buffers) - 1
  <2>1. PICK i \in DOMAIN buffers : n = buffers[i].num
    BY DEF held
  <2> QED
    BY <1>1, <2>1
<1> QED
  BY <1>1, <1>2, <1>3

\* One device more or fewer, at the top of the stack.
LEMMA StackStep ==
  DmaInv /\ [Next]_vars =>
    \/ Len(buffers') = Len(buffers)
    \/ Len(buffers') = Len(buffers) + 1
    \/ Len(buffers') = Len(buffers) - 1
<1> DEFINE AtMostOne ==
      \/ Len(buffers') = Len(buffers)
      \/ Len(buffers') = Len(buffers) + 1
      \/ Len(buffers') = Len(buffers) - 1
<1> SUFFICES ASSUME DmaInv, [Next]_vars PROVE AtMostOne
  OBVIOUS
<1>1. /\ buffers \in Seq(Buffers) /\ Len(buffers) \in Nat /\ DOMAIN buffers = 1..Len(buffers)
      /\ fresh \in Buffers
  BY LenProperties DEF DmaInv, TypeOK
<1>2. CASE Created
  <2>1. Len(buffers') = Len(buffers) + 1
    BY <1>1, <1>2, AppendProperties DEF Created
  <2> QED
    BY <2>1
<1>3. ASSUME NEW i \in DOMAIN buffers, Map(i) \/ Unmap(i) PROVE AtMostOne
  <2>1. PICK b \in BOOLEAN : buffers' = [buffers EXCEPT ![i] = [buffers[i] EXCEPT !.map = b]]
    BY <1>3 DEF Map, Unmap
  <2>2. buffers[i] \in Buffers
    BY <1>1, ElementOfSeq
  <2>3. [buffers[i] EXCEPT !.map = b] \in Buffers
    BY <2>2
  <2>4. Len(buffers') = Len(buffers)
    BY <1>1, <2>1, <2>3, ExceptSeq
  <2> QED
    BY <2>4
<1>4. CASE Destroy
  <2>1. buffers' = SubSeq(buffers, 1, Len(buffers) - 1) /\ buffers # <<>>
    BY <1>4 DEF Destroy
  <2>2. Len(buffers) \in Nat \ {0}
    BY <1>1, <2>1, EmptySeq
  <2>3. Len(buffers') = Len(buffers) - 1
    <3> DEFINE n == Len(buffers) - 1
    <3>1. n \in Nat /\ \A k \in 1..n : buffers[k] \in Buffers
      <4>1. n \in Nat /\ \A k \in 1..n : k \in 1..Len(buffers)
        BY <2>2
      <4> HIDE DEF n
      <4> QED
        BY <1>1, <4>1, ElementOfSeq
    <3> HIDE DEF n
    <3>2. Len(SubSeq(buffers, 1, n)) = IF 1 <= n THEN n - 1 + 1 ELSE 0
      BY <3>1, SubSeqProperties
    <3>3. Len(SubSeq(buffers, 1, n)) = n
      BY <3>1, <3>2
    <3> QED
      BY <2>1, <3>3 DEF n
  <2> QED
    BY <2>3
<1>5. CASE UNCHANGED buffers
  BY <1>5
<1> QED
  BY <1>2, <1>3, <1>4, <1>5
     DEF Next, vars, TakeNumber, OpenDevice, OpenFails, CheckFails, Undo, OpenForeign,
         CloseForeign

\* The buffers implement the pool, with a step at most of the pool for a step of
\* dma_buffer.c: what is handed out is free, what is given back was handed out.
THEOREM Implements == Spec => ImplementsPool
<1>1. Init => Pool!Init
  BY LenProperties DEF Init, Pool!Init, held
<1>2. DmaInv => held = 0..Len(buffers) - 1 /\ Len(buffers) \in 0..NumBuffers + 1
  BY HeldIsPrefix
<1>3. (DmaInv => held = 0..Len(buffers) - 1 /\ Len(buffers) \in 0..NumBuffers + 1)'
  BY <1>2, PTL
<1>4. DmaInv /\ DmaInv' /\ [Next]_vars => [Pool!Next]_<<held, Len(buffers)>>
  <2> SUFFICES ASSUME DmaInv, DmaInv', [Next]_vars PROVE Pool!Next \/ UNCHANGED <<held, Len(buffers)>>
    OBVIOUS
  <2> DEFINE n == Len(buffers)
             m == Len(buffers')
  <2>1. held = 0..n - 1 /\ held' = 0..m - 1 /\ {n, m} \subseteq 0..NumBuffers + 1
    BY <1>2, <1>3
  <2>2. m = n \/ m = n + 1 \/ m = n - 1
    BY StackStep
  <2>3. CASE m = n
    BY <2>1, <2>3
  <2>4. CASE m = n + 1
    <3>1. n \in 0..NumBuffers /\ n \notin held /\ held' = held \cup {n}
      <4> HIDE DEF n, m
      <4> QED
        BY <2>1, <2>4, NumBuffersAssumption
    <3>2. Pool!Take(n)
      BY <2>4, <3>1 DEF Pool!Take
    <3> QED
      BY <3>1, <3>2 DEF Pool!Next
  <2>5. CASE m = n - 1
    <3>1. m \in 0..NumBuffers /\ m \in held /\ held' = held \ {m}
      <4> HIDE DEF n, m
      <4> QED
        BY <2>1, <2>5, NumBuffersAssumption
    <3>2. Pool!Give(m)
      BY <2>5, <3>1 DEF Pool!Give
    <3> QED
      BY <3>1, <3>2 DEF Pool!Next
  <2> QED
    BY <2>1, <2>2, <2>3, <2>4, <2>5
<1>5. Init => DmaInv
  BY DmaInvInit
<1>6. DmaInv /\ [Next]_vars => DmaInv'
  BY DmaInvStep
<1> QED
  BY <1>1, <1>4, <1>5, <1>6, PTL DEF Spec, ImplementsPool, Pool!Spec
=============================================================================
