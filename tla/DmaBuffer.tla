----------------------------- MODULE DmaBuffer -----------------------------
(***************************************************************************)
(* DMA buffers, src/src/lib/dma_buffer.c: each stands for a device         *)
(* /dev/udmabufN, whose N is the static variable buffer_num at the time it *)
(* is created.  Creation fails in several ways and undoes itself with      *)
(* dma_buffer_destroy.  The file descriptors are those of the process,     *)
(* which has other files as well.                                          *)
(*                                                                         *)
(* Buffers are unmapped, and destroyed, the last one first, as             *)
(* ata_controller_destroy does.  A failed calloc changes nothing and is    *)
(* left out.                                                               *)
(***************************************************************************)
EXTENDS Integers, Sequences

CONSTANTS
  NumBuffers,  \* num_buffers, the highest number of a device
  LastFd       \* bound: the highest file descriptor of the process

ASSUME NumBuffersAssumption == NumBuffers \in Nat
ASSUME LastFdAssumption == LastFd \in Nat

Fds == 0..LastFd
Closed == -1       \* contents of a descriptor, besides the number of a device
Foreign == -2      \* a file of the rest of the process; 0 is its standard input

VARIABLES
  buffer_num,  \* the static variable
  buffers,     \* the live buffers, the oldest first
  fresh,       \* the buffer being created
  files,       \* what each descriptor of the process refers to
  pc           \* the next step of dma_buffer_create; "idle" outside it

vars == <<buffer_num, buffers, fresh, files, pc>>

Buffers == [num : Nat, fd : Fds \cup {-1}, map : BOOLEAN]

TypeOK ==
  /\ buffer_num \in -1..NumBuffers + 1
  /\ buffers \in Seq(Buffers)
  /\ fresh \in Buffers
  /\ files \in [Fds -> {Closed, Foreign} \cup 0..NumBuffers]
  /\ pc \in {"idle", "open", "check", "err"}

Init ==
  /\ buffer_num = -1 /\ buffers = <<>>
  /\ fresh = [num |-> 0, fd |-> 0, map |-> FALSE]
  /\ files = [fd \in Fds |-> IF fd = 0 THEN Foreign ELSE Closed]
  /\ pc = "idle"

FreeFds == {fd \in Fds : files[fd] = Closed}
\* open(2) returns the lowest free descriptor.
LowestFree(fd) == fd \in FreeFds /\ \A other \in FreeFds : fd <= other
Close(fd) == files' = [f \in Fds |-> IF f = fd THEN Closed ELSE files[f]]

-----------------------------------------------------------------------------
(***************************************************************************)
(* dma_buffer_create.  calloc leaves 0 in the member fd.                   *)
(***************************************************************************)
TakeNumber ==
  /\ pc = "idle"
  /\ buffer_num' = buffer_num + 1
  /\ fresh' = [num |-> buffer_num + 1, fd |-> 0, map |-> FALSE]
  /\ pc' = IF buffer_num + 1 > NumBuffers THEN "err" ELSE "open"
  /\ UNCHANGED <<buffers, files>>

OpenDevice ==
  /\ pc = "open"
  /\ \E fd \in Fds :
       /\ LowestFree(fd)
       /\ fresh' = [fresh EXCEPT !.fd = fd]
       /\ files' = [files EXCEPT ![fd] = fresh.num]
  /\ pc' = "check"
  /\ UNCHANGED <<buffer_num, buffers>>

OpenFailsZero ==
  /\ pc = "open"
  /\ pc' = "err"
  /\ UNCHANGED <<buffer_num, buffers, fresh, files>>
OpenFails ==
  /\ pc = "open"
  /\ fresh' = [fresh EXCEPT !.fd = -1]
  /\ pc' = "err"
  /\ UNCHANGED <<buffer_num, buffers, files>>

\* The size is read and compared, and the physical address is read.  The files
\* these are read from are closed again on every way out.
CheckFails ==
  /\ pc = "check"
  /\ pc' = "err"
  /\ UNCHANGED <<buffer_num, buffers, fresh, files>>

CreatedFallThrough ==
  /\ pc = "check"
  /\ buffers' = Append(buffers, fresh)
  /\ pc' = "err"
  /\ UNCHANGED <<buffer_num, fresh, files>>
Created ==
  /\ pc = "check"
  /\ buffers' = Append(buffers, fresh)
  /\ pc' = "idle"
  /\ UNCHANGED <<buffer_num, fresh, files>>

\* Label err: dma_buffer_destroy of the buffer that was not finished.
UndoKeepNumber ==
  /\ pc = "err"
  /\ Close(fresh.fd)
  /\ pc' = "idle"
  /\ UNCHANGED <<buffer_num, buffers, fresh>>
Undo ==
  /\ pc = "err"
  /\ Close(fresh.fd)
  /\ buffer_num' = buffer_num - 1
  /\ pc' = "idle"
  /\ UNCHANGED <<buffers, fresh>>

-----------------------------------------------------------------------------
Map(i) ==
  /\ pc = "idle" /\ ~buffers[i].map
  /\ buffers' = [buffers EXCEPT ![i].map = TRUE]
  /\ UNCHANGED <<buffer_num, fresh, files, pc>>

Unmap(i) ==
  /\ pc = "idle" /\ buffers[i].map
  /\ buffers' = [buffers EXCEPT ![i].map = FALSE]
  /\ UNCHANGED <<buffer_num, fresh, files, pc>>

DestroyOldest ==
  /\ pc = "idle" /\ buffers # <<>> /\ ~buffers[1].map
  /\ Close(buffers[1].fd)
  /\ buffer_num' = buffer_num - 1
  /\ buffers' = Tail(buffers)
  /\ UNCHANGED <<fresh, pc>>
Destroy ==
  /\ pc = "idle" /\ buffers # <<>> /\ ~buffers[Len(buffers)].map
  /\ Close(buffers[Len(buffers)].fd)
  /\ buffer_num' = buffer_num - 1
  /\ buffers' = SubSeq(buffers, 1, Len(buffers) - 1)
  /\ UNCHANGED <<fresh, pc>>

-----------------------------------------------------------------------------
(***************************************************************************)
(* The rest of the process opens and closes files of its own.              *)
(***************************************************************************)
OpenForeign ==
  /\ pc = "idle"
  /\ \E fd \in Fds : LowestFree(fd) /\ files' = [files EXCEPT ![fd] = Foreign]
  /\ UNCHANGED <<buffer_num, buffers, fresh, pc>>

CloseForeign ==
  /\ pc = "idle"
  /\ \E fd \in Fds : files[fd] = Foreign /\ Close(fd)
  /\ UNCHANGED <<buffer_num, buffers, fresh, pc>>

Next ==
  \/ TakeNumber \/ OpenDevice \/ OpenFails \/ CheckFails \/ Created \/ Undo
  \/ \E i \in DOMAIN buffers : Map(i) \/ Unmap(i)
  \/ Destroy \/ OpenForeign \/ CloseForeign

Spec == Init /\ [][Next]_vars

-----------------------------------------------------------------------------
\* Whatever creations failed before, the descriptor of a live buffer refers to
\* the device of its number.  The exception is descriptor 0, which a buffer can
\* get once a creation over the limit has closed standard input, and which the
\* next such creation closes again.
OwnFile ==
  \A i \in DOMAIN buffers :
    buffers[i].fd # 0 => files[buffers[i].fd] = buffers[i].num

\* dma_buffer.c closes no file it did not open, except that a creation over the
\* limit of the devices closes descriptor 0.
ForeignKept ==
  [][pc # "idle" /\ fresh.num <= NumBuffers =>
       \A fd \in Fds : files[fd] = Foreign => files'[fd] = Foreign]_vars

\* The buffers implement a pool of devices that hands none out twice: a buffer
\* more is a device more, so that two with the same number are no step of it.
held == {buffers[i].num : i \in DOMAIN buffers}
Pool == INSTANCE BufferPool WITH held <- held, live <- Len(buffers)
ImplementsPool == Pool!Spec
=============================================================================
