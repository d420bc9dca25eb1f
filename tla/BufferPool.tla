---------------------------- MODULE BufferPool ----------------------------
(***************************************************************************)
(* What dma_buffer.c promises: a buffer is handed out together with one of *)
(* the devices /dev/udmabuf0 to /dev/udmabufN, and no two buffers at a     *)
(* time share a device.                                                    *)
(***************************************************************************)
EXTENDS Integers

CONSTANT NumBuffers    \* the highest number of a device

VARIABLES
  held,    \* the numbers of the devices of live buffers
  live     \* how many buffers are live

Init == held = {} /\ live = 0

Take(n) == n \notin held /\ held' = held \cup {n} /\ live' = live + 1
Give(n) == n \in held /\ held' = held \ {n} /\ live' = live - 1

Next == \E n \in 0..NumBuffers : Take(n) \/ Give(n)

Spec == Init /\ [][Next]_<<held, live>>
=============================================================================
