----------------------------- MODULE AtaCommand -----------------------------
(***************************************************************************)
(* What a command of src/src/lib/ata_device.c is to its caller, a device   *)
(* that follows the protocol taken for granted: a call that gives the      *)
(* device one piece of work and returns what became of it.  Registers,     *)
(* polling and the bus master are not seen.  Module AtaDevice implements   *)
(* this specification.                                                     *)
(*                                                                         *)
(* What it promises: the device does nothing while no command runs; each   *)
(* call has the device work once; 0 is returned for no failure and -1 for  *)
(* no success, unless the call was given up, when it may be either.        *)
(***************************************************************************)
EXTENDS Integers

VARIABLES
  state,     \* whether a command runs
  device,    \* "working" on a command or on a reset
  verdict,   \* how the command ended, "none" as long as it has not
  result     \* what the last command returned

vars == <<state, device, verdict, result>>

Init ==
  /\ state = "idle" /\ device = "ready"
  /\ verdict = "success" /\ result = 0

Call ==
  /\ state = "idle" /\ device = "ready"
  /\ state' = "running"
  /\ verdict' = "none"
  /\ UNCHANGED <<device, result>>

Accept ==
  /\ state = "running" /\ device = "ready" /\ verdict = "none"
  /\ device' = "working"
  /\ UNCHANGED <<state, verdict, result>>

End ==
  /\ state = "running" /\ device = "working" /\ verdict = "none"
  /\ device' = "ready"
  /\ verdict' \in {"success", "failure"}
  /\ UNCHANGED <<state, result>>

\* The timeout; the device may still be working or have ended by now.
GiveUp ==
  /\ state = "running"
  /\ device = "ready" => verdict # "none"
  /\ verdict' = "abandoned"
  /\ UNCHANGED <<state, device, result>>

\* The reset after a failure or a timeout.  Recover is its end, or the late end
\* of a command that was given up.
Reset ==
  /\ state = "running" /\ device = "ready"
  /\ verdict \in {"failure", "abandoned"}
  /\ device' = "working"
  /\ UNCHANGED <<state, verdict, result>>

Recover ==
  /\ state = "running" /\ device = "working"
  /\ verdict \in {"failure", "abandoned"}
  /\ device' = "ready"
  /\ UNCHANGED <<state, verdict, result>>

Return ==
  /\ state = "running" /\ device = "ready" /\ verdict # "none"
  /\ state' = "idle"
  /\ result' \in {0, -1}
  /\ verdict = "success" => result' = 0
  /\ verdict = "failure" => result' = -1
  /\ UNCHANGED <<device, verdict>>

Next == Call \/ Accept \/ End \/ GiveUp \/ Reset \/ Recover \/ Return

Spec == Init /\ [][Next]_vars
=============================================================================
