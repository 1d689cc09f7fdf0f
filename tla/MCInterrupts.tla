---------------------------- MODULE MCInterrupts ----------------------------
(* A line of the master and two of the slave beside timer and keyboard: the     *)
(* slave's first, and the two that a spurious request comes as.                 *)
EXTENDS Interrupts

SomeDevices == {7, 8, 15}
=============================================================================
