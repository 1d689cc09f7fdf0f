----------------------------- MODULE MCLineInput -----------------------------
(* Constants for the runs of LineInput that a .cfg cannot write itself. *)
EXTENDS LineInput
CONSTANTS a, b

JustA == {a}
JustB == {b}
NoKeys == {}
MinusOne == -1
=============================================================================
