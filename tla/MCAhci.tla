------------------------------- MODULE MCAhci -------------------------------
(* Requests on both sides of the limits: the first and the last sector and the   *)
(* first and the last count of what a command can carry as the driver fills it,  *)
(* and a sector that needs the fourth byte of its address.                       *)
EXTENDS Ahci

asks(l, h, c, w) == [low |-> l, high |-> h, count |-> c, write |-> w]
Near == {asks(0, 0, 1, FALSE), asks(2 ^ 24 - 1, 0, 8192, TRUE)}
Far == {asks(2 ^ 24, 0, 1, FALSE), asks(65793, 258, 257, TRUE)}
=============================================================================
