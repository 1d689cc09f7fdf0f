----------------------------- MODULE LineEditor -----------------------------
(***************************************************************************)
(* What console_read_line promises the shell, seen from the screen: while  *)
(* a line is open, characters come to its end and go from its end; it      *)
(* ends once, with Enter or with a key on a full line; and the shell is    *)
(* then given the line that the user saw, cut to the size of the buffer.   *)
(* The promise is not made for characters that came while the line was     *)
(* still being opened: of those the shell may miss any, and of those that  *)
(* came later none, whether or not they are in the same line.              *)
(***************************************************************************)
EXTENDS Naturals, Sequences

CONSTANTS Chars, NUL, LineSize

VARIABLES
  phase,   \* "idle", "opening", "reading", "ended" or "returned"
  text,    \* the characters of the line on the screen
  lost,    \* the places of characters that the shell will not be given
  line     \* what the shell is given: LineSize bytes

vars == <<phase, text, lost, line>>

NoLine == [i \in 1 .. LineSize |-> NUL]

Init == phase = "idle" /\ text = <<>> /\ lost = {} /\ line = NoLine

Open ==
  /\ phase = "idle" /\ phase' = "opening"
  /\ text' = <<>> /\ lost' = {} /\ UNCHANGED line

Ready == phase = "opening" /\ phase' = "reading" /\ UNCHANGED <<text, lost, line>>

Accepting == phase \in {"opening", "reading"}

\* A full line is ended by the next key, whatever else the key does.
AfterKey == IF Len(text) = LineSize THEN "ended" ELSE phase

Type(c) ==
  /\ Accepting /\ phase' = AfterKey /\ text' = Append(text, c) /\ UNCHANGED line
  /\ \/ lost' = lost \ {Len(text) + 1}
     \/ phase = "opening" /\ lost' = lost \cup {Len(text) + 1}

Erase ==
  /\ Accepting /\ phase' = AfterKey /\ UNCHANGED line
  /\ text # <<>> /\ text' = SubSeq(text, 1, Len(text) - 1)
  /\ lost' = lost \ {Len(text)}

End ==
  /\ Accepting /\ phase' = "ended"
  /\ UNCHANGED <<text, lost, line>>

\* The bytes the shell is given; those in lost are blank.
Given == [i \in 1 .. LineSize |-> IF i <= Len(text) /\ i \notin lost THEN text[i] ELSE NUL]

Return ==
  /\ phase = "ended" /\ phase' = "returned"
  /\ text' = <<>> /\ lost' = {} /\ line' = Given

Parse == phase = "returned" /\ phase' = "idle" /\ line' = NoLine /\ UNCHANGED <<text, lost>>

Next == Open \/ Ready \/ (\E c \in Chars : Type(c)) \/ Erase \/ End \/ Return \/ Parse

Safety == Init /\ [][Next]_vars

\* A line that has ended is given to the shell, which then is ready for the next one.
Spec == Safety /\ WF_vars(Return) /\ WF_vars(Parse)
=============================================================================
