------------------------------ MODULE MCShell -------------------------------
(* Two buses of two devices with two functions.  A line is made of one letter,   *)
(* small or capital, and spaces, or is the name of a command.                    *)
EXTENDS Shell, SequencesExt

CONSTANTS a, b, c, A

Device(id, class, subclass, prog, type, bar) ==
  [offset \in Offsets |->
     CASE offset = 0 -> 32902 [] offset = 2 -> id [] offset = 8 -> prog * 256
       [] offset = 10 -> class * 256 + subclass [] offset = 14 -> type
       [] offset = 36 -> bar [] offset = 38 -> 0]

\* A device with one function, one with more, and AHCI controllers of both kinds.
Kinds == {Device(4663, 6, 0, 0, 0, 0), Device(28672, 6, 1, 0, 128, 0),
          Device(10530, 1, 6, 1, 0, 64), Device(10530, 1, 6, 1, 128, 64)}
SmallMachines ==
  UNION {[S -> Kinds] : S \in {S \in SUBSET Places : Cardinality(S) <= 2}}
  \cup {[p \in S |-> k] : S \in {S \in SUBSET Places : Cardinality(S) = 3}, k \in {k \in Kinds : k[14] # 0}}
AllWords == UNION {{k[o] : o \in Offsets} : k \in Kinds}
SomeLeftovers == {0}

time(y, mo, d, h, mi, s) ==
  [year |-> y, month |-> mo, day |-> d, hour |-> h, minute |-> mi, second |-> s]
Midnight == <<time(23, 12, 30, 23, 59, 59), time(23, 12, 31, 0, 0, 0), time(23, 12, 31, 0, 0, 1)>>
NoTime == {153}

Capital == {A}
Small == {a, b, c}
small_letter == [u \in {A} |-> a]
Names == [about |-> <<b>>, clear |-> <<c>>, date |-> <<a>>, help |-> <<a, b>>, lspci |-> <<a, a>>,
          meminfo |-> <<b, b>>, ping |-> <<c, c>>, time |-> <<a, c>>, version |-> <<c, b>>]
line_of(s) == [i \in 1 .. CmdSize |-> IF i <= Len(s) THEN s[i] ELSE NUL]
SomeLines ==
  {line_of(s) : s \in UNION {[1 .. n -> {a, A, Space}] : n \in 0 .. CmdSize}}
  \cup {line_of(Names[k]) : k \in Commands}
SomeMemory == [ram |-> 134217728, used |-> 3145728, free |-> 131072000]
=============================================================================
