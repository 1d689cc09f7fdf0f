-------------------------------- MODULE Rtc ---------------------------------
(***************************************************************************)
(* The real-time clock: its registers hold the time in BCD, and once a     *)
(* second it updates them.  rtc.c reads one register at a time and does    *)
(* not look whether an update is in progress; what is read then is no part *)
(* of any time.                                                            *)
(***************************************************************************)
EXTENDS Naturals, Sequences

CONSTANTS
  Calendar,   \* the times the clock passes through, second by second
  Garbage     \* what a register may read as during an update

Fields == {"year", "month", "day", "hour", "minute", "second"}
Time == [Fields -> 0 .. 99]

ASSUME RtcAssumption == Calendar \in Seq(Time) /\ Calendar # <<>> /\ Garbage \subseteq 0 .. 255

VARIABLES
  now,        \* the time on the clock, an index of Calendar
  updating    \* an update is in progress

clock == <<now, updating>>

\* The registers' addresses in rtc.h, and what the chip keeps there.
Reg == [second |-> 0, minute |-> 2, hour |-> 4, day |-> 7, month |-> 8, year |-> 9]
Cmos(register) ==
  CASE register = 0 -> "second" [] register = 2 -> "minute" [] register = 4 -> "hour"
    [] register = 7 -> "day" [] register = 8 -> "month" [] register = 9 -> "year"

\* Mutant: the digits are taken for hexadecimal.
bcdtobin_hex(value) == value

bcdtobin(value) == (value \div 16) * 10 + (value % 16)
bcd(n) == (n \div 10) * 16 + (n % 10)

\* What port 0x71 may give for a register.
inb(register) ==
  {bcd(Calendar[now][Cmos(register)])} \cup (IF updating THEN Garbage ELSE {})

\* The getters rtc_year to rtc_second.
rtc(field) == {bcdtobin(value) : value \in inb(Reg[field])}

UpdateBegins == ~updating /\ now < Len(Calendar) /\ updating' = TRUE /\ UNCHANGED now
UpdateEnds == updating /\ updating' = FALSE /\ now' = now + 1
=============================================================================
