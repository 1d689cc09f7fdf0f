------------------------------- MODULE Shell --------------------------------
(***************************************************************************)
(* From pci_enumerate to the shell: kernel_main finds the PCI devices,     *)
(* kshell_start reads lines, and parse_cmd runs the command a line names.  *)
(* How a line comes to be is in module LineInput; here it is given.        *)
(* Interrupts change nothing of what is modelled here; the clock on the    *)
(* board goes on while a command reads it.                                 *)
(***************************************************************************)
EXTENDS Pci, Rtc, Output

CONSTANTS
  Upper, Lower,       \* characters: capital letters, and the others
  small,              \* the small letter of each capital letter
  Space, NUL,
  CmdSize, LabelMax,  \* sizeof cmd, 256, and of label without its end, 8
  Name,               \* the names of the commands
  Lines,              \* what the user may type
  Memory              \* bytes of RAM the allocator reports: [ram, used, free]

Commands == {"about", "clear", "date", "help", "lspci", "meminfo", "ping", "time", "version"}
Clocked == {"date", "time"}
Plain == Commands \ (Clocked \cup {"clear", "lspci", "meminfo"})

Char == Upper \cup Lower \cup {Space}
Cmd == [1 .. CmdSize -> Char \cup {NUL}]

\* Every name is shorter than a label may be.
ASSUME ShellAssumption ==
  /\ Upper \cap Lower = {} /\ small \in [Upper -> Lower]
  /\ Space \notin Upper \cup Lower /\ NUL \notin Char
  /\ CmdSize \in Nat /\ LabelMax \in 1 .. CmdSize
  /\ Name \in [Commands -> Seq(Lower)]
  /\ \A c \in Commands : Len(Name[c]) \in 1 .. LabelMax - 1
  /\ \A c, d \in Commands : Name[c] = Name[d] => c = d
  /\ Lines \subseteq Cmd
ASSUME MemoryIsCounted == Memory \in [ram : Nat, used : Nat, free : Nat]

VARIABLES
  pc,        \* "enumerate", "prompt", "chosen", "clock", "list" or "done"
  cmd,       \* the line, in lower case from "chosen" on
  typed,     \* history: the line as it was typed
  command,   \* the command the label named, or "none"
  shown,     \* what the command printed: a sequence of printf's
  todo, got, \* date and time: the registers yet to be read, and the values read
  began,     \* history: the time when the command began
  met        \* history: a register was read during an update

reading == <<todo, got, began, met>>
vars == <<pci_vars, clock, pc, cmd, typed, command, shown, reading>>

Blank == [i \in 1 .. CmdSize |-> NUL]
Unread == [f \in Fields |-> 0]

Init ==
  /\ PciInit /\ now = 1 /\ updating = FALSE
  /\ pc = "enumerate" /\ cmd = Blank /\ typed = Blank /\ command = "none" /\ shown = <<>>
  /\ todo = {} /\ got = Unread /\ began = 1 /\ met = FALSE
-----------------------------------------------------------------------------
(***************************************************************************)
(* The label, and the command it names.                                    *)
(***************************************************************************)
to_lower(c) == IF c \in Upper THEN small[c] ELSE c

ends(c) == c \in {NUL, Space}

\* Mutant: the loop is one character short.
label_short(line) ==
  LET end == lowest({i \in 1 .. LabelMax : i = LabelMax \/ ends(line[i])})
  IN [i \in 1 .. end - 1 |-> line[i]]

\* At most LabelMax characters; the rest of a longer word is not looked at.
label(line) ==
  LET end == lowest({i \in 1 .. LabelMax + 1 : i = LabelMax + 1 \/ ends(line[i])})
  IN [i \in 1 .. end - 1 |-> line[i]]

\* strcmp returns 0: the strings agree up to and with the end of the first.
char_at(s, i) == IF i <= Len(s) THEN s[i] ELSE NUL
same(x, y) ==
  LET last == lowest({i \in 1 .. Len(x) + 1 : i = Len(x) + 1 \/ char_at(x, i) # char_at(y, i)})
  IN char_at(x, last) = char_at(y, last)

selected(line) == {c \in Commands : same(label(line), Name[c])}

console_read_line ==
  /\ pc = "prompt" /\ pc' = "chosen"
  /\ \E line \in Lines :
       /\ typed' = line
       /\ cmd' = [i \in 1 .. CmdSize |-> to_lower(line[i])]
  /\ command' \in (IF selected(cmd') = {} THEN {"none"} ELSE selected(cmd'))
  /\ shown' = <<>> /\ UNCHANGED <<pci_vars, clock, reading>>
-----------------------------------------------------------------------------
(***************************************************************************)
(* The commands.  The text of the plain ones is left out.                  *)
(***************************************************************************)
\* The line is of no use any more; cmd keeps it until memset clears it.
forget_line == cmd' = Blank /\ typed' = Blank

print_text ==
  /\ pc = "chosen" /\ command \in Plain \cup {"none", "clear"} /\ pc' = "done"
  /\ shown' = IF command \in Plain THEN <<printf(<<command>>, <<>>)>> ELSE <<>>
  /\ forget_line /\ UNCHANGED <<pci_vars, clock, command, reading>>

meminfo_format ==
  <<"RAM size: ", "%d", "MB", Newline, "    used: ", "%d", "MB", Newline, "    free: ", "%d", "MB">>
megabytes(bytes) == (bytes \div 1024) \div 1024
meminfo ==
  /\ pc = "chosen" /\ command = "meminfo" /\ pc' = "done"
  /\ shown' = <<printf(meminfo_format,
                       <<megabytes(Memory.ram), megabytes(Memory.used), megabytes(Memory.free)>>)>>
  /\ forget_line /\ UNCHANGED <<pci_vars, clock, command, reading>>

lspci ==
  /\ pc = "chosen" /\ command = "lspci" /\ pc' = "list"
  /\ forget_line /\ UNCHANGED <<pci_vars, clock, command, shown, reading>>

lspci_format ==
  <<"%d", ".", "%d", ".", "%d", " (0x", "%x", ", 0x", "%x", ", 0x", "%x", ", 0x", "%x", " 0x",
    "%x", ")", Newline>>

list_device ==
  /\ pc = "list"
  /\ IF Len(shown) < dev_index
     THEN LET pci == pci_devices[Len(shown) + 1] IN
          /\ shown' = Append(shown, printf(lspci_format,
               <<pci.bus, pci.device, pci.func, pci.vendor_id, pci.device_id, pci.class_id,
                 pci.subclass_id, pci.prog_interface_id>>))
          /\ UNCHANGED pc
     ELSE pc' = "done" /\ UNCHANGED shown
  /\ UNCHANGED <<pci_vars, clock, cmd, typed, command, reading>>

Shows == [date |-> <<"year", "month", "day">>, time |-> <<"hour", "minute", "second">>]
clock_format == <<"%d", ".", "%d", ".", "%d">>

\* The clock has gone on since it was last looked at.
date_or_time ==
  /\ pc = "chosen" /\ command \in Clocked /\ pc' = "clock"
  /\ now' \in 1 .. Len(Calendar) /\ updating' = FALSE
  /\ began' = now' /\ met' = FALSE /\ got' = Unread
  /\ todo' = {Shows[command][i] : i \in 1 .. 3}
  /\ forget_line /\ UNCHANGED <<pci_vars, command, shown>>

\* C leaves open in which order the three arguments of printf are evaluated.
read_register ==
  /\ pc = "clock"
  /\ \E f \in todo :
       /\ \E value \in rtc(f) : got' = [got EXCEPT ![f] = value]
       /\ todo' = todo \ {f}
  /\ met' = (met \/ updating)
  /\ UNCHANGED <<pci_vars, clock, pc, cmd, typed, command, shown, began>>
print_clock ==
  /\ pc = "clock" /\ todo = {} /\ pc' = "done"
  /\ shown' = <<printf(clock_format, [i \in 1 .. 3 |-> got[Shows[command][i]]])>>
  /\ UNCHANGED <<pci_vars, clock, cmd, typed, command, reading>>

\* The newline, if one is needed, and the next prompt.
next_prompt ==
  /\ pc = "done" /\ pc' = "prompt"
  /\ now' = 1 /\ updating' = FALSE /\ command' = "none" /\ shown' = <<>>
  /\ todo' = {} /\ got' = Unread /\ began' = 1 /\ met' = FALSE
  /\ UNCHANGED <<pci_vars, cmd, typed>>

parse_cmd ==
  \/ print_text \/ meminfo \/ lspci \/ list_device
  \/ date_or_time \/ read_register \/ print_clock

\* The log line of pci_enumerate, and then kshell_start; the keys in between are in
\* module Interrupts.
enumerate ==
  /\ pc = "enumerate" /\ enumerating /\ pci_enumerate
  /\ UNCHANGED <<clock, pc, cmd, typed, command, shown, reading>>
found_format == <<"Found ", "%d", " PCI devices.">>
enumerated ==
  /\ pc = "enumerate" /\ ~enumerating /\ pc' = "done"
  /\ shown' = <<console_log(found_format, <<dev_index>>)>>
  /\ UNCHANGED <<pci_vars, clock, cmd, typed, command, reading>>

\* Only a command that reads the clock can tell that it goes on.
Clock ==
  /\ pc = "clock" /\ (UpdateBegins \/ UpdateEnds)
  /\ UNCHANGED <<pci_vars, pc, cmd, typed, command, shown, reading>>

Next ==
  \/ enumerate \/ enumerated \/ console_read_line \/ parse_cmd \/ next_prompt
  \/ Clock

Spec == Init /\ [][Next]_vars
-----------------------------------------------------------------------------
Formats == {lspci_format, meminfo_format, clock_format, found_format}
Texts ==
  Plain \cup {"", "[LOG]", Newline}
  \cup UNION {{format[i] : i \in 1 .. Len(format)} : format \in Formats}
Pieces == [text : Texts, digits : Seq(0 .. 15)]

TypeOK ==
  /\ PciTypeOK
  /\ now \in 1 .. Len(Calendar) /\ updating \in BOOLEAN
  /\ pc \in {"enumerate", "prompt", "chosen", "clock", "list", "done"}
  /\ cmd \in Cmd /\ typed \in Cmd /\ command \in Commands \cup {"none"}
  /\ shown \in Seq(Seq(Pieces))
  /\ todo \subseteq Fields /\ got \in [Fields -> Nat]
  /\ began \in 1 .. Len(Calendar) /\ met \in BOOLEAN

\* The word a line begins with, in lower case.
FirstWordIs(line, word) ==
  /\ \A i \in 1 .. Len(word) : to_lower(line[i]) = word[i]
  /\ Len(word) = CmdSize \/ ends(line[Len(word) + 1])

\* The command that runs is the one whose name is the first word of the line: case
\* and what follows the word do not matter, and a longer word, of which the label is
\* only a part, is not taken for a shorter name.
RunsWhatWasTyped ==
  pc = "chosen" =>
    \A c \in Commands : command = c <=> FirstWordIs(typed, Name[c])

ListedAs(p) ==
  LET words == machine[p] IN
  printf(lspci_format,
    <<p[1], p[2], p[3], words[0], words[2], words[10] \div 256, words[10] % 256,
      words[8] \div 256>>)

\* lspci shows every function that can be found, each on one line, with the numbers
\* of its header.
LspciShowsTheMachine ==
  pc = "done" /\ command = "lspci" =>
    /\ {shown[i] : i \in 1 .. Len(shown)} = {ListedAs(p) : p \in Functions}
    /\ Len(shown) = Cardinality(Functions)

\* The number the digits stand for, as it is read.
Numeral(piece) ==
  LET d == piece.digits IN
  CASE Len(d) = 1 -> d[1] [] Len(d) = 2 -> d[1] * 10 + d[2] [] Len(d) = 3 -> d[1] * 100 + d[2] * 10 + d[3]

\* date and time show a day or a time that was, although the clock goes on between
\* one register and the next: as long as no update was in progress at a read and the
\* last field alone changed. Otherwise the fields may be of different times.
ClockShowsATime ==
  LET fields == Shows[command]
      during == began .. now IN
  pc = "done" /\ command \in Clocked /\ ~met
    /\ (\A t \in during, i \in 1 .. 2 : Calendar[t][fields[i]] = Calendar[began][fields[i]])
  => \E t \in during : \A i \in 1 .. 3 : Numeral(shown[1][2 * i - 1]) = Calendar[t][fields[i]]
=============================================================================
