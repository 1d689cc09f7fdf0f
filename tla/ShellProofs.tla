---------------------------- MODULE ShellProofs -----------------------------
(***************************************************************************)
(* For every machine, every set of names and every line: what              *)
(* pci_enumerate finds, which controller is driven, and which command      *)
(* runs.                                                                   *)
(***************************************************************************)
EXTENDS Shell, OutputProofs, FiniteSetTheorems, SequenceTheorems

-----------------------------------------------------------------------------
(***************************************************************************)
(* parse_cmd chooses the command.                                          *)
(***************************************************************************)
\* strcmp: it returns 0 for equal strings only.
LEMMA StrcmpEqual ==
  ASSUME NEW x \in Seq(Char), NEW y \in Seq(Char)
  PROVE  same(x, y) <=> x = y
<1> DEFINE D == {i \in 1 .. Len(x) + 1 : i = Len(x) + 1 \/ char_at(x, i) # char_at(y, i)}
           last == lowest(D)
<1>1. Len(x) \in Nat /\ Len(y) \in Nat  OBVIOUS
<1>2. last \in D /\ \A j \in D : last <= j
  <2>1. D \in SUBSET Nat  BY <1>1
  <2>2. Len(x) + 1 \in D  BY <1>1
  <2> QED BY <2>1, <2>2, LowestExists
<1>3. same(x, y) <=> char_at(x, last) = char_at(y, last)  BY DEF same
<1>4. ASSUME x = y PROVE same(x, y)  BY <1>3, <1>4
<1>5. ASSUME same(x, y) PROVE x = y
  <2>1. last = Len(x) + 1  BY <1>2, <1>3, <1>5
  <2>2. \A i \in 1 .. Len(x) : char_at(x, i) = char_at(y, i)  BY <1>1, <1>2, <2>1
  <2>3. \A i \in 1 .. Len(x) : x[i] # NUL  BY ShellAssumption
  <2>4. \A i \in 1 .. Len(y) : y[i] # NUL  BY ShellAssumption
  <2>5. \A i \in 1 .. Len(x) : i <= Len(y) /\ x[i] = y[i]  BY <1>1, <2>2, <2>3 DEF char_at
  <2>6. Len(y) < Len(x) + 1
    <3>1. char_at(y, Len(x) + 1) = NUL  BY <1>1, <1>3, <1>5, <2>1 DEF char_at
    <3> QED BY <1>1, <2>4, <3>1 DEF char_at
  <2>7. Len(x) = Len(y)  BY <1>1, <2>5, <2>6
  <2> QED BY <2>5, <2>7
<1> QED BY <1>4, <1>5

\* The label is a name only if the name is the whole first word of the line: a name
\* is too short to be a label that was cut.
LEMMA LabelIsFirstWord ==
  ASSUME NEW line \in Cmd, NEW c \in Commands
  PROVE  /\ label(line) \in Seq(Char)
         /\ label(line) = Name[c] <=>
              /\ \A i \in 1 .. Len(Name[c]) : line[i] = Name[c][i]
              /\ ends(line[Len(Name[c]) + 1])
<1> DEFINE D == {i \in 1 .. LabelMax + 1 : i = LabelMax + 1 \/ ends(line[i])}
           end == lowest(D)
           w == Name[c]
<1>1. LabelMax \in Nat /\ CmdSize \in Nat /\ LabelMax <= CmdSize  BY ShellAssumption
<1>2. end \in D /\ \A j \in D : end <= j
  <2>1. D \in SUBSET Nat  BY <1>1
  <2>2. LabelMax + 1 \in D  BY <1>1
  <2> QED BY <2>1, <2>2, LowestExists
<1>3. label(line) = [i \in 1 .. end - 1 |-> line[i]]  BY DEF label
<1>4. end \in Nat /\ end >= 1 /\ end <= LabelMax + 1  BY <1>1, <1>2
<1>5. \A i \in 1 .. end - 1 : line[i] \in Char
  <2> SUFFICES ASSUME NEW i \in 1 .. end - 1 PROVE line[i] \in Char  OBVIOUS
  <2>1. i \in 1 .. LabelMax /\ i < end  BY <1>1, <1>4
  <2>2. ~ends(line[i])  BY <1>1, <1>2, <2>1
  <2>3. line[i] \in Char \cup {NUL}  BY <1>1, <2>1 DEF Cmd
  <2> QED BY <2>2, <2>3 DEF ends
<1>6. label(line) \in Seq(Char) /\ Len(label(line)) = end - 1
  BY <1>3, <1>4, <1>5
<1>7. w \in Seq(Lower) /\ Len(w) \in 1 .. LabelMax - 1  BY ShellAssumption
<1>8. ASSUME label(line) = w
      PROVE  (\A i \in 1 .. Len(w) : line[i] = w[i]) /\ ends(line[Len(w) + 1])
  <2>1. end = Len(w) + 1 /\ end <= LabelMax  BY <1>1, <1>4, <1>6, <1>7, <1>8
  <2>2. ends(line[end])  BY <1>1, <1>2, <2>1
  <2>3. \A i \in 1 .. Len(w) : line[i] = w[i]  BY <1>3, <1>4, <1>8, <2>1
  <2> QED BY <2>1, <2>2, <2>3
<1>9. ASSUME \A i \in 1 .. Len(w) : line[i] = w[i], ends(line[Len(w) + 1])
      PROVE  label(line) = w
  <2>1. Len(w) + 1 \in D  BY <1>1, <1>7, <1>9
  <2>2. \A i \in 1 .. Len(w) : i \notin D
    <3> SUFFICES ASSUME NEW i \in 1 .. Len(w) PROVE i \notin D  OBVIOUS
    <3>1. line[i] \in Lower  BY <1>7, <1>9
    <3>2. ~ends(line[i])  BY <3>1, ShellAssumption DEF ends, Char
    <3> QED BY <1>1, <1>7, <3>2
  <2>3. end = Len(w) + 1  BY <1>2, <1>4, <1>7, <2>1, <2>2
  <2>4. end - 1 = Len(w)  BY <1>7, <2>3
  <2>5. w = [i \in 1 .. Len(w) |-> w[i]]  BY <1>7
  <2>6. label(line) = [i \in 1 .. Len(w) |-> w[i]]  BY <1>3, <1>9, <2>4
  <2> QED BY <2>5, <2>6
<1> QED BY <1>6, <1>8, <1>9

\* Lower case changes neither the ends of words nor the type of a line.
LEMMA LowerCase ==
  ASSUME NEW c \in Char \cup {NUL}
  PROVE  to_lower(c) \in Char \cup {NUL} /\ (ends(to_lower(c)) <=> ends(c))
  BY ShellAssumption DEF Char, to_lower, ends

\* The commands the label selects: those whose name is the first word of the line.
LEMMA SelectedIsFirstWord ==
  ASSUME NEW line \in Cmd, NEW c \in Commands
  PROVE  LET lower == [i \in 1 .. CmdSize |-> to_lower(line[i])]
         IN  lower \in Cmd /\ (c \in selected(lower) <=> FirstWordIs(line, Name[c]))
<1> DEFINE lower == [i \in 1 .. CmdSize |-> to_lower(line[i])]
           w == Name[c]
<1>1. \A i \in 1 .. CmdSize : line[i] \in Char \cup {NUL}  BY DEF Cmd
<1>2. lower \in Cmd  BY <1>1, LowerCase DEF Cmd
<1>3. w \in Seq(Lower) /\ w \in Seq(Char) /\ Len(w) \in 1 .. LabelMax - 1 /\ LabelMax \in 1 .. CmdSize
      /\ CmdSize \in Nat
  BY ShellAssumption DEF Char
<1>4. c \in selected(lower) <=> label(lower) = w
  BY <1>2, <1>3, LabelIsFirstWord, StrcmpEqual DEF selected
<1>5. label(lower) = w <=>
        (\A i \in 1 .. Len(w) : lower[i] = w[i]) /\ ends(lower[Len(w) + 1])
  BY <1>2, LabelIsFirstWord
<1>6. ends(lower[Len(w) + 1]) <=> ends(line[Len(w) + 1])
  <2>1. Len(w) + 1 \in 1 .. CmdSize  BY <1>3
  <2> QED BY <1>1, <2>1, LowerCase
<1>7. Len(w) # CmdSize /\ \A i \in 1 .. Len(w) : lower[i] = to_lower(line[i])  BY <1>3
<1> QED BY <1>2, <1>4, <1>5, <1>6, <1>7 DEF FirstWordIs

\* parse_cmd runs the command whose name is the first word of the line, and no other.
THEOREM CommandIsWhatWasTyped == Spec => []RunsWhatWasTyped
<1>1. Init => RunsWhatWasTyped  BY DEF Init, RunsWhatWasTyped
<1>2. RunsWhatWasTyped /\ [Next]_vars => RunsWhatWasTyped'
  <2> SUFFICES ASSUME RunsWhatWasTyped, [Next]_vars PROVE RunsWhatWasTyped'  OBVIOUS
  <2>1. CASE console_read_line
    <3> SUFFICES ASSUME NEW c \in Commands
                 PROVE  command' = c <=> FirstWordIs(typed', Name[c])
      BY DEF RunsWhatWasTyped
    <3>1. typed' \in Cmd /\ cmd' = [i \in 1 .. CmdSize |-> to_lower(typed'[i])]
      BY <2>1, ShellAssumption DEF console_read_line
    <3>2. \A d \in Commands : d \in selected(cmd') <=> FirstWordIs(typed', Name[d])
      BY <3>1, SelectedIsFirstWord
    <3>3. \A d, e \in selected(cmd') : d = e
      <4> SUFFICES ASSUME NEW d \in selected(cmd'), NEW e \in selected(cmd') PROVE d = e
        OBVIOUS
      <4>1. d \in Commands /\ e \in Commands  BY DEF selected
      <4>2. cmd' \in Cmd  BY <3>1, SelectedIsFirstWord
      <4>3. label(cmd') \in Seq(Char) /\ Name[d] \in Seq(Char) /\ Name[e] \in Seq(Char)
        BY <4>1, <4>2, LabelIsFirstWord, ShellAssumption DEF Char
      <4>4. label(cmd') = Name[d] /\ label(cmd') = Name[e]
        BY <4>3, StrcmpEqual DEF selected
      <4> QED BY <4>1, <4>4, ShellAssumption
    <3>4. selected(cmd') \subseteq Commands  BY DEF selected
    <3>5. command' \in (IF selected(cmd') = {} THEN {"none"} ELSE selected(cmd'))
      BY <2>1 DEF console_read_line
    <3>6. "none" \notin Commands  BY DEF Commands
    <3> QED BY <3>2, <3>3, <3>4, <3>5, <3>6
  <2>2. CASE ~console_read_line
    <3>1. pc' = "chosen" => pc = "chosen" /\ typed' = typed /\ command' = command
      BY <2>2 DEF Next, enumerate, enumerated, parse_cmd, print_text, meminfo, lspci, list_device,
         date_or_time, read_register, print_clock, next_prompt, Clock, vars
    <3> QED BY <3>1 DEF RunsWhatWasTyped, FirstWordIs
  <2> QED BY <2>1, <2>2
<1> QED BY <1>1, <1>2, PTL DEF Spec
-----------------------------------------------------------------------------
(***************************************************************************)
(* pci_enumerate.                                                          *)
(***************************************************************************)
Entry == [bus : Nat, device : Nat, func : Nat, vendor_id : Nat, device_id : Nat,
          prog_interface_id : Nat, subclass_id : Nat, class_id : Nat, header_type : Nat, bar5 : Nat]

\* Functions other than 0 are asked only of a device whose function 0 has them.
Loops ==
  /\ machine \in Machines
  /\ at \in [bus : 0 .. LastBus + 1, device : 0 .. LastDevice, func : 0 .. LastFunc]
  /\ at.func > 0 => <<at.bus, at.device, 0>> \in DOMAIN machine
                    /\ multi_function(<<at.bus, at.device, 0>>)
  /\ pci_devices \in Seq(Entry) /\ pci_device \in Nat

PciInv == Loops /\ EveryFunctionOnce /\ FirstControllerDriven

\* What answers has a vendor.
LEMMA PresentAnswers ==
  ASSUME Loops, NEW p
  PROVE  present(p) <=> p \in DOMAIN machine
  BY PciAssumption DEF Loops, present, pci_read_word

\* Functions of the machine are places.
LEMMA FunctionPlaces ==
  ASSUME Loops, NEW p \in Functions
  PROVE  /\ p \in DOMAIN machine /\ p = <<p[1], p[2], p[3]>>
         /\ p[1] \in 0 .. LastBus /\ p[2] \in 0 .. LastDevice /\ p[3] \in 0 .. LastFunc
  BY PciAssumption DEF Loops, Functions, Places

\* Going on from a place where nothing is, no function is passed.
LEMMA PassNothing ==
  ASSUME Loops, enumerating, at.func = 0, place \notin DOMAIN machine
  PROVE  /\ next_device \in [bus : 0 .. LastBus + 1, device : 0 .. LastDevice, func : 0 .. LastFunc]
         /\ \A p \in Functions :
              before(p, <<next_device.bus, next_device.device, next_device.func>>)
                <=> before(p, place)
<1>1. at.bus \in 0 .. LastBus /\ at.device \in 0 .. LastDevice
      /\ LastBus \in Nat /\ LastDevice \in Nat /\ LastFunc \in Nat
  BY PciAssumption DEF Loops, enumerating
<1>2. next_device \in [bus : 0 .. LastBus + 1, device : 0 .. LastDevice, func : 0 .. LastFunc]
  BY <1>1 DEF next_device
<1>3. ASSUME NEW p \in Functions
      PROVE  before(p, <<next_device.bus, next_device.device, next_device.func>>)
               <=> before(p, place)
  <2>1. p \in DOMAIN machine /\ p = <<p[1], p[2], p[3]>>
        /\ p[1] \in 0 .. LastBus /\ p[2] \in 0 .. LastDevice /\ p[3] \in 0 .. LastFunc
    BY FunctionPlaces
  <2>2. ~(p[1] = at.bus /\ p[2] = at.device)
    <3> SUFFICES ASSUME p[1] = at.bus, p[2] = at.device PROVE FALSE  OBVIOUS
    <3>1. <<p[1], p[2], 0>> = place  BY DEF place
    <3> QED BY <2>1, <3>1 DEF Functions
  <2>3. CASE at.device = LastDevice
    <3>1. next_device = [bus |-> at.bus + 1, device |-> 0, func |-> 0]  BY <2>3 DEF next_device
    <3> QED BY <1>1, <2>1, <2>2, <2>3, <3>1 DEF before, place
  <2>4. CASE at.device # LastDevice
    <3>1. next_device = [bus |-> at.bus, device |-> at.device + 1, func |-> 0]
      BY <2>4 DEF next_device
    <3> QED BY <1>1, <2>1, <2>2, <3>1 DEF before, place
  <2> QED BY <2>3, <2>4
<1> QED BY <1>2, <1>3

\* Going on from a place of a device, only the function there is passed.
LEMMA PassFunction ==
  ASSUME Loops, enumerating, at.func > 0 \/ place \in DOMAIN machine
  PROVE  /\ next_function \in [bus : 0 .. LastBus + 1, device : 0 .. LastDevice, func : 0 .. LastFunc]
         /\ next_function.func > 0 =>
              /\ next_function.bus = at.bus /\ next_function.device = at.device
              /\ <<at.bus, at.device, 0>> \in DOMAIN machine
              /\ multi_function(<<at.bus, at.device, 0>>)
         /\ \A p \in Functions :
              before(p, <<next_function.bus, next_function.device, next_function.func>>)
                <=> before(p, place) \/ p = place
<1>1. at.bus \in 0 .. LastBus /\ at.device \in 0 .. LastDevice /\ at.func \in 0 .. LastFunc
      /\ LastBus \in Nat /\ LastDevice \in Nat /\ LastFunc \in Nat
      /\ at = [bus |-> at.bus, device |-> at.device, func |-> at.func]
  BY PciAssumption DEF Loops, enumerating
<1>2. \A p \in Functions :
        p \in DOMAIN machine /\ p = <<p[1], p[2], p[3]>>
        /\ p[1] \in 0 .. LastBus /\ p[2] \in 0 .. LastDevice /\ p[3] \in 0 .. LastFunc
  BY FunctionPlaces
<1>3. CASE (at.func = 0 /\ ~multi_function(place)) \/ at.func = LastFunc
  <2>1. next_function = next_device  BY <1>3 DEF next_function
  <2>2. \A p \in Functions : p[1] = at.bus /\ p[2] = at.device => p[3] <= at.func
    <3> SUFFICES ASSUME NEW p \in Functions, p[1] = at.bus, p[2] = at.device
                 PROVE p[3] <= at.func  OBVIOUS
    <3>1. CASE at.func = LastFunc  BY <1>1, <1>2, <3>1
    <3>2. CASE at.func = 0 /\ ~multi_function(place)
      <4>1. <<p[1], p[2], 0>> = place  BY <3>2 DEF place
      <4>2. p[3] = 0  BY <3>2, <4>1 DEF Functions
      <4> QED BY <3>2, <4>2
    <3> QED BY <1>3, <3>1, <3>2
  <2>3. CASE at.device = LastDevice
    <3>1. next_device = [bus |-> at.bus + 1, device |-> 0, func |-> 0]  BY <2>3 DEF next_device
    <3> QED BY <1>1, <1>2, <2>1, <2>2, <2>3, <3>1 DEF before, place
  <2>4. CASE at.device # LastDevice
    <3>1. next_device = [bus |-> at.bus, device |-> at.device + 1, func |-> 0]
      BY <2>4 DEF next_device
    <3> QED BY <1>1, <1>2, <2>1, <2>2, <2>4, <3>1 DEF before, place
  <2> QED BY <2>3, <2>4
<1>4. CASE ~((at.func = 0 /\ ~multi_function(place)) \/ at.func = LastFunc)
  <2>1. next_function = [bus |-> at.bus, device |-> at.device, func |-> at.func + 1]
    BY <1>1, <1>4 DEF next_function
  <2>2. <<at.bus, at.device, 0>> \in DOMAIN machine /\ multi_function(<<at.bus, at.device, 0>>)
    BY <1>1, <1>4 DEF Loops, place
  <2> QED BY <1>1, <1>2, <1>4, <2>1, <2>2 DEF before, place
<1> QED BY <1>3, <1>4

LEMMA InitPci == Init => PciInv
<1> SUFFICES ASSUME Init PROVE PciInv  OBVIOUS
<1> USE DEF Init, PciInit
<1>1. Loops  BY PciAssumption DEF Loops
<1>2. \A p \in Functions : ~before(p, place)  BY <1>1, FunctionPlaces, PciAssumption DEF before, place
<1>3. EveryFunctionOnce  BY <1>2 DEF EveryFunctionOnce, dev_index
<1>4. FirstControllerDriven  BY DEF FirstControllerDriven, AhciEntries, dev_index
<1> QED BY <1>1, <1>3, <1>4 DEF PciInv

\* A step on which nothing is found leaves the table as it is.
LEMMA NothingFound ==
  ASSUME PciInv, no_device \/ no_function
  PROVE  PciInv'
<1>1. Loops /\ enumerating /\ place \notin DOMAIN machine
  BY PresentAnswers DEF PciInv, no_device, no_function
<1>2. UNCHANGED <<machine, pci_devices, pci_device, abar>>  BY DEF no_device, no_function
<1>3. /\ at' \in [bus : 0 .. LastBus + 1, device : 0 .. LastDevice, func : 0 .. LastFunc]
      /\ at'.func > 0 => <<at'.bus, at'.device, 0>> \in DOMAIN machine
                         /\ multi_function(<<at'.bus, at'.device, 0>>)
      /\ \A p \in Functions : before(p, place') <=> before(p, place)
  <2>1. CASE no_device
    <3>1. at.func = 0 /\ at' = next_device  BY <2>1 DEF no_device
    <3>2. at'.func = 0  BY <3>1 DEF next_device
    <3> QED BY <1>1, <3>1, <3>2, PassNothing DEF place
  <2>2. CASE no_function
    <3>1. at.func > 0 /\ at' = next_function  BY <2>2 DEF no_function
    <3>2. place \notin Functions  BY <1>1 DEF Functions
    <3> QED BY <1>1, <3>1, <3>2, PassFunction DEF place
  <2> QED BY <2>1, <2>2
<1>4. Functions' = Functions
  BY <1>2 DEF Functions, multi_function, pci_read_word
<1>5. Loops'
  BY <1>1, <1>2, <1>3 DEF Loops, multi_function, pci_read_word
<1>6. EveryFunctionOnce'
  <2>1. {p \in Functions : before(p, place')} = {p \in Functions : before(p, place)}  BY <1>3
  <2> QED BY <1>2, <1>4, <2>1 DEF PciInv, EveryFunctionOnce, dev_index, place_of
<1>7. FirstControllerDriven'
  BY <1>2 DEF PciInv, FirstControllerDriven, AhciEntries, dev_index, place_of
<1> QED BY <1>5, <1>6, <1>7 DEF PciInv

\* The entry check_device makes.
LEMMA HeaderType ==
  ASSUME Loops, NEW leftover \in Leftovers, enumerating
  PROVE  header(place, leftover) \in Entry
<1>1. ASSUME NEW o \in Offsets PROVE pci_read_word(place, o) \in Nat
  <2>1. CASE place \in DOMAIN machine
    <3>1. machine[place] \in [Offsets -> Words] /\ Words \subseteq Nat
      BY <2>1, PciAssumption DEF Loops
    <3>2. machine[place][o] \in Nat  BY <3>1
    <3> QED BY <2>1, <3>2 DEF pci_read_word
  <2>2. CASE place \notin DOMAIN machine  BY <2>2 DEF pci_read_word, NoVendor
  <2> QED BY <2>1, <2>2
<1>2. \A w \in Nat : low_byte(w) \in Nat /\ high_byte(w) \in Nat
  BY DEF low_byte, high_byte
<1>3. at.bus \in Nat /\ at.device \in Nat /\ at.func \in Nat
  BY PciAssumption DEF Loops
<1>4. leftover \in Nat  BY PciAssumption
<1>5. 0 \in Offsets /\ 2 \in Offsets /\ 8 \in Offsets /\ 10 \in Offsets /\ 14 \in Offsets
      /\ 36 \in Offsets /\ 38 \in Offsets
  BY DEF Offsets
<1> HIDE DEF Offsets
<1> DEFINE w(o) == pci_read_word(place, o)
<1>6. w(38) * 65536 + w(36) \in Nat  BY <1>1, <1>5
<1> QED BY <1>1, <1>2, <1>3, <1>4, <1>5, <1>6 DEF header, place, Entry

\* check_device enters the function found behind the others.
LEMMA FunctionFound ==
  ASSUME PciInv, found
  PROVE  PciInv'
<1>1. Loops /\ enumerating /\ place \in DOMAIN machine /\ UNCHANGED machine /\ at' = next_function
  BY PresentAnswers DEF PciInv, found
<1>2. PICK leftover \in Leftovers :
        /\ pci_devices' = Append(pci_devices, header(place, leftover))
        /\ IF is_ahci(header(place, leftover)) THEN ahci_init(header(place, leftover))
           ELSE UNCHANGED <<pci_device, abar>>
  BY DEF found, check_device
<1> DEFINE pci == header(place, leftover)
<1>3. pci \in Entry  BY <1>1, HeaderType
<1>4. pci_devices \in Seq(Entry) /\ dev_index \in Nat /\ pci_device \in Nat
  BY <1>1 DEF Loops, dev_index
<1>5. PICK n \in Nat : n = dev_index  BY <1>4
<1>6. /\ pci_devices' \in Seq(Entry) /\ dev_index' = n + 1
      /\ \A i \in 1 .. n : pci_devices'[i] = pci_devices[i]
      /\ pci_devices'[n + 1] = pci
      /\ \A i \in 1 .. n : place_of(i)' = place_of(i)
      /\ place_of(n + 1)' = place
  <2>1. pci_devices' = Append(pci_devices, pci)  BY <1>2
  <2>2. <<pci.bus, pci.device, pci.func>> = place  BY DEF header, place
  <2> HIDE DEF pci
  <2>3. /\ pci_devices' \in Seq(Entry) /\ dev_index' = n + 1
        /\ \A i \in 1 .. n : pci_devices'[i] = pci_devices[i]
        /\ pci_devices'[n + 1] = pci
    BY <1>3, <1>4, <1>5, <2>1 DEF dev_index
  <2> QED BY <2>2, <2>3 DEF place_of
<1>7. Functions' = Functions /\ place \in Functions
  <2>1. Functions' = Functions  BY <1>1 DEF Functions, multi_function, pci_read_word
  <2>2. place \in Functions
    <3>1. place[1] = at.bus /\ place[2] = at.device /\ place[3] = at.func  BY DEF place
    <3>2. CASE at.func = 0  BY <1>1, <3>1, <3>2 DEF Functions
    <3>3. CASE at.func > 0  BY <1>1, <3>1, <3>3 DEF Functions, Loops
    <3>4. at.func \in Nat  BY <1>1, PciAssumption DEF Loops
    <3> QED BY <3>2, <3>3, <3>4
  <2> QED BY <2>1, <2>2
<1>8. /\ at' \in [bus : 0 .. LastBus + 1, device : 0 .. LastDevice, func : 0 .. LastFunc]
      /\ at'.func > 0 => <<at'.bus, at'.device, 0>> \in DOMAIN machine
                         /\ multi_function(<<at'.bus, at'.device, 0>>)
      /\ \A p \in Functions : before(p, place') <=> before(p, place) \/ p = place
  BY <1>1, PassFunction DEF place
<1>9. Loops'
  <2>1. pci_device' \in Nat  BY <1>2, <1>4 DEF ahci_init
  <2> QED BY <1>1, <1>6, <1>8, <2>1 DEF Loops, multi_function, pci_read_word
<1>10. EveryFunctionOnce'
  <2>1. {place_of(i) : i \in 1 .. n} = {p \in Functions : before(p, place)}
    BY <1>5 DEF PciInv, EveryFunctionOnce
  <2>2. {place_of(i)' : i \in 1 .. n + 1} = {place_of(i) : i \in 1 .. n} \cup {place}
    BY <1>5, <1>6
  <2>3. {p \in Functions : before(p, place')} = {p \in Functions : before(p, place)} \cup {place}
    BY <1>7, <1>8
  <2>4. ({place_of(i) : i \in 1 .. dev_index} = {p \in Functions : before(p, place)})'
    BY <1>6, <1>7, <2>1, <2>2, <2>3
  <2>5. ASSUME NEW i \in 1 .. n + 1, NEW j \in 1 .. n + 1, i < j
        PROVE  before(place_of(i)', place_of(j)')
    <3>1. i \in 1 .. n  BY <2>5
    <3>2. CASE j \in 1 .. n
      <4>1. before(place_of(i), place_of(j))  BY <1>5, <2>5, <3>1, <3>2 DEF PciInv, EveryFunctionOnce
      <4> QED BY <1>6, <3>1, <3>2, <4>1
    <3>3. CASE j = n + 1
      <4>1. before(place_of(i), place)  BY <2>1, <3>1
      <4> QED BY <1>6, <3>1, <3>3, <4>1
    <3> QED BY <3>2, <3>3
  <2>6. (\A i, j \in 1 .. dev_index : i < j => before(place_of(i), place_of(j)))'
    BY <1>6, <2>5 DEF before
  <2> QED BY <2>4, <2>6 DEF EveryFunctionOnce
<1>11. FirstControllerDriven'
  <2>1. AhciEntries' = AhciEntries \cup (IF is_ahci(pci) THEN {n + 1} ELSE {})
    BY <1>5, <1>6 DEF AhciEntries, is_ahci
  <2>2. AhciEntries \subseteq 1 .. n  BY <1>5 DEF AhciEntries
  <2>3. CASE pci_device # 0
    <3>1. UNCHANGED <<pci_device, abar>>  BY <1>2, <2>3 DEF ahci_init
    <3>2. pci_device \in AhciEntries /\ \A i \in AhciEntries : pci_device <= i
      BY <2>3 DEF PciInv, FirstControllerDriven
    <3>3. place_of(pci_device)' = place_of(pci_device)  BY <1>6, <2>2, <3>1, <3>2 DEF place_of
    <3>4. \A i \in AhciEntries' : pci_device <= i  BY <1>4, <2>1, <2>2, <3>2
    <3> QED BY <1>1, <2>1, <2>3, <3>1, <3>2, <3>3, <3>4 DEF PciInv, FirstControllerDriven
  <2>4. CASE pci_device = 0 /\ ~is_ahci(pci)
    <3>1. UNCHANGED <<pci_device, abar>>  BY <1>2, <2>4
    <3> QED BY <2>1, <2>4, <3>1 DEF PciInv, FirstControllerDriven
  <2>5. CASE pci_device = 0 /\ is_ahci(pci)
    <3>1. pci_device' = n + 1 /\ abar' = pci.bar5  BY <1>2, <1>5, <2>5 DEF ahci_init
    <3>2. AhciEntries = {}  BY <2>5 DEF PciInv, FirstControllerDriven
    <3>3. AhciEntries' = {n + 1}  BY <2>1, <2>5, <3>2
    <3>4. place_of(pci_device)' = place  BY <1>6, <3>1 DEF place_of
    <3>5. machine[place][14] % 256 = 0 => pci.bar5 = machine[place][38] * 65536 + machine[place][36]
      BY <1>1 DEF header, pci_read_word, low_byte
    <3> QED BY <1>1, <1>4, <3>1, <3>3, <3>4, <3>5 DEF FirstControllerDriven
  <2> QED BY <2>3, <2>4, <2>5
<1> QED BY <1>9, <1>10, <1>11 DEF PciInv

\* The invariant of the enumeration; nothing disturbs the table afterwards.
THEOREM EnumerationInvariant == Spec => []PciInv
<1>1. PciInv /\ [Next]_vars => PciInv'
  <2> SUFFICES ASSUME PciInv, [Next]_vars PROVE PciInv'  OBVIOUS
  <2>1. CASE enumerate
    <3>1. no_device \/ no_function \/ found  BY <2>1 DEF enumerate, pci_enumerate
    <3> QED BY <3>1, NothingFound, FunctionFound
  <2>2. CASE UNCHANGED pci_vars
    <3>1. UNCHANGED <<machine, at, pci_devices, pci_device, abar>>  BY <2>2 DEF pci_vars
    <3>2. Loops'  BY <3>1 DEF PciInv, Loops, multi_function, pci_read_word
    <3>3. Functions' = Functions  BY <3>1 DEF Functions, multi_function, pci_read_word
    <3>4. EveryFunctionOnce'
      BY <3>1, <3>3 DEF PciInv, EveryFunctionOnce, dev_index, place_of, place
    <3>5. FirstControllerDriven'
      BY <3>1 DEF PciInv, FirstControllerDriven, AhciEntries, dev_index, place_of
    <3> QED BY <3>2, <3>4, <3>5 DEF PciInv
  <2>3. enumerate \/ UNCHANGED pci_vars
    BY DEF Next, enumerated, console_read_line, parse_cmd, print_text, meminfo, lspci, list_device,
       date_or_time, read_register, print_clock, next_prompt, Clock, vars
  <2> QED BY <2>1, <2>2, <2>3
<1> QED BY <1>1, InitPci, PTL DEF Spec

\* pci_enumerate enters every function that can be found, once, in order.
THEOREM EveryFunctionFound == Spec => []EveryFunctionOnce
<1>1. PciInv => EveryFunctionOnce  BY DEF PciInv
<1> QED BY <1>1, EnumerationInvariant, PTL

\* The first AHCI controller is driven, and no later one takes its place.
THEOREM OneControllerDriven == Spec => []FirstControllerDriven
<1>1. PciInv => FirstControllerDriven  BY DEF PciInv
<1> QED BY <1>1, EnumerationInvariant, PTL
-----------------------------------------------------------------------------
LEMMA PlacesFinite == IsFiniteSet(Places)
<1> DEFINE Pairs == (0 .. LastDevice) \X (0 .. LastFunc)
           T == (0 .. LastBus) \X Pairs
           f == [p \in Places |-> <<p[1], <<p[2], p[3]>>>>]
<1>1. IsFiniteSet(0 .. LastBus) /\ IsFiniteSet(0 .. LastDevice) /\ IsFiniteSet(0 .. LastFunc)
  <2>1. 0 \in Int /\ LastBus \in Int /\ LastDevice \in Int /\ LastFunc \in Int
    BY PciAssumption
  <2> QED BY <2>1, FS_Interval
<1>2. IsFiniteSet(Pairs)  BY <1>1, FS_Product
<1>3. IsFiniteSet(T)  BY <1>1, <1>2, FS_Product
<1>4. f \in Injection(Places, T)
  <2>1. f \in [Places -> T]  BY DEF Places
  <2>2. ASSUME NEW p \in Places, NEW q \in Places, f[p] = f[q]
        PROVE  p = q
    BY <2>2 DEF Places
  <2> QED BY <2>1, <2>2 DEF Injection, IsInjective
<1> QED BY <1>3, <1>4, FS_Injection

\* A table with an entry for every function of the machine is never overrun, although
\* check_device does not look for its end: no function takes two entries.
THEOREM TableSuffices == Spec => [](dev_index <= TableSize)
<1>1. ASSUME PciInv PROVE dev_index <= TableSize
  <2> DEFINE D == DOMAIN machine
             f == [i \in 1 .. dev_index |-> place_of(i)]
  <2>1. D \subseteq Places /\ Cardinality(D) <= TableSize
    BY <1>1, PciAssumption DEF PciInv, Loops
  <2>2. IsFiniteSet(D)  BY <2>1, PlacesFinite, FS_Subset
  <2>3. dev_index \in Nat  BY <1>1 DEF PciInv, Loops, dev_index
  <2>4. \A i \in 1 .. dev_index : place_of(i) \in D
    BY <1>1 DEF PciInv, EveryFunctionOnce, Functions
  <2>5. ASSUME NEW i \in 1 .. dev_index, NEW j \in 1 .. dev_index, place_of(i) = place_of(j)
        PROVE  i = j
    <3>1. \A p \in Functions : ~before(p, p)  BY <1>1, FunctionPlaces DEF PciInv, before
    <3>2. place_of(i) \in Functions  BY <1>1 DEF PciInv, EveryFunctionOnce
    <3>3. i < j => before(place_of(i), place_of(j))  BY <1>1 DEF PciInv, EveryFunctionOnce
    <3>4. j < i => before(place_of(j), place_of(i))  BY <1>1 DEF PciInv, EveryFunctionOnce
    <3> QED BY <2>3, <2>5, <3>1, <3>2, <3>3, <3>4
  <2>6. f \in Injection(1 .. dev_index, D)  BY <2>4, <2>5 DEF Injection, IsInjective
  <2>7. Cardinality(1 .. dev_index) = dev_index  BY <2>3, FS_Interval
  <2>8. Cardinality(1 .. dev_index) <= Cardinality(D)  BY <2>2, <2>6, FS_Injection
  <2>9. Cardinality(D) \in Nat  BY <2>2, FS_CardinalityType
  <2> QED BY <2>1, <2>3, <2>7, <2>8, <2>9, PciAssumption
<1> QED BY <1>1, EnumerationInvariant, PTL
-----------------------------------------------------------------------------
(***************************************************************************)
(* What is printed.                                                        *)
(***************************************************************************)
LEMMA TextPiece ==
  ASSUME NEW t \in Texts
  PROVE  text_piece(t) \in Pieces
<1>1. <<>> \in Seq(0 .. 15)  OBVIOUS
<1> QED BY <1>1 DEF text_piece, Pieces

LEMMA NumberPiece ==
  ASSUME NEW value \in Nat, NEW conversion \in Conversions
  PROVE  number_piece(value, base_of(conversion)) \in Pieces
<1> DEFINE base == base_of(conversion)
           d == itoa(value, base)
<1>1. base \in {10, 16}  BY DEF base_of
<1>2. d \in Seq(0 .. base - 1)
  <2>1. base \in 2 .. 36  BY <1>1
  <2> HIDE DEF base
  <2> QED BY <2>1, ItoaWritesTheValue DEF DigitsOf
<1> HIDE DEF base, d
<1>3. d \in Seq(0 .. 15)
  <2>1. base = 10 => 0 .. base - 1 = 0 .. 9  OBVIOUS
  <2>2. base = 16 => 0 .. base - 1 = 0 .. 15  OBVIOUS
  <2>3. d \in Seq(0 .. 9) => d \in Seq(0 .. 15)  OBVIOUS
  <2> QED BY <1>1, <1>2, <2>1, <2>2, <2>3
<1>4. "" \in Texts  BY DEF Texts
<1> QED BY <1>3, <1>4 DEF number_piece, Pieces, d, base

\* An argument below 2^31 is printed as it is.
LEMMA Extended ==
  ASSUME NEW n \in Nat
  PROVE  /\ extended(n) \in Nat
         /\ n < 32768 * 65536 => extended(n) = n
<1>1. n \div 65536 \in Nat /\ (n < 32768 * 65536 => n \div 65536 < 32768)  BY SMT
<1> DEFINE k == 65536 * 65536
<1>2. k \in Nat /\ k - 1 \in Nat  BY SMT
<1> HIDE DEF k
<1>3. k * (k - 1) \in Nat  BY <1>2, SMT
<1>4. n + k * (k - 1) \in Nat  BY <1>3
<1>5. extended(n) = IF n \div 65536 < 32768 THEN n ELSE n + k * (k - 1)  BY DEF extended, k
<1> QED BY <1>1, <1>4, <1>5

\* Conversions are counted from the left: the k-th one takes the k-th argument.
LEMMA ArgumentOf ==
  ASSUME NEW format, NEW n \in Nat, NEW pos \in [1 .. n -> Nat],
         \A k, l \in 1 .. n : k < l => pos[k] < pos[l],
         \A k \in 1 .. n : pos[k] \in 1 .. Len(format),
         Len(format) \in Nat,
         \A j \in 1 .. Len(format) : format[j] \in Conversions <=> \E k \in 1 .. n : j = pos[k]
  PROVE  \A k \in 1 .. n : argument_at(format, pos[k]) = k
<1> SUFFICES ASSUME NEW k \in 1 .. n PROVE argument_at(format, pos[k]) = k  OBVIOUS
<1> DEFINE C == {j \in 1 .. pos[k] : format[j] \in Conversions}
           f == [l \in 1 .. k |-> pos[l]]
<1>1. ASSUME NEW l \in 1 .. k PROVE pos[l] \in C
  <2>1. l \in 1 .. n /\ (l < k \/ l = k)  OBVIOUS
  <2>2. pos[l] \in 1 .. Len(format) /\ pos[l] <= pos[k]  BY <2>1
  <2>3. format[pos[l]] \in Conversions  BY <2>1, <2>2
  <2> QED BY <2>2, <2>3
<1>2. ASSUME NEW j \in C PROVE \E l \in 1 .. k : j = pos[l]
  <2>1. j \in 1 .. Len(format)  OBVIOUS
  <2>2. PICK l \in 1 .. n : j = pos[l]  BY <2>1
  <2>3. ~(k < l)  BY <2>2
  <2> QED BY <2>2, <2>3
<1>3. f \in Bijection(1 .. k, C)
  <2>1. f \in [1 .. k -> C]  BY <1>1
  <2>2. \A l, m \in 1 .. k : l # m => pos[l] # pos[m]
    <3> SUFFICES ASSUME NEW l \in 1 .. k, NEW m \in 1 .. k, l # m PROVE pos[l] # pos[m]
      OBVIOUS
    <3>1. l \in 1 .. n /\ m \in 1 .. n /\ (l < m \/ m < l)  OBVIOUS
    <3> QED BY <3>1
  <2> HIDE DEF C
  <2> QED BY <1>2, <2>1, <2>2 DEF Bijection, Injection, Surjection, IsInjective
<1>4. IsFiniteSet(1 .. k) /\ Cardinality(1 .. k) = k
  <2>1. 1 \in Int /\ k \in Int /\ ~(1 > k) /\ k - 1 + 1 = k  OBVIOUS
  <2> QED BY <2>1, FS_Interval
<1>5. Cardinality(C) = k
  <2> HIDE DEF C, f
  <2>1. ExistsBijection(1 .. k, C)  BY <1>3, Zenon DEF ExistsBijection
  <2> QED BY <1>4, <2>1, FS_Bijection, Zenon
<1> QED BY <1>5 DEF argument_at

LEMMA PrintfPieces ==
  ASSUME NEW format, Len(format) \in Nat, NEW args \in Seq(Nat),
         \A i \in 1 .. Len(format) : format[i] \in Conversions \cup Texts,
         \A i \in 1 .. Len(format) :
           format[i] \in Conversions => argument_at(format, i) \in 1 .. Len(args)
  PROVE  printf(format, args) \in Seq(Pieces)
<1> DEFINE piece(i) == IF format[i] \in Conversions
                       THEN number_piece(extended(args[argument_at(format, i)]), base_of(format[i]))
                       ELSE text_piece(format[i])
<1>1. ASSUME NEW i \in 1 .. Len(format) PROVE piece(i) \in Pieces
  <2>1. CASE format[i] \in Conversions
    <3>1. args[argument_at(format, i)] \in Nat  BY <2>1
    <3>2. \A n \in Nat : extended(n) \in Nat  BY Extended
    <3>3. extended(args[argument_at(format, i)]) \in Nat  BY <3>1, <3>2, Zenon
    <3> QED BY <2>1, <3>3, NumberPiece
  <2>2. CASE format[i] \notin Conversions
    <3>1. format[i] \in Texts  BY <2>2
    <3> QED BY <2>2, <3>1, TextPiece
  <2> QED BY <2>1, <2>2
<1>2. printf(format, args) = [i \in 1 .. Len(format) |-> piece(i)]  BY DEF printf
<1> HIDE DEF piece
<1> QED BY <1>1, <1>2

\* The formats of lspci, meminfo, date and time, and of the scan's log line: each
\* conversion has its argument.
LEMMA FormatTexts ==
  ASSUME NEW format \in Formats
  PROVE  \A i \in 1 .. Len(format) : format[i] \in Texts
<1>1. {format[i] : i \in 1 .. Len(format)} \subseteq Texts  BY Zenon DEF Texts
<1> QED BY <1>1

LEMMA ListFormat ==
  /\ Len(lspci_format) = 17
  /\ \A j \in 1 .. 17 : lspci_format[j] \in Conversions <=> \E k \in 1 .. 8 : j = 2 * k - 1
  /\ \A k \in 1 .. 8 : argument_at(lspci_format, 2 * k - 1) = k
<1> DEFINE f == lspci_format
           pos == [k \in 1 .. 8 |-> 2 * k - 1]
<1>1. Len(f) = 17  BY DEF lspci_format
<1>2. /\ f[1] = "%d" /\ f[2] = "." /\ f[3] = "%d" /\ f[4] = "." /\ f[5] = "%d" /\ f[6] = " (0x"
      /\ f[7] = "%x" /\ f[8] = ", 0x" /\ f[9] = "%x" /\ f[10] = ", 0x" /\ f[11] = "%x"
      /\ f[12] = ", 0x" /\ f[13] = "%x" /\ f[14] = " 0x" /\ f[15] = "%x" /\ f[16] = ")"
      /\ f[17] = "\n"
  BY DEF lspci_format, Newline
<1> HIDE DEF f
<1>3. \A j \in {1, 3, 5, 7, 9, 11, 13, 15} : f[j] \in Conversions  BY <1>2 DEF Conversions
<1>4. \A j \in {2, 4, 6, 8, 10, 12, 14, 16, 17} : f[j] \notin Conversions  BY <1>2 DEF Conversions
<1>5. ASSUME NEW j \in 1 .. 17
      PROVE  f[j] \in Conversions <=> \E k \in 1 .. 8 : j = 2 * k - 1
  <2>1. ASSUME NEW k \in 1 .. 8, j = 2 * k - 1 PROVE f[j] \in Conversions
    <3>1. j \in {1, 3, 5, 7, 9, 11, 13, 15}  BY <2>1
    <3> QED BY <1>3, <3>1
  <2>2. ASSUME f[j] \in Conversions PROVE \E k \in 1 .. 8 : j = 2 * k - 1
    <3>1. j \notin {2, 4, 6, 8, 10, 12, 14, 16, 17}  BY <1>4, <2>2
    <3>2. j \in {2 * 1 - 1, 2 * 2 - 1, 2 * 3 - 1, 2 * 4 - 1, 2 * 5 - 1, 2 * 6 - 1, 2 * 7 - 1, 2 * 8 - 1}
      BY <3>1
    <3> QED BY <3>2
  <2> QED BY <2>1, <2>2
<1>6. \A k \in 1 .. 8 : argument_at(f, pos[k]) = k
  <2>1. pos \in [1 .. 8 -> Nat]  OBVIOUS
  <2>2. \A k, l \in 1 .. 8 : k < l => pos[k] < pos[l]  OBVIOUS
  <2>3. 8 \in Nat /\ Len(f) \in Nat /\ \A k \in 1 .. 8 : pos[k] \in 1 .. Len(f)  BY <1>1
  <2>4. \A j \in 1 .. Len(f) : f[j] \in Conversions <=> \E k \in 1 .. 8 : j = pos[k]  BY <1>1, <1>5
  <2> HIDE DEF pos
  <2> QED BY <2>1, <2>2, <2>3, <2>4, ArgumentOf, Zenon
<1> QED BY <1>1, <1>5, <1>6 DEF f

LEMMA ClockFormat ==
  /\ Len(clock_format) = 5
  /\ \A j \in 1 .. 5 : clock_format[j] \in Conversions <=> \E k \in 1 .. 3 : j = 2 * k - 1
  /\ \A k \in 1 .. 3 : argument_at(clock_format, 2 * k - 1) = k
  /\ \A k \in 1 .. 3 : clock_format[2 * k - 1] = "%d"
<1> DEFINE f == clock_format
           pos == [k \in 1 .. 3 |-> 2 * k - 1]
<1>1. Len(f) = 5  BY DEF clock_format
<1>2. f[1] = "%d" /\ f[2] = "." /\ f[3] = "%d" /\ f[4] = "." /\ f[5] = "%d"  BY DEF clock_format
<1> HIDE DEF f
<1>3. \A j \in 1 .. 5 : f[j] \in Conversions <=> \E k \in 1 .. 3 : j = 2 * k - 1
  <2>1. \A j \in {1, 3, 5} : f[j] \in Conversions /\ \E k \in 1 .. 3 : j = 2 * k - 1
    <3>1. 1 = 2 * 1 - 1 /\ 3 = 2 * 2 - 1 /\ 5 = 2 * 3 - 1  OBVIOUS
    <3> QED BY <1>2, <3>1 DEF Conversions
  <2>2. \A j \in {2, 4} : f[j] \notin Conversions /\ ~\E k \in 1 .. 3 : j = 2 * k - 1
    BY <1>2 DEF Conversions
  <2> QED BY <2>1, <2>2
<1>4. \A k \in 1 .. 3 : argument_at(f, pos[k]) = k
  <2>1. pos \in [1 .. 3 -> Nat]  OBVIOUS
  <2>2. \A k, l \in 1 .. 3 : k < l => pos[k] < pos[l]  OBVIOUS
  <2>3. 3 \in Nat /\ Len(f) \in Nat /\ \A k \in 1 .. 3 : pos[k] \in 1 .. Len(f)  BY <1>1
  <2>4. \A j \in 1 .. Len(f) : f[j] \in Conversions <=> \E k \in 1 .. 3 : j = pos[k]
    BY <1>1, <1>3
  <2> HIDE DEF pos
  <2> QED BY <2>1, <2>2, <2>3, <2>4, ArgumentOf, Zenon
<1>5. \A k \in 1 .. 3 : f[2 * k - 1] = "%d"  BY <1>2
<1> QED BY <1>1, <1>3, <1>4, <1>5 DEF f

LEMMA MeminfoFormat ==
  /\ Len(meminfo_format) = 11
  /\ \A j \in 1 .. 11 : meminfo_format[j] \in Conversions <=> \E k \in 1 .. 3 : j = 4 * k - 2
  /\ \A k \in 1 .. 3 : argument_at(meminfo_format, 4 * k - 2) = k
<1> DEFINE f == meminfo_format
           pos == [k \in 1 .. 3 |-> 4 * k - 2]
<1>1. Len(f) = 11  BY DEF meminfo_format
<1>2. /\ f[1] = "RAM size: " /\ f[2] = "%d" /\ f[3] = "MB" /\ f[4] = "\n" /\ f[5] = "    used: "
      /\ f[6] = "%d" /\ f[7] = "MB" /\ f[8] = "\n" /\ f[9] = "    free: " /\ f[10] = "%d"
      /\ f[11] = "MB"
  BY DEF meminfo_format, Newline
<1> HIDE DEF f
<1>3. \A j \in 1 .. 11 : f[j] \in Conversions <=> \E k \in 1 .. 3 : j = 4 * k - 2
  <2>1. \A j \in {2, 6, 10} : f[j] \in Conversions  BY <1>2 DEF Conversions
  <2>2. \A j \in {1, 3, 4, 5, 7, 8, 9, 11} : f[j] \notin Conversions  BY <1>2 DEF Conversions
  <2>3. \A j \in 1 .. 11 : j \in {2, 6, 10} \/ j \in {1, 3, 4, 5, 7, 8, 9, 11}  OBVIOUS
  <2>4. \A j \in {4 * 1 - 2, 4 * 2 - 2, 4 * 3 - 2} : \E k \in 1 .. 3 : j = 4 * k - 2  OBVIOUS
  <2>5. {4 * 1 - 2, 4 * 2 - 2, 4 * 3 - 2} = {2, 6, 10}  OBVIOUS
  <2>6. \A k \in 1 .. 3 : 4 * k - 2 \in {2, 6, 10}  OBVIOUS
  <2> QED BY <2>1, <2>2, <2>3, <2>4, <2>5, <2>6, Zenon
<1>4. \A k \in 1 .. 3 : argument_at(f, pos[k]) = k
  <2>1. pos \in [1 .. 3 -> Nat]  OBVIOUS
  <2>2. \A k, l \in 1 .. 3 : k < l => pos[k] < pos[l]  OBVIOUS
  <2>3. 3 \in Nat /\ Len(f) \in Nat /\ \A k \in 1 .. 3 : pos[k] \in 1 .. Len(f)  BY <1>1
  <2>4. \A j \in 1 .. Len(f) : f[j] \in Conversions <=> \E k \in 1 .. 3 : j = pos[k]
    BY <1>1, <1>3
  <2> HIDE DEF pos
  <2> QED BY <2>1, <2>2, <2>3, <2>4, ArgumentOf, Zenon
<1> QED BY <1>1, <1>3, <1>4 DEF f

\* A format without a newline is not cut.
LEMMA FirstLine ==
  ASSUME NEW format, Len(format) \in Nat, \A i \in 1 .. Len(format) : format[i] # Newline
  PROVE  first_line(format) = SubSeq(format, 1, Len(format))
<1> DEFINE n == Len(format)
           E == {i \in 1 .. n + 1 : i = n + 1 \/ format[i] = Newline}
<1>1. first_line(format) = SubSeq(format, 1, lowest(E) - 1)  BY DEF first_line
<1>2. n \in Nat /\ \A i \in 1 .. n : format[i] # Newline  OBVIOUS
<1> HIDE DEF n
<1>3. E \in SUBSET Nat /\ n + 1 \in E  BY <1>2
<1>4. \A i \in E : i = n + 1  BY <1>2
<1> HIDE DEF E
<1>5. lowest(E) \in E  BY <1>3, LowestExists
<1>6. lowest(E) - 1 = n  BY <1>2, <1>4, <1>5
<1> QED BY <1>1, <1>6 DEF n

LEMMA FoundFormat ==
  /\ Len(first_line(found_format)) = 3
  /\ \A j \in 1 .. 3 : first_line(found_format)[j] = found_format[j]
  /\ Len(found_format) = 3
  /\ \A j \in 1 .. 3 : found_format[j] \in Conversions <=> j = 2
  /\ argument_at(first_line(found_format), 2) = 1
<1> DEFINE f == found_format
           g == first_line(f)
           pos == [k \in 1 .. 1 |-> 2]
<1>1. f = <<"Found ", "%d", " PCI devices.">>  BY DEF found_format
<1>2. Len(f) = 3 /\ f[1] = "Found " /\ f[2] = "%d" /\ f[3] = " PCI devices."  BY <1>1
<1>3. g = SubSeq(f, 1, 3)
  <2>1. f[1] # Newline /\ f[2] # Newline /\ f[3] # Newline  BY <1>2 DEF Newline
  <2> HIDE DEF f
  <2>2. \A i \in 1 .. 3 : f[i] # Newline
    <3>1. \A i \in 1 .. 3 : i = 1 \/ i = 2 \/ i = 3  OBVIOUS
    <3> QED BY <2>1, <3>1, Zenon
  <2>3. Len(f) \in Nat /\ \A i \in 1 .. Len(f) : f[i] # Newline
    <3>1. Len(f) = 3 /\ 3 \in Nat  BY <1>2
    <3> QED BY <2>2, <3>1, Zenon
  <2>4. Len(f) = 3  BY <1>2
  <2> QED BY <2>3, <2>4, FirstLine, Zenon
<1>4. Len(g) = 3 /\ \A j \in 1 .. 3 : g[j] = f[j]
  <2>1. 1 \in Int /\ 3 \in Int /\ \A i \in 1 .. 3 : f[i] \in {f[1], f[2], f[3]}  OBVIOUS
  <2> HIDE DEF f, g
  <2>2. /\ Len(g) = IF 1 <= 3 THEN 3 - 1 + 1 ELSE 0
        /\ \A j \in 1 .. 3 - 1 + 1 : g[j] = f[1 + j - 1]
    BY <1>3, <2>1, SubSeqProperties
  <2>3. 3 - 1 + 1 = 3 /\ \A j \in 1 .. 3 : 1 + j - 1 = j  OBVIOUS
  <2> QED BY <2>2, <2>3
<1> HIDE DEF f, g
<1>5. \A j \in 1 .. 3 : f[j] \in Conversions <=> j = 2
  <2>1. f[1] \notin Conversions /\ f[2] \in Conversions /\ f[3] \notin Conversions
    BY <1>2 DEF Conversions
  <2> QED BY <2>1
<1>6. argument_at(g, pos[1]) = 1
  <2>1. pos \in [1 .. 1 -> Nat] /\ 1 \in 1 .. 1  OBVIOUS
  <2>2. \A k, l \in 1 .. 1 : k < l => pos[k] < pos[l]  OBVIOUS
  <2>3. 1 \in Nat /\ Len(g) \in Nat /\ \A k \in 1 .. 1 : pos[k] \in 1 .. Len(g)  BY <1>4
  <2>4. \A j \in 1 .. Len(g) : g[j] \in Conversions <=> \E k \in 1 .. 1 : j = pos[k]
    BY <1>4, <1>5
  <2> HIDE DEF pos
  <2> QED BY <2>1, <2>2, <2>3, <2>4, ArgumentOf, Zenon
<1>7. argument_at(g, 2) = 1
  <2>1. pos[1] = 2  OBVIOUS
  <2> HIDE DEF pos
  <2> QED BY <1>6, <2>1
<1> HIDE DEF pos
<1> QED BY <1>2, <1>4, <1>5, <1>7 DEF f, g

\* The printf's of the commands and of the scan, whatever the numbers.
LEMMA ListPieces ==
  ASSUME NEW args \in Seq(Nat), Len(args) = 8
  PROVE  printf(lspci_format, args) \in Seq(Pieces)
<1>1. \A i \in 1 .. Len(lspci_format) : lspci_format[i] \in Texts  BY FormatTexts DEF Formats
<1>2. \A i \in 1 .. 17 : lspci_format[i] \in Conversions =>
        argument_at(lspci_format, i) \in 1 .. Len(args)
  BY ListFormat
<1>3. Len(lspci_format) = 17  BY ListFormat
<1>4. \A i \in 1 .. Len(lspci_format) : lspci_format[i] \in Conversions \cup Texts  BY <1>1
<1>5. 17 \in Nat  OBVIOUS
<1> QED BY <1>2, <1>3, <1>4, <1>5, PrintfPieces, Zenon

LEMMA ClockPieces ==
  ASSUME NEW args \in Seq(Nat), Len(args) = 3
  PROVE  printf(clock_format, args) \in Seq(Pieces)
<1>1. \A i \in 1 .. Len(clock_format) : clock_format[i] \in Texts  BY FormatTexts DEF Formats
<1>2. \A i \in 1 .. 5 : clock_format[i] \in Conversions =>
        argument_at(clock_format, i) \in 1 .. Len(args)
  BY ClockFormat
<1>3. Len(clock_format) = 5  BY ClockFormat
<1>4. \A i \in 1 .. Len(clock_format) : clock_format[i] \in Conversions \cup Texts  BY <1>1
<1>5. 5 \in Nat  OBVIOUS
<1> QED BY <1>2, <1>3, <1>4, <1>5, PrintfPieces, Zenon

LEMMA MeminfoPieces ==
  ASSUME NEW args \in Seq(Nat), Len(args) = 3
  PROVE  printf(meminfo_format, args) \in Seq(Pieces)
<1>1. \A i \in 1 .. Len(meminfo_format) : meminfo_format[i] \in Texts  BY FormatTexts DEF Formats
<1>2. \A i \in 1 .. 11 : meminfo_format[i] \in Conversions =>
        argument_at(meminfo_format, i) \in 1 .. Len(args)
  BY MeminfoFormat
<1>3. Len(meminfo_format) = 11  BY MeminfoFormat
<1>4. \A i \in 1 .. Len(meminfo_format) : meminfo_format[i] \in Conversions \cup Texts  BY <1>1
<1>5. 11 \in Nat  OBVIOUS
<1> QED BY <1>2, <1>3, <1>4, <1>5, PrintfPieces, Zenon

LEMMA FoundPieces ==
  ASSUME NEW args \in Seq(Nat), Len(args) = 1
  PROVE  console_log(found_format, args) \in Seq(Pieces)
<1> DEFINE g == first_line(found_format)
<1>1. \A i \in 1 .. Len(found_format) : found_format[i] \in Texts  BY FormatTexts DEF Formats
<1>2. Len(g) = 3 /\ \A i \in 1 .. 3 : g[i] = found_format[i] /\ (g[i] \in Conversions => i = 2)
  BY FoundFormat
<1>3. argument_at(g, 2) = 1 /\ Len(found_format) = 3  BY FoundFormat
<1> HIDE DEF g
<1>4. printf(g, args) \in Seq(Pieces)
  <2>1. \A i \in 1 .. 3 : g[i] \in Conversions \cup Texts  BY <1>1, <1>2, <1>3
  <2>2. \A i \in 1 .. 3 : g[i] \in Conversions => argument_at(g, i) \in 1 .. Len(args)
    BY <1>2, <1>3
  <2>3. Len(g) = 3 /\ 3 \in Nat  BY <1>2
  <2> QED BY <2>1, <2>2, <2>3, PrintfPieces, Zenon
<1>5. "[LOG]" \in Texts /\ Newline \in Texts  BY DEF Texts
<1>6. text_piece("[LOG]") \in Pieces /\ text_piece(Newline) \in Pieces  BY <1>5, TextPiece
<1>7. console_log(found_format, args)
        = <<text_piece("[LOG]")>> \o printf(g, args) \o <<text_piece(Newline)>>
  BY DEF console_log, message, g
<1> QED BY <1>4, <1>6, <1>7
-----------------------------------------------------------------------------
(***************************************************************************)
(* The clock.                                                              *)
(***************************************************************************)
LEMMA BcdAndBack ==
  ASSUME NEW n \in 0 .. 99
  PROVE  bcd(n) \in Nat /\ bcdtobin(bcd(n)) = n
<1> DEFINE q == n \div 10
           r == n % 10
<1>1. q \in Int /\ r \in Int /\ 0 <= r /\ r < 10 /\ n = 10 * q + r  OBVIOUS
<1>2. bcd(n) = q * 16 + r  BY DEF bcd
<1> HIDE DEF q, r
<1>3. q \in 0 .. 9  BY <1>1
<1>4. (q * 16 + r) \div 16 = q /\ (q * 16 + r) % 16 = r  BY <1>1, <1>3
<1> QED BY <1>1, <1>2, <1>3, <1>4 DEF bcdtobin

\* What a getter gives: outside an update, the field of the time on the clock.
LEMMA GetterValue ==
  ASSUME now \in 1 .. Len(Calendar), NEW f \in Fields, NEW value \in rtc(f)
  PROVE  value \in Nat /\ (~updating => value = Calendar[now][f])
<1>1. Cmos(Reg[f]) = f  BY DEF Fields, Cmos, Reg
<1>2. Calendar[now] \in Time  BY RtcAssumption
<1>3. Calendar[now][f] \in 0 .. 99  BY <1>2 DEF Time
<1>4. PICK v \in inb(Reg[f]) : value = bcdtobin(v)  BY DEF rtc
<1>5. v = bcd(Calendar[now][f]) \/ (updating /\ v \in Garbage)  BY <1>1, <1>4 DEF inb
<1>6. CASE v = bcd(Calendar[now][f])
  <2>1. value = Calendar[now][f]  BY <1>3, <1>4, <1>6, BcdAndBack, Zenon
  <2>2. Calendar[now][f] \in Nat
    <3>1. \A x \in 0 .. 99 : x \in Nat  OBVIOUS
    <3> QED BY <1>3, <3>1, Zenon
  <2> QED BY <2>1, <2>2, Zenon
<1>7. CASE updating /\ v \in Garbage
  <2>1. v \in 0 .. 255  BY <1>7, RtcAssumption
  <2>2. v \div 16 \in Nat /\ v % 16 \in Nat  BY <2>1
  <2> QED BY <1>4, <1>7, <2>2 DEF bcdtobin
<1> QED BY <1>5, <1>6, <1>7

\* The registers a command shows.
LEMMA ShownFields ==
  ASSUME NEW k \in Clocked
  PROVE  \A i \in 1 .. 3 : Shows[k][i] \in Fields
  BY DEF Clocked, Shows, Fields

LEMMA SecondDigit ==
  ASSUME NEW S, NEW s \in Seq(S), Len(s) = 1, NEW r \in S
  PROVE  Len(Append(s, r)) = 2 /\ Append(s, r)[1] = s[1] /\ Append(s, r)[2] = r
<1> DEFINE t == Append(s, r)
<1>0. Len(t) = Len(s) + 1  OBVIOUS
<1>1. \A i \in 1 .. Len(s) : t[i] = s[i]  OBVIOUS
<1>2. t[Len(s) + 1] = r  BY AppendProperties, Zenon
<1>3. Len(s) + 1 = 2 /\ 1 \in 1 .. Len(s)  OBVIOUS
<1> HIDE DEF t
<1>4. Len(t) = 2 /\ t[1] = s[1] /\ t[2] = r  BY <1>0, <1>1, <1>2, <1>3, Zenon
<1> QED BY <1>4 DEF t

\* The digits of a number below 100.
LEMMA NumeralOfTwo ==
  ASSUME NEW n \in 0 .. 99
  PROVE  Numeral(number_piece(n, 10)) = n
<1> DEFINE d == itoa(n, 10)
<1>1. 10 \in Bases  BY DEF Bases
<1>2. d = numerals(10)[n]  BY DEF itoa
<1>3. number_piece(n, 10).digits = d  BY DEF number_piece
<1>4. CASE n < 10
  <2>1. d = <<n>>  BY <1>1, <1>2, <1>4, ShortNumeral
  <2> QED BY <1>3, <2>1 DEF Numeral
<1>5. CASE n >= 10
  <2> DEFINE q == n \div 10
             r == n % 10
  <2>1. q \in 0 .. 9 /\ r \in 0 .. 9 /\ n = 10 * q + r  OBVIOUS
  <2>2. d = Append(numerals(10)[q], r)
    <3>1. n \in Nat  OBVIOUS
    <3> QED BY <1>1, <1>2, <1>5, <3>1, LongNumeral, Zenon
  <2> HIDE DEF q, r, d
  <2>3. numerals(10)[q] = <<q>>  BY <1>1, <2>1, ShortNumeral
  <2>4. PICK s : s = <<q>>  OBVIOUS
  <2>5. s \in Seq(0 .. 9) /\ Len(s) = 1 /\ s[1] = q  BY <2>1, <2>4
  <2>6. d = Append(s, r)  BY <2>2, <2>3, <2>4
  <2>7. Len(d) = 2 /\ d[1] = q /\ d[2] = r
    <3>1. r \in 0 .. 9  BY <2>1
    <3> QED BY <2>5, <2>6, <3>1, SecondDigit, Zenon
  <2>8. Numeral(number_piece(n, 10)) = q * 10 + r  BY <1>3, <2>7 DEF Numeral
  <2> QED BY <2>1, <2>8
<1> QED BY <1>4, <1>5
-----------------------------------------------------------------------------
(***************************************************************************)
(* The types.                                                              *)
(***************************************************************************)
Typed ==
  /\ now \in 1 .. Len(Calendar) /\ updating \in BOOLEAN
  /\ updating => now < Len(Calendar)
  /\ pc \in {"enumerate", "prompt", "chosen", "clock", "list", "done"}
  /\ cmd \in Cmd /\ typed \in Cmd /\ command \in Commands \cup {"none"}
  /\ pc = "clock" => command \in Clocked
  /\ shown \in Seq(Seq(Pieces))
  /\ todo \subseteq Fields /\ got \in [Fields -> Nat]
  /\ began \in 1 .. Len(Calendar) /\ met \in BOOLEAN

LEMMA BlankIsLine == Blank \in Cmd /\ Unread \in [Fields -> Nat]
  BY DEF Blank, Cmd, Unread

LEMMA ClockPasses ==
  ASSUME Typed, Clock
  PROVE  Typed'
<1>1. CASE UpdateBegins
  BY <1>1 DEF Typed, Clock, UpdateBegins, reading
<1>2. CASE UpdateEnds
  <2>1. now' \in 1 .. Len(Calendar) /\ updating' = FALSE
    BY <1>2, RtcAssumption DEF Typed, UpdateEnds
  <2> QED BY <2>1 DEF Typed, Clock, reading
<1> QED BY <1>1, <1>2 DEF Clock

LEMMA OneText ==
  ASSUME NEW k \in Plain
  PROVE  printf(<<k>>, <<>>) \in Seq(Pieces)
<1> DEFINE f == <<k>>
<1>1. Len(f) = 1 /\ f[1] = k  OBVIOUS
<1>2. k \in Texts  BY DEF Texts
<1>3. k \notin Conversions  BY DEF Plain, Commands, Conversions
<1>4. <<>> \in Seq(Nat) /\ 1 \in Nat  OBVIOUS
<1> HIDE DEF f
<1>5. \A i \in 1 .. 1 : i = 1  OBVIOUS
<1>6. \A i \in 1 .. Len(f) : f[i] \in Conversions \cup Texts /\ f[i] \notin Conversions
  BY <1>1, <1>2, <1>3, <1>5, Zenon
<1>7. printf(f, <<>>) \in Seq(Pieces)  BY <1>1, <1>4, <1>6, PrintfPieces, Zenon
<1> QED BY <1>7 DEF f

\* A command prints one printf, or one more.
LEMMA ShownGrows ==
  ASSUME NEW p \in Seq(Pieces), NEW s \in Seq(Seq(Pieces))
  PROVE  <<p>> \in Seq(Seq(Pieces)) /\ Append(s, p) \in Seq(Seq(Pieces))
<1> DEFINE S == Seq(Pieces)
<1>1. p \in S /\ s \in Seq(S)  OBVIOUS
<1> HIDE DEF S
<1>2. <<p>> \in Seq(S) /\ Append(s, p) \in Seq(S)  BY <1>1
<1> QED BY <1>2 DEF S

LEMMA CommandsPrintPieces ==
  ASSUME Typed, PciInv
  PROVE  /\ print_text => shown' \in Seq(Seq(Pieces))
         /\ meminfo => shown' \in Seq(Seq(Pieces))
         /\ list_device => shown' \in Seq(Seq(Pieces))
         /\ print_clock => shown' \in Seq(Seq(Pieces))
         /\ enumerated => shown' \in Seq(Seq(Pieces))
<1>0. <<>> \in Seq(Seq(Pieces))  OBVIOUS
<1>1. ASSUME print_text PROVE shown' \in Seq(Seq(Pieces))
  <2>1. CASE command \in Plain
    <3>1. shown' = <<printf(<<command>>, <<>>)>>  BY <1>1, <2>1 DEF print_text
    <3> QED BY <1>0, <2>1, <3>1, OneText, ShownGrows
  <2>2. CASE command \notin Plain
    <3>1. shown' = <<>>  BY <1>1, <2>2 DEF print_text
    <3> QED BY <1>0, <3>1
  <2> QED BY <2>1, <2>2
<1>2. ASSUME meminfo PROVE shown' \in Seq(Seq(Pieces))
  <2> DEFINE m == <<megabytes(Memory.ram), megabytes(Memory.used), megabytes(Memory.free)>>
  <2>1. \A b \in Nat : megabytes(b) \in Nat  BY DEF megabytes
  <2>2. Memory.ram \in Nat /\ Memory.used \in Nat /\ Memory.free \in Nat
    BY MemoryIsCounted
  <2>3. megabytes(Memory.ram) \in Nat /\ megabytes(Memory.used) \in Nat /\ megabytes(Memory.free) \in Nat
    BY <2>1, <2>2
  <2>4. m \in Seq(Nat) /\ Len(m) = 3  BY <2>3
  <2>5. shown' = <<printf(meminfo_format, m)>>  BY <1>2 DEF meminfo
  <2> HIDE DEF m
  <2> QED BY <1>0, <2>4, <2>5, MeminfoPieces, ShownGrows
<1>3. ASSUME list_device PROVE shown' \in Seq(Seq(Pieces))
  <2>1. CASE Len(shown) < dev_index
    <3> DEFINE pci == pci_devices[Len(shown) + 1]
               m == <<pci.bus, pci.device, pci.func, pci.vendor_id, pci.device_id, pci.class_id,
                      pci.subclass_id, pci.prog_interface_id>>
    <3>1. pci_devices \in Seq(Entry) /\ Len(shown) \in Nat  BY DEF PciInv, Loops, Typed
    <3>2. Len(shown) + 1 \in 1 .. Len(pci_devices)  BY <2>1, <3>1 DEF dev_index
    <3>3. pci \in Entry  BY <3>1, <3>2
    <3>4. shown' = Append(shown, printf(lspci_format, m))  BY <1>3, <2>1 DEF list_device
    <3> HIDE DEF pci
    <3>5. m \in Seq(Nat) /\ Len(m) = 8  BY <3>3 DEF Entry
    <3> HIDE DEF m
    <3> QED BY <3>4, <3>5, ListPieces, ShownGrows DEF Typed
  <2>2. CASE ~(Len(shown) < dev_index)
    BY <1>3, <2>2 DEF list_device, Typed
  <2> QED BY <2>1, <2>2
<1>4. ASSUME print_clock PROVE shown' \in Seq(Seq(Pieces))
  <2> DEFINE m == [i \in 1 .. 3 |-> got[Shows[command][i]]]
  <2>1. command \in Clocked /\ got \in [Fields -> Nat]  BY <1>4 DEF print_clock, Typed
  <2>2. \A i \in 1 .. 3 : got[Shows[command][i]] \in Nat  BY <2>1, ShownFields
  <2>3. m \in Seq(Nat) /\ Len(m) = 3  BY <2>2
  <2>4. shown' = <<printf(clock_format, m)>>  BY <1>4 DEF print_clock
  <2> HIDE DEF m
  <2> QED BY <1>0, <2>3, <2>4, ClockPieces, ShownGrows
<1>5. ASSUME enumerated PROVE shown' \in Seq(Seq(Pieces))
  <2>1. dev_index \in Nat  BY DEF PciInv, Loops, dev_index
  <2> DEFINE m == <<dev_index>>
  <2>2. m \in Seq(Nat) /\ Len(m) = 1  BY <2>1
  <2>3. shown' = <<console_log(found_format, m)>>  BY <1>5 DEF enumerated
  <2> HIDE DEF m
  <2> QED BY <1>0, <2>2, <2>3, FoundPieces, ShownGrows
<1> QED BY <1>1, <1>2, <1>3, <1>4, <1>5

LEMMA StepTyped ==
  ASSUME Typed, PciInv, [Next]_vars
  PROVE  Typed'
<1>0. <<>> \in Seq(Seq(Pieces)) /\ "none" \in Commands \cup {"none"}
      /\ Clocked \subseteq Commands
  BY DEF Clocked, Commands
<1>1. CASE enumerate
  BY <1>1 DEF Typed, enumerate, clock, reading
<1>2. CASE enumerated
  <2>1. shown' \in Seq(Seq(Pieces))  BY <1>2, CommandsPrintPieces
  <2> QED BY <1>2, <2>1 DEF Typed, enumerated, clock, reading
<1>3. CASE console_read_line
  <2>1. PICK line \in Lines :
          typed' = line /\ cmd' = [i \in 1 .. CmdSize |-> to_lower(line[i])]
    BY <1>3 DEF console_read_line
  <2>2. line \in Cmd  BY ShellAssumption
  <2>3. \A i \in 1 .. CmdSize : line[i] \in Char \cup {NUL}  BY <2>2 DEF Cmd
  <2>4. cmd' \in Cmd /\ typed' \in Cmd  BY <2>1, <2>2, <2>3, LowerCase DEF Cmd
  <2>5. selected(cmd') \subseteq Commands  BY DEF selected
  <2>6. command' \in Commands \cup {"none"}  BY <1>3, <2>5 DEF console_read_line
  <2>7. pc' = "chosen" /\ shown' = <<>> /\ UNCHANGED <<clock, reading>>
    BY <1>3 DEF console_read_line
  <2> QED BY <1>0, <2>4, <2>6, <2>7 DEF Typed, clock, reading
<1>4. CASE parse_cmd
  <2>1. CASE print_text \/ meminfo
    <3>1. shown' \in Seq(Seq(Pieces))  BY <2>1, CommandsPrintPieces
    <3> QED BY <2>1, <3>1, BlankIsLine DEF Typed, print_text, meminfo, forget_line, clock, reading
  <2>2. CASE lspci
    BY <2>2, BlankIsLine DEF Typed, lspci, forget_line, clock, reading
  <2>3. CASE list_device
    <3>1. shown' \in Seq(Seq(Pieces))  BY <2>3, CommandsPrintPieces
    <3>2. pc' \in {"list", "done"} /\ UNCHANGED <<clock, cmd, typed, command, reading>>
      BY <2>3 DEF list_device
    <3> QED BY <3>1, <3>2 DEF Typed, clock, reading
  <2>4. CASE date_or_time
    <3>1. command \in Clocked /\ \A i \in 1 .. 3 : Shows[command][i] \in Fields
      BY <2>4, ShownFields DEF date_or_time
    <3>2. todo' \subseteq Fields  BY <2>4, <3>1 DEF date_or_time
    <3> QED BY <2>4, <3>1, <3>2, BlankIsLine DEF Typed, date_or_time, forget_line
  <2>5. CASE read_register
    <3>1. PICK f \in todo : /\ \E value \in rtc(f) : got' = [got EXCEPT ![f] = value]
                            /\ todo' = todo \ {f}
      BY <2>5 DEF read_register
    <3>2. PICK value \in rtc(f) : got' = [got EXCEPT ![f] = value]  BY <3>1
    <3>3. f \in Fields /\ now \in 1 .. Len(Calendar)  BY DEF Typed
    <3>4. value \in Nat  BY <3>3, GetterValue
    <3>5. got' \in [Fields -> Nat] /\ todo' \subseteq Fields  BY <3>1, <3>2, <3>4 DEF Typed
    <3>6. met' \in BOOLEAN  BY <2>5 DEF read_register, Typed
    <3> QED BY <2>5, <3>5, <3>6 DEF Typed, read_register, clock
  <2>6. CASE print_clock
    <3>1. shown' \in Seq(Seq(Pieces))  BY <2>6, CommandsPrintPieces
    <3> QED BY <2>6, <3>1 DEF Typed, print_clock, clock, reading
  <2> QED BY <1>4, <2>1, <2>2, <2>3, <2>4, <2>5, <2>6 DEF parse_cmd
<1>5. CASE next_prompt
  <2>1. 1 \in 1 .. Len(Calendar)  BY RtcAssumption
  <2> QED BY <1>0, <1>5, <2>1, BlankIsLine DEF Typed, next_prompt
<1>6. CASE Clock  BY <1>6, ClockPasses
<1>7. CASE UNCHANGED vars
  BY <1>7 DEF Typed, vars, clock, reading
<1> QED BY <1>1, <1>2, <1>3, <1>4, <1>5, <1>6, <1>7 DEF Next

LEMMA InitTyped == Init => Typed
<1>1. 1 \in 1 .. Len(Calendar)  BY RtcAssumption
<1>2. <<>> \in Seq(Seq(Pieces)) /\ {} \subseteq Fields  OBVIOUS
<1> QED BY <1>1, <1>2, BlankIsLine DEF Init, Typed

THEOREM ShellTyped == Spec => []Typed
<1>1. Typed /\ PciInv /\ [Next]_vars => Typed'  BY StepTyped
<1> QED BY <1>1, InitTyped, EnumerationInvariant, PTL DEF Spec

\* The types of the shell, the clock and the table of devices.
THEOREM TypeCorrect == Spec => []TypeOK
<1>1. PciInv /\ dev_index <= TableSize => PciTypeOK
  <2> SUFFICES ASSUME PciInv, dev_index <= TableSize PROVE PciTypeOK  OBVIOUS
  <2>1. \A i \in 1 .. dev_index : place_of(i) \in DOMAIN machine
    BY DEF PciInv, EveryFunctionOnce, Functions
  <2>2. pci_device \in 0 .. dev_index
    <3>1. pci_device \in Nat /\ dev_index \in Nat  BY DEF PciInv, Loops, dev_index
    <3>2. pci_device # 0 => pci_device \in 1 .. dev_index
      BY DEF PciInv, FirstControllerDriven, AhciEntries
    <3> QED BY <3>1, <3>2
  <2>3. /\ machine \in Machines /\ at.bus \in 0 .. LastBus + 1
        /\ at.device \in 0 .. LastDevice /\ at.func \in 0 .. LastFunc
    BY DEF PciInv, Loops
  <2> QED BY <2>1, <2>2, <2>3 DEF PciTypeOK, place_of
<1>2. PciTypeOK /\ Typed => TypeOK  BY DEF Typed, TypeOK
<1> QED BY <1>1, <1>2, ShellTyped, EnumerationInvariant, TableSuffices, PTL
-----------------------------------------------------------------------------
(***************************************************************************)
(* lspci.                                                                  *)
(***************************************************************************)
\* An entry holds the words of the header of its place.
EntryRight(pci, words) ==
  /\ pci.vendor_id = words[0] /\ pci.device_id = words[2]
  /\ pci.class_id = words[10] \div 256 /\ pci.subclass_id = words[10] % 256
  /\ pci.prog_interface_id = words[8] \div 256

TableRight == \A i \in 1 .. dev_index : EntryRight(pci_devices[i], machine[place_of(i)])

\* The listing as far as it has come, and where it comes from.
Listing ==
  /\ pc # "enumerate" => ~enumerating
  /\ pc = "list" => command = "lspci"
  /\ pc \in {"enumerate", "prompt"} => command = "none"
  /\ pc = "chosen" => shown = <<>>
  /\ pc = "list" \/ (pc = "done" /\ command = "lspci") =>
       /\ Len(shown) <= dev_index /\ (pc = "done" => Len(shown) = dev_index)
       /\ \A i \in 1 .. Len(shown) : shown[i] = ListedAs(place_of(i))

LEMMA InitListing == Init => TableRight /\ Listing
  BY DEF Init, PciInit, TableRight, Listing, dev_index

LEMMA EntryMade ==
  ASSUME Loops, place \in DOMAIN machine, NEW leftover \in Leftovers
  PROVE  EntryRight(header(place, leftover), machine[place])
  BY DEF header, EntryRight, pci_read_word, low_byte, high_byte

LEMMA StepTable ==
  ASSUME PciInv, TableRight, [Next]_vars
  PROVE  TableRight'
<1>1. CASE enumerate /\ found
  <2>1. Loops /\ place \in DOMAIN machine /\ UNCHANGED machine
    BY <1>1, PresentAnswers DEF PciInv, found
  <2>2. PICK leftover \in Leftovers : pci_devices' = Append(pci_devices, header(place, leftover))
    BY <1>1 DEF found, check_device
  <2> DEFINE pci == header(place, leftover)
  <2>3. EntryRight(pci, machine[place])  BY <2>1, EntryMade
  <2>4. <<pci.bus, pci.device, pci.func>> = place  BY DEF header, place
  <2>5. pci \in Entry /\ pci_devices \in Seq(Entry) /\ pci_devices' = Append(pci_devices, pci)
    BY <1>1, <2>1, <2>2, HeaderType DEF Loops, found
  <2> HIDE DEF pci
  <2>6. PICK n \in Nat : n = Len(pci_devices)  BY <2>5
  <2>7. /\ Len(pci_devices') = n + 1 /\ pci_devices'[n + 1] = pci
        /\ \A i \in 1 .. n : pci_devices'[i] = pci_devices[i]
    BY <2>5, <2>6
  <2> SUFFICES ASSUME NEW i \in 1 .. n + 1
               PROVE  EntryRight(pci_devices'[i], machine[place_of(i)'])
    BY <2>1, <2>7 DEF TableRight, dev_index, EntryRight
  <2>8. CASE i \in 1 .. n
    <3>1. EntryRight(pci_devices[i], machine[place_of(i)])
      BY <2>6, <2>8 DEF TableRight, dev_index
    <3> QED BY <2>7, <2>8, <3>1 DEF place_of
  <2>9. CASE i = n + 1
    <3>1. pci_devices'[i] = pci  BY <2>7, <2>9
    <3>2. place_of(i)' = place  BY <2>4, <3>1 DEF place_of
    <3> QED BY <2>3, <3>1, <3>2
  <2> QED BY <2>8, <2>9
<1>2. CASE UNCHANGED <<machine, pci_devices>>
  BY <1>2 DEF TableRight, EntryRight, dev_index, place_of
<1>3. (enumerate /\ found) \/ UNCHANGED <<machine, pci_devices>>
  BY DEF Next, enumerate, pci_enumerate, no_device, no_function, enumerated, console_read_line,
     parse_cmd, print_text, meminfo, lspci, list_device, date_or_time, read_register, print_clock,
     next_prompt, Clock, vars, pci_vars
<1> QED BY <1>1, <1>2, <1>3

LEMMA StepListing ==
  ASSUME PciInv, Typed, TableRight, Listing, [Next]_vars
  PROVE  Listing'
<1>0. /\ "lspci" \notin Plain \cup {"none", "clear"} /\ "lspci" \notin Clocked
      /\ "none" # "lspci"
  BY DEF Plain, Clocked
<1>1. CASE enumerate
  BY <1>0, <1>1 DEF Listing, enumerate
<1>2. CASE UNCHANGED pci_vars
  <2>0. enumerating' = enumerating /\ dev_index' = dev_index
        /\ \A i : ListedAs(place_of(i))' = ListedAs(place_of(i))
    BY <1>2 DEF enumerating, dev_index, ListedAs, place_of, pci_vars
  <2>1. CASE enumerated
    BY <1>0, <2>0, <2>1 DEF Listing, enumerated
  <2>2. CASE console_read_line
    BY <2>0, <2>2 DEF Listing, console_read_line
  <2>3. CASE print_text
    BY <1>0, <2>0, <2>3 DEF Listing, print_text
  <2>4. CASE meminfo
    BY <2>0, <2>4 DEF Listing, meminfo
  <2>5. CASE lspci
    <3>1. shown' = <<>> /\ dev_index \in Nat
      BY <2>5 DEF Listing, lspci, PciInv, Loops, dev_index
    <3> QED BY <2>0, <2>5, <3>1 DEF Listing, lspci
  <2>6. CASE list_device
    <3>1. /\ command = "lspci" /\ command' = "lspci" /\ ~enumerating
          /\ Len(shown) <= dev_index /\ Len(shown) \in Nat /\ dev_index \in Nat
          /\ \A i \in 1 .. Len(shown) : shown[i] = ListedAs(place_of(i))
      BY <2>6 DEF Listing, list_device, Typed, PciInv, Loops, dev_index
    <3>2. CASE Len(shown) < dev_index
      <4>1. PICK n \in Nat : n = Len(shown)  BY <3>1
      <4> DEFINE pci == pci_devices[n + 1]
                 p == printf(lspci_format, <<pci.bus, pci.device, pci.func, pci.vendor_id,
                        pci.device_id, pci.class_id, pci.subclass_id, pci.prog_interface_id>>)
      <4>2. pc' = "list" /\ shown' = Append(shown, p)  BY <2>6, <3>2, <4>1 DEF list_device
      <4>3. p = ListedAs(place_of(n + 1))
        <5>1. n + 1 \in 1 .. dev_index  BY <3>1, <3>2, <4>1
        <5>2. EntryRight(pci, machine[place_of(n + 1)])  BY <5>1 DEF TableRight
        <5>3. place_of(n + 1) = <<pci.bus, pci.device, pci.func>>  BY DEF place_of
        <5> QED BY <5>2, <5>3 DEF EntryRight, ListedAs
      <4> HIDE DEF p
      <4>4. /\ Len(shown') = n + 1
            /\ \A i \in 1 .. n + 1 : shown'[i] = IF i = n + 1 THEN p ELSE shown[i]
        BY <4>1, <4>2 DEF Typed
      <4>5. \A i \in 1 .. n + 1 : shown'[i] = ListedAs(place_of(i))
        BY <3>1, <4>1, <4>3, <4>4
      <4>6. n + 1 <= dev_index  BY <3>1, <3>2, <4>1
      <4> QED BY <2>0, <3>1, <4>2, <4>4, <4>5, <4>6 DEF Listing
    <3>3. CASE ~(Len(shown) < dev_index)
      <4>1. pc' = "done" /\ shown' = shown  BY <2>6, <3>3 DEF list_device
      <4>2. Len(shown) = dev_index  BY <3>1, <3>3
      <4> QED BY <2>0, <3>1, <4>1, <4>2 DEF Listing
    <3> QED BY <3>2, <3>3
  <2>7. CASE date_or_time
    BY <2>0, <2>7 DEF Listing, date_or_time
  <2>8. CASE read_register
    BY <2>0, <2>8 DEF Listing, read_register
  <2>9. CASE print_clock
    BY <1>0, <2>0, <2>9 DEF Listing, print_clock, Typed
  <2>10. CASE next_prompt
    BY <2>0, <2>10 DEF Listing, next_prompt
  <2>11. CASE Clock
    BY <2>0, <2>11 DEF Listing, Clock
  <2>12. CASE UNCHANGED vars
    BY <2>0, <2>12 DEF Listing, vars
  <2> QED BY <1>1, <2>1, <2>2, <2>3, <2>4, <2>5, <2>6, <2>7, <2>8, <2>9, <2>10, <2>11, <2>12
          DEF Next, parse_cmd
<1>3. enumerate \/ UNCHANGED pci_vars
  BY DEF Next, enumerated, console_read_line, parse_cmd, print_text, meminfo, lspci, list_device,
     date_or_time, read_register, print_clock, next_prompt, Clock, vars
<1> QED BY <1>1, <1>2, <1>3

\* Behind the last bus every function has its entry, and one only.
LEMMA AllEntered ==
  ASSUME PciInv, ~enumerating
  PROVE  /\ {place_of(i) : i \in 1 .. dev_index} = Functions
         /\ dev_index = Cardinality(Functions)
<1>1. dev_index \in Nat /\ at.bus \in 0 .. LastBus + 1 /\ LastBus \in Nat
  BY PciAssumption DEF PciInv, Loops, dev_index
<1>2. \A p \in Functions : before(p, place)
  <2> SUFFICES ASSUME NEW p \in Functions PROVE before(p, place)  OBVIOUS
  <2>1. p[1] \in 0 .. LastBus  BY FunctionPlaces DEF PciInv
  <2>2. p[1] < at.bus  BY <1>1, <2>1 DEF enumerating
  <2> QED BY <2>2 DEF before, place
<1>3. {place_of(i) : i \in 1 .. dev_index} = Functions
  BY <1>2 DEF PciInv, EveryFunctionOnce
<1>4. \A i, j \in 1 .. dev_index : i # j => place_of(i) # place_of(j)
  <2> SUFFICES ASSUME NEW i \in 1 .. dev_index, NEW j \in 1 .. dev_index,
                      i # j, place_of(i) = place_of(j)
               PROVE  FALSE
    OBVIOUS
  <2>1. \A p \in Functions : ~before(p, p)  BY FunctionPlaces DEF PciInv, before
  <2>2. place_of(i) \in Functions  BY <1>3
  <2>3. i < j => before(place_of(i), place_of(j))  BY DEF PciInv, EveryFunctionOnce
  <2>4. j < i => before(place_of(j), place_of(i))  BY DEF PciInv, EveryFunctionOnce
  <2> QED BY <1>1, <2>1, <2>2, <2>3, <2>4
<1>5. PICK n \in Nat : n = dev_index  BY <1>1
<1> DEFINE f == [i \in 1 .. n |-> place_of(i)]
<1>6. f \in Bijection(1 .. n, Functions)
  <2>1. f \in [1 .. n -> Functions]  BY <1>3, <1>5
  <2>2. \A p \in Functions : \E i \in 1 .. n : f[i] = p  BY <1>3, <1>5
  <2>3. \A i, j \in 1 .. n : i # j => f[i] # f[j]  BY <1>4, <1>5
  <2> HIDE DEF f
  <2> QED BY <2>1, <2>2, <2>3 DEF Bijection, Injection, Surjection, IsInjective
<1>7. Cardinality(1 .. n) = n /\ IsFiniteSet(1 .. n)
  <2>1. 1 \in Int /\ n \in Int /\ ~(1 > n + 1) /\ n - 1 + 1 = n /\ (1 > n => n = 0)  OBVIOUS
  <2> QED BY <2>1, FS_Interval
<1>8. Cardinality(Functions) = n
  <2> HIDE DEF f
  <2>1. ExistsBijection(1 .. n, Functions)  BY <1>6, Zenon DEF ExistsBijection
  <2> QED BY <1>7, <2>1, FS_Bijection, Zenon
<1> QED BY <1>3, <1>5, <1>8

\* lspci shows every function that can be found, each on one line, with the numbers of
\* its header.
THEOREM EveryFunctionListed == Spec => []LspciShowsTheMachine
<1>1. TableRight /\ PciInv /\ [Next]_vars => TableRight'  BY StepTable
<1>2. Listing /\ PciInv /\ Typed /\ TableRight /\ [Next]_vars => Listing'  BY StepListing
<1>3. PciInv /\ Typed /\ Listing => LspciShowsTheMachine
  <2> SUFFICES ASSUME PciInv, Typed, Listing, pc = "done", command = "lspci"
               PROVE  /\ {shown[i] : i \in 1 .. Len(shown)} = {ListedAs(p) : p \in Functions}
                      /\ Len(shown) = Cardinality(Functions)
    BY DEF LspciShowsTheMachine
  <2>1. /\ ~enumerating /\ Len(shown) = dev_index
        /\ \A i \in 1 .. Len(shown) : shown[i] = ListedAs(place_of(i))
    BY DEF Listing
  <2>2. {place_of(i) : i \in 1 .. dev_index} = Functions /\ dev_index = Cardinality(Functions)
    BY <2>1, AllEntered
  <2>3. {shown[i] : i \in 1 .. Len(shown)} = {ListedAs(place_of(i)) : i \in 1 .. dev_index}
    BY <2>1
  <2>4. {ListedAs(place_of(i)) : i \in 1 .. dev_index} = {ListedAs(p) : p \in Functions}
    <3> HIDE DEF ListedAs
    <3> QED BY <2>2
  <2> QED BY <2>1, <2>2, <2>3, <2>4
<1> QED BY <1>1, <1>2, <1>3, InitListing, EnumerationInvariant, ShellTyped, PTL DEF Spec
-----------------------------------------------------------------------------
(***************************************************************************)
(* date and time.                                                          *)
(***************************************************************************)
FieldOfATime(f) == \E t \in began .. now : got[f] = Calendar[t][f]

\* While no update was met, every register read holds the field of a time between the
\* command's beginning and now.
Telling ==
  pc = "clock" \/ (pc = "done" /\ command \in Clocked) =>
    /\ command \in Clocked /\ began <= now
    /\ ~met => \A i \in 1 .. 3 : Shows[command][i] \notin todo => FieldOfATime(Shows[command][i])
    /\ pc = "done" =>
         /\ todo = {}
         /\ shown = <<printf(clock_format, [i \in 1 .. 3 |-> got[Shows[command][i]]])>>

LEMMA InitTelling == Init => Telling
  BY DEF Init, Telling, Clocked

LEMMA StepTelling ==
  ASSUME Typed, Listing, Telling, [Next]_vars
  PROVE  Telling'
<1>0. "none" \notin Clocked /\ \A k \in Clocked : k \notin Plain \cup {"none", "clear", "meminfo", "lspci"}
  BY DEF Clocked, Plain
<1>1. CASE enumerate \/ enumerated
  BY <1>0, <1>1 DEF Telling, Listing, enumerate, enumerated
<1>2. CASE console_read_line
  BY <1>2 DEF Telling, console_read_line
<1>3. CASE print_text \/ meminfo \/ lspci
  BY <1>0, <1>3 DEF Telling, print_text, meminfo, lspci
<1>4. CASE list_device
  BY <1>0, <1>4 DEF Telling, Listing, list_device
<1>5. CASE date_or_time
  <2>1. now' \in Nat /\ began' = now' /\ command' = command /\ command \in Clocked
        /\ pc' = "clock"
    BY <1>5 DEF date_or_time
  <2>2. \A i \in 1 .. 3 : Shows[command][i] \in todo'  BY <1>5 DEF date_or_time
  <2> QED BY <2>1, <2>2 DEF Telling
<1>6. CASE read_register
  <2>1. PICK f \in todo : /\ \E value \in rtc(f) : got' = [got EXCEPT ![f] = value]
                          /\ todo' = todo \ {f}
    BY <1>6 DEF read_register
  <2>2. PICK value \in rtc(f) : got' = [got EXCEPT ![f] = value]  BY <2>1
  <2>3. /\ f \in Fields /\ got \in [Fields -> Nat] /\ now \in 1 .. Len(Calendar)
        /\ now \in Nat /\ began \in Nat
    BY DEF Typed
  <2>4. /\ pc = "clock" /\ pc' = "clock" /\ command \in Clocked /\ command' = command
        /\ began' = began /\ now' = now /\ (met' <=> met \/ updating) /\ began <= now
    BY <1>6 DEF read_register, Telling, clock
  <2>5. ASSUME ~met', NEW i \in 1 .. 3, Shows[command][i] \notin todo'
        PROVE  FieldOfATime(Shows[command][i])'
    <3> DEFINE g == Shows[command][i]
    <3>1. g \in Fields  BY <2>4, ShownFields
    <3>2. CASE g = f
      <4>1. value = Calendar[now][f]  BY <2>3, <2>4, <2>5, GetterValue
      <4>2. got'[g] = value  BY <2>2, <2>3, <3>2
      <4>3. now \in began .. now  BY <2>3, <2>4
      <4> QED BY <2>4, <3>2, <4>1, <4>2, <4>3 DEF FieldOfATime
    <3>3. CASE g # f
      <4>1. g \notin todo /\ got'[g] = got[g]  BY <2>1, <2>2, <2>3, <2>5, <3>1, <3>3
      <4>2. FieldOfATime(g)  BY <2>4, <2>5, <4>1 DEF Telling
      <4> QED BY <2>4, <4>1, <4>2 DEF FieldOfATime
    <3> QED BY <3>2, <3>3
  <2> QED BY <2>4, <2>5 DEF Telling
<1>7. CASE print_clock
  <2>1. /\ pc = "clock" /\ pc' = "done" /\ todo = {} /\ todo' = {} /\ command' = command
        /\ got' = got /\ began' = began /\ now' = now /\ met' = met
        /\ shown' = <<printf(clock_format, [i \in 1 .. 3 |-> got[Shows[command][i]]])>>
    BY <1>7 DEF print_clock, reading, clock
  <2>2. \A f : FieldOfATime(f)' <=> FieldOfATime(f)  BY <2>1 DEF FieldOfATime
  <2> QED BY <2>1, <2>2 DEF Telling
<1>8. CASE next_prompt
  BY <1>8 DEF Telling, next_prompt
<1>9. CASE Clock
  <2>1. /\ pc = "clock" /\ pc' = "clock" /\ began' = began /\ got' = got /\ met' = met
        /\ todo' = todo /\ command' = command
        /\ now' \in {now, now + 1} /\ now \in Nat /\ began \in Nat
    BY <1>9 DEF Clock, reading, UpdateBegins, UpdateEnds, Typed
  <2>2. \A f : FieldOfATime(f) => FieldOfATime(f)'
    <3>1. \A t \in began .. now : t \in began .. now'  BY <2>1
    <3> QED BY <2>1, <3>1 DEF FieldOfATime
  <2>3. command \in Clocked /\ began <= now'  BY <2>1 DEF Telling
  <2> QED BY <2>1, <2>2, <2>3 DEF Telling
<1>10. CASE UNCHANGED vars
  <2>1. UNCHANGED <<pc, command, began, now, got, met, todo, shown>>
    BY <1>10 DEF vars, clock, reading
  <2>2. \A f : FieldOfATime(f)' <=> FieldOfATime(f)  BY <2>1 DEF FieldOfATime
  <2> QED BY <2>1, <2>2 DEF Telling
<1> QED BY <1>1, <1>2, <1>3, <1>4, <1>5, <1>6, <1>7, <1>8, <1>9, <1>10 DEF Next, parse_cmd

\* date and time show a day or a time that was, if no update was met and the last field
\* alone changed meanwhile.
THEOREM AClockTimeIsShown == Spec => []ClockShowsATime
<1>1. Telling /\ Typed /\ Listing /\ [Next]_vars => Telling'  BY StepTelling
<1>2. Typed /\ Telling => ClockShowsATime
  <2> DEFINE fields == Shows[command]
             during == began .. now
  <2> SUFFICES ASSUME Typed, Telling, pc = "done", command \in Clocked, ~met,
                      \A t \in during, i \in 1 .. 2 :
                        Calendar[t][fields[i]] = Calendar[began][fields[i]]
               PROVE  \E t \in during : \A i \in 1 .. 3 :
                        Numeral(shown[1][2 * i - 1]) = Calendar[t][fields[i]]
    BY DEF ClockShowsATime
  <2> DEFINE m == [i \in 1 .. 3 |-> got[fields[i]]]
  <2>1. \A i \in 1 .. 3 : \E t \in during : m[i] = Calendar[t][fields[i]]
    BY DEF Telling, FieldOfATime
  <2>2. shown = <<printf(clock_format, m)>>  BY DEF Telling
  <2>3. \A t \in during, i \in 1 .. 3 : Calendar[t][fields[i]] \in 0 .. 99
    <3> SUFFICES ASSUME NEW t \in during, NEW i \in 1 .. 3
                 PROVE  Calendar[t][fields[i]] \in 0 .. 99
      OBVIOUS
    <3>1. t \in 1 .. Len(Calendar)  BY DEF Typed
    <3>2. Calendar[t] \in Time /\ fields[i] \in Fields  BY <3>1, RtcAssumption, ShownFields
    <3> QED BY <3>2 DEF Time
  <2>4. \A i \in 1 .. 3 : m[i] \in 0 .. 99  BY <2>1, <2>3
  <2> HIDE DEF m
  <2>5. ASSUME NEW i \in 1 .. 3 PROVE Numeral(shown[1][2 * i - 1]) = m[i]
    <3> DEFINE j == 2 * i - 1
    <3>1. shown[1] = printf(clock_format, m)  BY <2>2
    <3>2. j \in 1 .. 5 /\ Len(clock_format) = 5  BY ClockFormat
    <3>3. clock_format[j] \in Conversions /\ argument_at(clock_format, j) = i
          /\ base_of(clock_format[j]) = 10
      BY ClockFormat DEF base_of
    <3> HIDE DEF j
    <3>6. extended(m[i]) = m[i]
      <4>1. m[i] \in Nat /\ m[i] < 32768 * 65536  BY <2>4, SMT
      <4> QED BY <4>1, Extended
    <3>4. printf(clock_format, m)[j] = number_piece(m[i], 10)  BY <3>2, <3>3, <3>6 DEF printf
    <3>5. Numeral(number_piece(m[i], 10)) = m[i]  BY <2>4, NumeralOfTwo
    <3> QED BY <3>1, <3>4, <3>5 DEF j
  <2>6. PICK t \in during : m[3] = Calendar[t][fields[3]]  BY <2>1
  <2>7. ASSUME NEW i \in 1 .. 3 PROVE m[i] = Calendar[t][fields[i]]
    <3>1. CASE i = 3  BY <2>6, <3>1
    <3>2. CASE i \in 1 .. 2
      <4>1. PICK u \in during : m[i] = Calendar[u][fields[i]]  BY <2>1
      <4> QED BY <3>2, <4>1
    <3> QED BY <3>1, <3>2
  <2>8. \A i \in 1 .. 3 : Numeral(shown[1][2 * i - 1]) = Calendar[t][fields[i]]
    BY <2>5, <2>7
  <2> QED BY <2>8
<1>3. Listing /\ TableRight /\ PciInv /\ Typed /\ [Next]_vars => Listing' /\ TableRight'
  BY StepListing, StepTable
<1> QED BY <1>1, <1>2, <1>3, InitTelling, InitListing, EnumerationInvariant, ShellTyped, PTL DEF Spec
=============================================================================
