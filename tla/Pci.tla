-------------------------------- MODULE Pci ---------------------------------
(***************************************************************************)
(* pci_enumerate: every device of every bus is asked for its vendor, and a *)
(* device whose function 0 says so for its other functions; what answers   *)
(* is entered into pci_devices, and the first AHCI controller is handed to *)
(* the driver.  The configuration space does not change meanwhile.  The    *)
(* fields of a header that nothing reads are left out.                     *)
(***************************************************************************)
EXTENDS Naturals, Sequences, FiniteSets

CONSTANTS
  LastBus, LastDevice, LastFunc,   \* 255, 31 and 7
  Machines,    \* machines: what answers, with the words of its header
  Words,       \* the words a header may hold
  Leftovers,   \* what a local variable may hold before it is assigned
  TableSize    \* entries of pci_devices, 256

Places == (0 .. LastBus) \X (0 .. LastDevice) \X (0 .. LastFunc)
NoVendor == 65535
Offsets == {0, 2, 8, 10, 14, 36, 38}

\* At most TableSize functions: the code does not look for the end of its table.
ASSUME PciAssumption ==
  /\ LastBus \in Nat /\ LastDevice \in Nat /\ LastFunc \in Nat \ {0} /\ TableSize \in Nat
  /\ Words \subseteq Nat /\ Leftovers \subseteq Nat /\ Leftovers # {}
  /\ \A m \in Machines :
       /\ DOMAIN m \subseteq Places /\ Cardinality(DOMAIN m) <= TableSize
       /\ \A p \in DOMAIN m : m[p] \in [Offsets -> Words] /\ m[p][0] # NoVendor

VARIABLES
  machine,       \* the words in the configuration space, by place
  at,            \* where the loops stand: bus, device, func
  pci_devices,   \* the first dev_index entries of the table
  pci_device, abar   \* ahci.c: the controller's entry (0 is NULL), and its registers

pci_vars == <<machine, at, pci_devices, pci_device, abar>>

dev_index == Len(pci_devices)

\* Anything that is no function of the machine reads as all ones.
pci_read_word(p, offset) == IF p \in DOMAIN machine THEN machine[p][offset] ELSE NoVendor

low_byte(word) == word % 256
high_byte(word) == word \div 256

PciInit ==
  /\ machine \in Machines /\ at = [bus |-> 0, device |-> 0, func |-> 0]
  /\ pci_devices = <<>> /\ pci_device = 0 /\ abar = 0

\* bar5 is read for a header of type 0 only.
header(p, leftover) ==
  LET header_type == low_byte(pci_read_word(p, 14)) IN
  [bus |-> p[1], device |-> p[2], func |-> p[3],
   vendor_id |-> pci_read_word(p, 0), device_id |-> pci_read_word(p, 2),
   prog_interface_id |-> high_byte(pci_read_word(p, 8)),
   subclass_id |-> low_byte(pci_read_word(p, 10)),
   class_id |-> high_byte(pci_read_word(p, 10)),
   header_type |-> header_type,
   bar5 |-> IF header_type = 0 THEN pci_read_word(p, 38) * 65536 + pci_read_word(p, 36)
            ELSE leftover]

is_ahci(pci) == pci.class_id = 1 /\ pci.subclass_id = 6 /\ pci.prog_interface_id = 1

\* Mutant: the last controller is driven.
ahci_init_again(pci) ==
  /\ pci_device' = dev_index + 1 /\ abar' = pci.bar5

\* The driver itself is in module Ahci; a second controller is not set up.
ahci_init(pci) ==
  IF pci_device # 0 THEN UNCHANGED <<pci_device, abar>>
  ELSE pci_device' = dev_index + 1 /\ abar' = pci.bar5

\* Mutant: subclass and class are taken from each other's byte.
check_device_swapped(p) ==
  \E leftover \in Leftovers :
    LET h == header(p, leftover)
        pci == [h EXCEPT !.class_id = h.subclass_id, !.subclass_id = h.class_id] IN
    /\ pci_devices' = Append(pci_devices, pci)
    /\ IF is_ahci(pci) THEN ahci_init(pci) ELSE UNCHANGED <<pci_device, abar>>

check_device(p) ==
  \E leftover \in Leftovers :
    LET pci == header(p, leftover) IN
    /\ pci_devices' = Append(pci_devices, pci)
    /\ IF is_ahci(pci) THEN ahci_init(pci) ELSE UNCHANGED <<pci_device, abar>>

place == <<at.bus, at.device, at.func>>
\* Mutant: the vendor is not looked at.
present_always(p) == TRUE

present(p) == pci_read_word(p, 0) # NoVendor
multi_function(p) == low_byte(pci_read_word(p, 14)) >= 128

next_device ==
  IF at.device = LastDevice THEN [bus |-> at.bus + 1, device |-> 0, func |-> 0]
  ELSE [bus |-> at.bus, device |-> at.device + 1, func |-> 0]

\* Mutant: every device is asked for all its functions.
next_function_always == IF at.func = LastFunc THEN next_device ELSE [at EXCEPT !.func = @ + 1]

next_function ==
  IF (at.func = 0 /\ ~multi_function(place)) \/ at.func = LastFunc
  THEN next_device ELSE [at EXCEPT !.func = @ + 1]

enumerating == at.bus <= LastBus

no_device ==
  /\ enumerating /\ at.func = 0 /\ ~present(place)
  /\ at' = next_device /\ UNCHANGED <<machine, pci_devices, pci_device, abar>>
no_function ==
  /\ enumerating /\ at.func > 0 /\ ~present(place)
  /\ at' = next_function /\ UNCHANGED <<machine, pci_devices, pci_device, abar>>
found ==
  /\ enumerating /\ present(place)
  /\ check_device(place) /\ at' = next_function /\ UNCHANGED machine

pci_enumerate == no_device \/ no_function \/ found
-----------------------------------------------------------------------------
PciTypeOK ==
  /\ machine \in Machines
  /\ at.bus \in 0 .. LastBus + 1 /\ at.device \in 0 .. LastDevice /\ at.func \in 0 .. LastFunc
  /\ \A i \in 1 .. dev_index :
       <<pci_devices[i].bus, pci_devices[i].device, pci_devices[i].func>> \in DOMAIN machine
  /\ dev_index <= TableSize
  /\ pci_device \in 0 .. dev_index

\* The functions that can be found: function 0, and the others of a device whose
\* function 0 has them.
Functions ==
  {p \in DOMAIN machine :
     p[3] = 0 \/ (<<p[1], p[2], 0>> \in DOMAIN machine /\ multi_function(<<p[1], p[2], 0>>))}

before(p, q) ==
  \/ p[1] < q[1]
  \/ p[1] = q[1] /\ p[2] < q[2]
  \/ p[1] = q[1] /\ p[2] = q[2] /\ p[3] < q[3]

place_of(i) == <<pci_devices[i].bus, pci_devices[i].device, pci_devices[i].func>>

\* pci_enumerate enters every function that lies behind it, none twice and none else,
\* and in the order of their addresses.
EveryFunctionOnce ==
  /\ {place_of(i) : i \in 1 .. dev_index} = {p \in Functions : before(p, place)}
  /\ \A i, j \in 1 .. dev_index : i < j => before(place_of(i), place_of(j))

AhciEntries == {i \in 1 .. dev_index : is_ahci(pci_devices[i])}

\* The driver gets the first AHCI controller, also when more follow it, and its
\* registers are those of the machine's BAR 5, unless the header is not of type 0:
\* then they are what was left on the stack.
FirstControllerDriven ==
  /\ pci_device = 0 <=> AhciEntries = {}
  /\ pci_device # 0 =>
       LET words == machine[place_of(pci_device)] IN
       /\ pci_device \in AhciEntries /\ \A i \in AhciEntries : pci_device <= i
       /\ words[14] % 256 = 0 => abar = words[38] * 65536 + words[36]
=============================================================================
