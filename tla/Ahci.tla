-------------------------------- MODULE Ahci --------------------------------
(***************************************************************************)
(* The AHCI driver: ahci_init finds the ports with a drive, stops each,    *)
(* gives it memory for its command list, received FISes and command        *)
(* tables, and starts it; ahci_read_port and ahci_write_port fill slot 0   *)
(* and issue it.  The controller works beside the driver: its engines      *)
(* start and stop some time after they are told to, and it fetches a       *)
(* command some time after it was issued.  It is modelled from the         *)
(* registers the driver uses.  Memory is counted in blocks of 256 bytes:   *)
(* everything the driver lays out is a multiple of that.                   *)
(***************************************************************************)
EXTENDS Integers, FiniteSets, Sequences

CONSTANTS
  Ports,       \* the ports implemented
  Links,       \* what may be at a port: "absent", "asleep", or an active device
  Placement,   \* placement_adr when ahci_init runs, in blocks
  Requests,    \* what callers ask for: [low, high, count, write]
  MaxSpin      \* 1000000

ASSUME AhciAssumption ==
  /\ Ports \subseteq 0 .. 31 /\ Placement \in Nat /\ MaxSpin \in Nat
  /\ Links \subseteq {"absent", "asleep", "SATA", "SATAPI", "PM", "SEMB"}
  /\ Requests \subseteq [low : Nat, high : Nat, count : Nat, write : BOOLEAN]
  /\ Requests # {}

Slots == 0 .. 31
PageBlocks == 16    \* 4096 bytes
NotSet == -1

\* Slot 0: write and prdt_length stand in the header, the rest in the command table.
Blank == [write |-> FALSE, prdt_length |-> 8, bytes |-> 0, cmd |-> "none",
          lba |-> <<0, 0, 0, 0, 0, 0>>, count |-> <<0, 0>>]
None == [Blank EXCEPT !.lba = <<>>]

VARIABLES
  link,           \* the device at each port
  command,        \* the bits ST, FRE, CR and FR of cmd_and_status, per port
  busy, tfes, issued,   \* task_file_data, interrupt_status and cmd_issue, per port
  failed,         \* the port's engine stopped at an error
  memory,         \* the first of the pages the port's structures lie in, per port
  table,          \* the command in slot 0, per port
  placement_adr,
  pc, port,       \* the driver's next statement, and its port
  spin, request,
  result,         \* what the last call returned
  clean,          \* history: the port had no command when this call began
  sent            \* history: the command the device was sent since

registers == <<command, busy, tfes, issued, failed>>
setup == <<link, memory, placement_adr>>
call == <<spin, request, result, clean, sent>>
vars == <<registers, setup, table, pc, port, call>>

check_port_type(l) == IF l \in {"absent", "asleep"} THEN "NONE" ELSE l
ports == {p \in Ports : check_port_type(link[p]) \in {"SATA", "SATAPI"}}

\* The firmware may have left a port running, busy, or with an old error.
Init ==
  /\ link \in [Ports -> Links]
  /\ command \in [Ports -> {{}, {"FRE", "FR"}, {"ST", "FRE", "CR", "FR"}}]
  /\ busy \in [Ports -> BOOLEAN] /\ tfes \in [Ports -> BOOLEAN]
  /\ issued = [p \in Ports |-> FALSE] /\ failed = [p \in Ports |-> FALSE]
  /\ memory = [p \in Ports |-> NotSet] /\ table = [p \in Ports |-> Blank]
  /\ placement_adr = Placement /\ pc = "next" /\ port = -1
  /\ spin = 0 /\ request = (CHOOSE r \in Requests : TRUE) /\ result = 1
  /\ clean = FALSE /\ sent = None
-----------------------------------------------------------------------------
(***************************************************************************)
(* ahci_init: the loop over the ports probe_ports found.                   *)
(***************************************************************************)
Goto(from, to) == pc = from /\ pc' = to
has(bit) == bit \in command[port]
others_unchanged == UNCHANGED <<busy, tfes, issued, failed, link, table, call>>

remaining == {p \in ports : port < p}

next_port ==
  /\ Goto("next", "stop") /\ remaining # {}
  /\ port' = CHOOSE p \in remaining : \A q \in remaining : p <= q
  /\ UNCHANGED <<command, memory, placement_adr>> /\ others_unchanged
ahci_initialized ==
  /\ Goto("next", "idle") /\ remaining = {}
  /\ UNCHANGED <<command, memory, placement_adr, port>> /\ others_unchanged

\* Mutant: stop_cmd clears FRE before ST.
stop_bit_swapped == [stop |-> "FRE", stop_fis |-> "ST"]

\* Mutant: stop_cmd never clears ST.
stop_bit_receiver == [stop |-> "FRE", stop_fis |-> "FRE"]

stop_bit == [stop |-> "ST", stop_fis |-> "FRE"]
clear_bit(s, to) ==
  /\ Goto(s, to) /\ command' = [command EXCEPT ![port] = @ \ {stop_bit[s]}]
  /\ UNCHANGED <<memory, placement_adr, port>> /\ others_unchanged

\* FR is read first, then CR; the wait begins again while one of them is set.
wait_receiver ==
  /\ Goto("stop_wait", "stop_cr") /\ ~has("FR")
  /\ UNCHANGED <<command, memory, placement_adr, port>> /\ others_unchanged

\* Mutant: the command list's engine is not waited for.
wait_no_engine ==
  /\ Goto("stop_cr", "memory")
  /\ UNCHANGED <<command, memory, placement_adr, port>> /\ others_unchanged

wait_engine ==
  /\ Goto("stop_cr", IF has("CR") THEN "stop_wait" ELSE "memory")
  /\ UNCHANGED <<command, memory, placement_adr, port>> /\ others_unchanged

page_of(adr) == IF adr % PageBlocks = 0 THEN adr ELSE adr - (adr % PageBlocks) + PageBlocks

\* Mutant: all tables share the page of the first.
end_of_one_page(base) == base + PageBlocks * 3

\* A page each for the list, the FISes and every table, one kmalloc after the other;
\* table i starts i blocks behind the start of its page.
cmd_list(base) == base
fis_base(base) == base + PageBlocks
cmd_table(base, i) == base + PageBlocks * (2 + i) + i
end_of_pages(base) == base + PageBlocks * (2 + Cardinality(Slots))

allocate ==
  /\ Goto("memory", "start_wait")
  /\ memory' = [memory EXCEPT ![port] = page_of(placement_adr)]
  /\ placement_adr' = end_of_pages(page_of(placement_adr))
  /\ UNCHANGED <<command, port>> /\ others_unchanged

start_wait ==
  /\ Goto("start_wait", "start_fis") /\ ~has("CR")
  /\ UNCHANGED <<command, memory, placement_adr, port>> /\ others_unchanged

\* Mutant: start_cmd sets FRE twice.
start_bit_receiver == [start_fis |-> "FRE", start |-> "FRE"]

start_bit == [start_fis |-> "FRE", start |-> "ST"]
set_bit(s, to) ==
  /\ Goto(s, to) /\ command' = [command EXCEPT ![port] = @ \cup {start_bit[s]}]
  /\ UNCHANGED <<memory, placement_adr, port>> /\ others_unchanged

ahci_init ==
  \/ next_port \/ ahci_initialized
  \/ clear_bit("stop", "stop_fis") \/ clear_bit("stop_fis", "stop_wait")
  \/ wait_receiver \/ wait_engine \/ allocate
  \/ start_wait \/ set_bit("start_fis", "start") \/ set_bit("start", "next")
-----------------------------------------------------------------------------
(***************************************************************************)
(* ahci_read_port and ahci_write_port, which differ in the command only.   *)
(***************************************************************************)
byte(n, k) == (n \div 256 ^ k) % 256

\* The command for a request; lba3 to lba5 take the bytes of the high word.
command_for(r) ==
  [write |-> r.write, prdt_length |-> 1,
   bytes |-> (r.count * 512 - 1) % 2 ^ 22,
   cmd |-> IF r.write THEN "WRITE_DMA_EX" ELSE "READ_DMA_EX",
   lba |-> <<byte(r.low, 0), byte(r.low, 1), byte(r.low, 2),
             byte(r.high, 0), byte(r.high, 1), byte(r.high, 2)>>,
   count |-> <<byte(r.count, 0), byte(r.count, 1)>>]

begin_call ==
  /\ Goto("idle", "spin")
  /\ port' \in ports /\ request' \in Requests /\ spin' = 0
  /\ clean' = (~issued[port'] /\ ~failed[port']) /\ sent' = None
  /\ UNCHANGED <<registers, setup, table, result>>

\* Mutant: the count is compared with <=.
spin_once_more ==
  /\ pc = "spin" /\ busy[port] /\ spin <= MaxSpin /\ spin' = spin + 1
  /\ UNCHANGED <<registers, setup, table, pc, port, request, result, clean, sent>>

\* The task file is read before the count is looked at; a port that is free at the
\* last look is given up all the same.
spin_on ==
  /\ pc = "spin" /\ busy[port] /\ spin < MaxSpin /\ spin' = spin + 1
  /\ UNCHANGED <<registers, setup, table, pc, port, request, result, clean, sent>>
give_up ==
  /\ Goto("spin", "idle") /\ spin = MaxSpin /\ result' = 0
  /\ UNCHANGED <<registers, setup, table, port, spin, request, clean, sent>>

\* Mutant: old errors are not cleared.
keep_interrupts ==
  /\ Goto("spin", "header") /\ ~busy[port] /\ spin < MaxSpin
  /\ UNCHANGED <<registers, setup, table, port, call>>

clear_interrupts ==
  /\ Goto("spin", "header") /\ ~busy[port] /\ spin < MaxSpin
  /\ tfes' = [tfes EXCEPT ![port] = FALSE]
  /\ UNCHANGED <<command, busy, issued, failed, setup, table, port, call>>

\* The port's slot gets what the request needs in these fields.
put(fields) ==
  table' = [table EXCEPT ![port] =
              [f \in DOMAIN @ |-> IF f \in fields THEN command_for(request)[f] ELSE @[f]]]
fill_header ==
  /\ Goto("header", "blank") /\ put({"write", "prdt_length"})
  /\ UNCHANGED <<registers, setup, port, call>>

cleared(c) == [f \in DOMAIN c |-> IF f \in {"write", "prdt_length"} THEN c[f] ELSE Blank[f]]

\* Mutant: the command is issued before it is filled in.
blank_issued ==
  /\ Goto("blank", "bytes") /\ table' = [table EXCEPT ![port] = cleared(@)]
  /\ issued' = [issued EXCEPT ![port] = TRUE]
  /\ UNCHANGED <<command, busy, tfes, failed, setup, port, call>>

\* memset of the table leaves the header.
blank_table ==
  /\ Goto("blank", "bytes") /\ table' = [table EXCEPT ![port] = cleared(@)]
  /\ UNCHANGED <<registers, setup, port, call>>

\* The buffer, the command, the sector's bytes and the count's are put in one after
\* the other; the statements are named for what they fill.
fill(field, to) ==
  /\ Goto(field, to) /\ put({field})
  /\ UNCHANGED <<registers, setup, port, call>>
fill_table ==
  fill("bytes", "cmd") \/ fill("cmd", "lba") \/ fill("lba", "count") \/ fill("count", "issue")
issue ==
  /\ Goto("issue", "check") /\ issued' = [issued EXCEPT ![port] = TRUE]
  /\ UNCHANGED <<command, busy, tfes, failed, setup, table, port, call>>
return ==
  /\ Goto("check", "idle") /\ result' = IF tfes[port] THEN 0 ELSE 1
  /\ UNCHANGED <<registers, setup, table, port, spin, request, clean, sent>>

ahci_read_or_write ==
  \/ begin_call \/ spin_on \/ give_up \/ clear_interrupts
  \/ fill_header \/ blank_table \/ fill_table \/ issue \/ return
-----------------------------------------------------------------------------
(***************************************************************************)
(* The controller.                                                         *)
(***************************************************************************)
\* CR follows ST and FR follows FRE.
Follow(p, enable, running) ==
  /\ (enable \in command[p]) # (running \in command[p])
  /\ command' = [command EXCEPT ![p] = IF running \in @ THEN @ \ {running} ELSE @ \cup {running}]
  /\ UNCHANGED <<busy, tfes, issued, failed, setup, table, pc, port, call>>

Fetch(p) ==
  /\ issued[p] /\ ~busy[p] /\ ~failed[p] /\ "CR" \in command[p]
  /\ busy' = [busy EXCEPT ![p] = TRUE]
  /\ sent' = IF p = port THEN table[p] ELSE sent
  /\ UNCHANGED <<command, tfes, issued, failed, setup, table, pc, port, spin, request, result, clean>>

\* The device is done: with the command, or with what the firmware had it do.
Complete(p, error) ==
  /\ busy[p] /\ (error => issued[p])
  /\ busy' = [busy EXCEPT ![p] = FALSE]
  /\ issued' = [issued EXCEPT ![p] = @ /\ error]
  /\ tfes' = [tfes EXCEPT ![p] = @ \/ error] /\ failed' = [failed EXCEPT ![p] = error]
  /\ UNCHANGED <<command, setup, table, pc, port, call>>

Engines == \E p \in Ports : Follow(p, "ST", "CR") \/ Follow(p, "FRE", "FR")
Controller == Engines \/ \E p \in Ports : Fetch(p) \/ \E error \in BOOLEAN : Complete(p, error)

Next == ahci_init \/ ahci_read_or_write \/ Controller

\* The main thread runs on, and an engine does what it is told in the end.
Spec == Init /\ [][Next]_vars /\ WF_vars(ahci_init)
          /\ \A p \in Ports : WF_vars(Follow(p, "ST", "CR")) /\ WF_vars(Follow(p, "FRE", "FR"))
-----------------------------------------------------------------------------
TypeOK ==
  /\ link \in [Ports -> Links]
  /\ command \in [Ports -> SUBSET {"ST", "FRE", "CR", "FR"}]
  /\ busy \in [Ports -> BOOLEAN] /\ tfes \in [Ports -> BOOLEAN]
  /\ issued \in [Ports -> BOOLEAN] /\ failed \in [Ports -> BOOLEAN]
  /\ memory \in [Ports -> Nat \cup {NotSet}]
  /\ placement_adr \in Nat /\ port \in Ports \cup {-1}
  /\ spin \in 0 .. MaxSpin /\ request \in Requests /\ result \in {0, 1} /\ clean \in BOOLEAN

\* The comment at start_cmd (3.3.7 of the AHCI documents): ST is only set with FRE
\* set, whatever the firmware left; also on the way down ST goes first.
ReceiverFirst == \A p \in Ports : "ST" \in command[p] => "FRE" \in command[p]

\* The controller is never given other memory while one of its engines runs, which
\* may be long after it was told to stop.
MovedWhenStopped ==
  [][\A p \in Ports : memory'[p] # memory[p] => command[p] \cap {"CR", "FR"} = {}]_vars

\* The 1024 bytes of a command list, the 256 of received FISes and of each command
\* table lie apart, also those of different ports; so a memset of one never clears
\* another.  (The tables from slot 16 on do not lie in the page kmalloc gave for them.)
list_blocks(base) == cmd_list(base) .. cmd_list(base) + 3
Blocks(base) == list_blocks(base) \cup {fis_base(base)} \cup {cmd_table(base, i) : i \in Slots}
Apart(base) ==
  /\ fis_base(base) \notin list_blocks(base)
  /\ \A i \in Slots : cmd_table(base, i) \notin list_blocks(base) \cup {fis_base(base)}
  /\ \A i \in Slots \ {0} : cmd_table(base, i - 1) < cmd_table(base, i)
configured == {p \in Ports : memory[p] # NotSet}
MemoryApart ==
  /\ \A p \in configured : Apart(memory[p])
  /\ \A p, q \in configured : p < q => Blocks(memory[p]) \cap Blocks(memory[q]) = {}

\* What is asked of the device: the sector's six bytes, lowest first, the count, one
\* buffer of 512 bytes per sector, and the direction, in the header as in the command.
lba_of(r) == <<byte(r.low, 0), byte(r.low, 1), byte(r.low, 2), byte(r.low, 3),
               byte(r.high, 0), byte(r.high, 1)>>
Asks(c, r) ==
  /\ c.lba = lba_of(r)
  /\ c.count[1] + 256 * c.count[2] = r.count /\ c.bytes + 1 = 512 * r.count
  /\ c.write = r.write /\ c.prdt_length = 1
  /\ c.cmd = IF r.write THEN "WRITE_DMA_EX" ELSE "READ_DMA_EX"

\* A call on a port whose last command is done has the device do what the caller
\* asked, whenever the controller gets to it; for the first 2^24 sectors and at most
\* the 8192 sectors a single buffer can have.
CommandAsRequested ==
  sent # None /\ clean /\ request.low < 2 ^ 24 /\ request.high = 0
    /\ request.count >= 1 /\ request.count <= 8192
    => Asks(sent, request)

\* An error that such a call reports after it issued the command is the error of
\* this command, not one of an earlier command or of the firmware.
ErrorIsItsOwn ==
  [][return /\ clean /\ result' = 0 => failed[port]]_vars

\* How far ahci_init is from its end: ports to come, statements of this one, and the
\* engines it waits for.
stage == [stop |-> 10, stop_fis |-> 9, stop_wait |-> 6, stop_cr |-> 6, memory |-> 5,
          start_wait |-> 4, start_fis |-> 3, start |-> 2, next |-> 1, idle |-> 0]
setting_up == pc \in DOMAIN stage \ {"idle"}
waiting == pc \in {"stop_wait", "stop_cr"}
running(bit) == IF waiting /\ has(bit) THEN 1 ELSE 0
distance == 10 * Cardinality(remaining) + stage[pc] + running("CR") + running("FR")

\* No step of the driver or of a controller takes ahci_init further from its end; only
\* in the loop that waits for the engines does the driver step without coming nearer,
\* and there an engine that stops never starts again.  At the end every drive is up.
SetUpNears ==
  [][setting_up =>
       /\ distance' <= distance
       /\ pc' # pc => distance' < distance \/ (waiting /\ waiting')
       /\ pc' = "idle" => \A p \in ports : "ST" \in command'[p] /\ memory'[p] # NotSet]_vars

\* ahci_init comes to its end, with every drive's port started and given memory.
DrivesComeUp ==
  <>(pc = "idle" /\ \A p \in ports : "ST" \in command[p] /\ memory[p] # NotSet)

\* The prototypes take a 64-bit sector, and the command has six bytes for it: the
\* device is sent the sector the caller named.
SectorReached == sent # None /\ clean => sent.lba = lba_of(request)
=============================================================================
