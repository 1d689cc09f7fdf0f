----------------------------- MODULE AhciProofs -----------------------------
(***************************************************************************)
(* Theorems about Ahci: what the set-up never does to a controller that    *)
(* lags behind, where the structures lie, and what a call has the device   *)
(* do, for every set of ports, whatever the firmware left.                 *)
(***************************************************************************)
EXTENDS Ahci, FiniteSetTheorems, TLAPS

(***************************************************************************)
(* Where the structures lie.                                               *)
(***************************************************************************)
Aligned(base) == base \in Nat /\ base % 16 = 0

\* kmalloc rounds up to a page.
LEMMA PageOf ==
  ASSUME NEW adr \in Nat
  PROVE  Aligned(page_of(adr)) /\ adr <= page_of(adr)
BY SMT DEF Aligned, page_of, PageBlocks

LEMMA EndOfPages ==
  ASSUME NEW base \in Nat
  PROVE  end_of_pages(base) = base + 544
<1>1. 0 \in Int /\ 31 \in Int /\ ~(0 > 31) /\ 31 - 0 + 1 = 32  BY SMT
<1>2. Cardinality(Slots) = 32  BY <1>1, FS_Interval, Zenon DEF Slots
<1> QED BY <1>2, SMT DEF end_of_pages, PageBlocks

\* The structures of one port.
LEMMA PortApart ==
  ASSUME NEW base \in Nat
  PROVE  Apart(base)
BY SMT DEF Apart, list_blocks, fis_base, cmd_list, cmd_table, Slots, PageBlocks

\* Where two ports' memory is apart, so are their structures, although a port's last
\* table lies in the memory that follows its own.
LEMMA BlocksApart ==
  ASSUME NEW b \in Nat, NEW c \in Nat, Aligned(b), Aligned(c), b + 544 <= c
  PROVE  Blocks(b) \cap Blocks(c) = {}
<1> SUFFICES ASSUME NEW x \in Blocks(b), NEW y \in Blocks(c), x = y
             PROVE  FALSE
  OBVIOUS
<1>1. x \in Nat /\ (x < b + 543 \/ x = b + 559)
  BY SMT DEF Blocks, list_blocks, fis_base, cmd_list, cmd_table, Slots, PageBlocks
<1>2. y \in Nat /\ y >= c
  BY SMT DEF Blocks, list_blocks, fis_base, cmd_list, cmd_table, Slots, PageBlocks
<1>3. y = c + 15 => FALSE
  BY SMT DEF Blocks, list_blocks, fis_base, cmd_list, cmd_table, Slots, PageBlocks
<1>4. x = b + 559 => FALSE
  <2> SUFFICES ASSUME x = b + 559
               PROVE  FALSE
    OBVIOUS
  <2>1. c = b + 544 \/ c >= b + 560  BY SMT DEF Aligned
  <2> QED BY <1>2, <1>3, <2>1, SMT
<1> QED BY <1>1, <1>2, <1>4, SMT
-----------------------------------------------------------------------------
(***************************************************************************)
(* The inductive invariant.                                                *)
(***************************************************************************)
Stopping == {"stop_fis", "stop_wait", "stop_cr", "memory", "start_wait", "start_fis", "start"}
Setup == {"next", "stop"} \cup Stopping
Filling == {"header", "blank", "bytes", "cmd", "lba", "count", "issue"}
Calling == {"spin", "check"} \cup Filling
Fields == {"write", "prdt_length", "bytes", "cmd", "lba", "count"}

PcOK ==
  /\ pc \in Setup \cup Calling \cup {"idle"}
  /\ pc \notin {"next", "idle"} => port \in Ports
  /\ clean => pc \in Calling \cup {"idle"} /\ port \in Ports
  /\ table = [p \in Ports |-> table[p]]
  /\ \A p \in Ports : table[p] = [f \in Fields |-> table[p][f]]

\* The bits on the way down and up again; once CR and FR are clear they stay clear.
BitsInOrder ==
  /\ pc \in Stopping => "ST" \notin command[port]
  /\ pc \in Stopping \ {"stop_fis", "start"} => "FRE" \notin command[port]
  /\ pc = "start" => "FRE" \in command[port]
  /\ pc \in {"stop_cr", "memory"} => "FR" \notin command[port]
  /\ pc = "memory" => "CR" \notin command[port]

\* Every port's memory is a run of pages of its own below placement_adr.
PagesInOrder ==
  /\ \A p \in configured : Aligned(memory[p]) /\ memory[p] + 544 <= placement_adr
  /\ \A p, q \in configured :
       p # q => memory[p] + 544 <= memory[q] \/ memory[q] + 544 <= memory[p]

NeverBusyFailed == \A p \in Ports : busy[p] => ~failed[p]

\* What a clean call has brought about so far.
Written(f) == table[port][f] = command_for(request)[f]
WrittenInOrder ==
  /\ pc \in Filling \ {"header"} => Written("write") /\ Written("prdt_length")
  /\ pc \in {"cmd", "lba", "count", "issue"} => Written("bytes")
  /\ pc \in {"lba", "count", "issue"} => Written("cmd")
  /\ pc \in {"count", "issue"} => Written("lba")
  /\ pc = "issue" => Written("count")
CallSoFar ==
  clean =>
    /\ pc \in {"spin"} \cup Filling => ~issued[port] /\ sent = None
    /\ WrittenInOrder
    /\ pc \in {"check", "idle"} /\ issued[port] => \A f \in Fields : Written(f)
    /\ sent # None => sent = command_for(request)
    /\ pc \in {"check"} \cup Filling => (tfes[port] => failed[port])

IInv ==
  TypeOK /\ PcOK /\ ReceiverFirst /\ BitsInOrder /\ PagesInOrder /\ NeverBusyFailed /\ CallSoFar

LEMMA InitIInv == Init => IInv
<1> SUFFICES ASSUME Init
             PROVE  IInv
  OBVIOUS
<1>1. request \in Requests
  <2>1. \E r \in Requests : TRUE  BY AhciAssumption, Zenon
  <2>2. request = CHOOSE r \in Requests : TRUE  BY DEF Init
  <2> QED BY <2>1, <2>2, Zenon
<1>2. TypeOK
  <2>1. Placement \in Nat /\ MaxSpin \in Nat  BY AhciAssumption
  <2>2. command \in [Ports -> SUBSET {"ST", "FRE", "CR", "FR"}]  BY SMT DEF Init
  <2>3. /\ issued \in [Ports -> BOOLEAN] /\ failed \in [Ports -> BOOLEAN]
        /\ memory \in [Ports -> Nat \cup {NotSet}]
    BY DEF Init
  <2>4. spin \in 0 .. MaxSpin  BY <2>1 DEF Init
  <2> QED BY <1>1, <2>1, <2>2, <2>3, <2>4 DEF Init, TypeOK
<1>3. BitsInOrder /\ NeverBusyFailed /\ CallSoFar
  BY SMT DEF Init, BitsInOrder, NeverBusyFailed, CallSoFar, Stopping
<1>6. PcOK
  <2>1. Blank = [f \in Fields |-> Blank[f]]  BY SMT DEF Blank, Fields
  <2>2. /\ table = [p \in Ports |-> table[p]]
        /\ \A p \in Ports : table[p] = [f \in Fields |-> table[p][f]]
    BY <2>1 DEF Init
  <2> QED BY <2>2, SMT DEF Init, PcOK, Setup
<1>4. ReceiverFirst  BY SMT DEF Init, ReceiverFirst
<1>5. PagesInOrder  BY SMT DEF Init, PagesInOrder, configured
<1> QED BY <1>2, <1>3, <1>4, <1>5, <1>6 DEF IInv

\* The next port is the first that remains.
LEMMA LeastPort ==
  ASSUME NEW S \in SUBSET Nat, S # {}
  PROVE  \E p \in S : \A q \in S : p <= q
<1> DEFINE R == OpToRel(<, Nat)
<1>1. PICK p \in S : \A q \in S : ~(<<q, p>> \in R)
  <2> HIDE DEF R
  <2>1. IsWellFoundedOn(R, Nat)  BY NatLessThanWellFounded DEF R
  <2> QED BY <2>1, WFMin
<1>2. \A q \in S : p <= q
  <2> SUFFICES ASSUME NEW q \in S PROVE p <= q  OBVIOUS
  <2>1. ~(q < p)  BY <1>1 DEF OpToRel
  <2> QED BY <2>1
<1> QED BY <1>2

\* ahci_init does not end a call.
LEMMA SetupStep ==
  ASSUME IInv, ahci_init
  PROVE  IInv'
<1> USE DEF IInv
<1>a. pc \in Setup /\ ~clean
  BY SMT DEF ahci_init, next_port, ahci_initialized, clear_bit, wait_receiver, wait_engine,
     allocate,
             start_wait, set_bit, Goto, PcOK, Setup, Stopping, Calling, Filling
<1>b. UNCHANGED <<busy, tfes, issued, failed, link, table, call>>
  BY SMT DEF ahci_init, next_port, ahci_initialized, clear_bit, wait_receiver, wait_engine,
     allocate,
             start_wait, set_bit, others_unchanged
<1>c. CallSoFar' /\ NeverBusyFailed'
  BY <1>a, <1>b, SMT DEF CallSoFar, WrittenInOrder, Written, NeverBusyFailed, call
<1>1. CASE next_port
  <2>1. port' \in Ports
    <3>1. remaining \in SUBSET Nat /\ remaining # {}
      <4>1. Ports \in SUBSET Nat  BY AhciAssumption
      <4> QED BY <1>1, <4>1 DEF next_port, remaining, ports
    <3>2. \E p \in remaining : \A q \in remaining : p <= q  BY <3>1, LeastPort
    <3>3. port' = CHOOSE p \in remaining : \A q \in remaining : p <= q  BY <1>1 DEF next_port
    <3>4. port' \in remaining  BY <3>2, <3>3, Zenon
    <3> QED BY <3>4 DEF remaining, ports
  <2>2. TypeOK' /\ PcOK'
    BY <1>1, <1>a, <1>b, <2>1, SMT DEF next_port, Goto, TypeOK, PcOK, call, Setup, Stopping,
       Calling, Filling
  <2>3. ReceiverFirst' /\ BitsInOrder' /\ PagesInOrder'
    BY <1>1, SMT DEF next_port, Goto, ReceiverFirst, BitsInOrder, PagesInOrder, configured, Stopping
  <2> QED BY <1>c, <2>2, <2>3
<1>2. CASE ahci_initialized
  <2>1. TypeOK' /\ PcOK'
    BY <1>2, <1>a, <1>b, SMT DEF ahci_initialized, Goto, TypeOK, PcOK, call, Setup, Stopping,
       Calling, Filling
  <2>2. ReceiverFirst' /\ BitsInOrder' /\ PagesInOrder'
    BY <1>2, SMT DEF ahci_initialized, Goto, ReceiverFirst, BitsInOrder, PagesInOrder, configured,
       Stopping
  <2> QED BY <1>c, <2>1, <2>2
<1>3. CASE clear_bit("stop", "stop_fis")
  <2>1. TypeOK' /\ PcOK'
    BY <1>3, <1>a, <1>b, SMT DEF clear_bit, stop_bit, Goto, TypeOK, PcOK, call, Setup, Stopping,
       Calling, Filling
  <2>2. ReceiverFirst' /\ BitsInOrder'
    BY <1>3, SMT DEF clear_bit, stop_bit, Goto, ReceiverFirst, BitsInOrder, Stopping, TypeOK, PcOK
  <2>3. PagesInOrder'  BY <1>3, SMT DEF clear_bit, PagesInOrder, configured
  <2> QED BY <1>c, <2>1, <2>2, <2>3
<1>4. CASE clear_bit("stop_fis", "stop_wait")
  <2>1. TypeOK' /\ PcOK'
    BY <1>4, <1>a, <1>b, SMT DEF clear_bit, stop_bit, Goto, TypeOK, PcOK, call, Setup, Stopping,
       Calling, Filling
  <2>2. ReceiverFirst' /\ BitsInOrder'
    BY <1>4, SMT DEF clear_bit, stop_bit, Goto, ReceiverFirst, BitsInOrder, Stopping, TypeOK, PcOK
  <2>3. PagesInOrder'  BY <1>4, SMT DEF clear_bit, PagesInOrder, configured
  <2> QED BY <1>c, <2>1, <2>2, <2>3
<1>5. CASE wait_receiver
  <2>1. TypeOK' /\ PcOK'
    BY <1>5, <1>a, <1>b, SMT DEF wait_receiver, Goto, TypeOK, PcOK, call, Setup, Stopping,
       Calling, Filling
  <2>2. ReceiverFirst' /\ BitsInOrder'
    BY <1>5, SMT DEF wait_receiver, has, Goto, ReceiverFirst, BitsInOrder, Stopping
  <2>3. PagesInOrder'  BY <1>5, SMT DEF wait_receiver, PagesInOrder, configured
  <2> QED BY <1>c, <2>1, <2>2, <2>3
<1>6. CASE wait_engine
  <2>1. TypeOK' /\ PcOK'
    BY <1>6, <1>a, <1>b, SMT DEF wait_engine, Goto, TypeOK, PcOK, call, Setup, Stopping, Calling,
       Filling
  <2>2. ReceiverFirst' /\ BitsInOrder'
    BY <1>6, SMT DEF wait_engine, has, Goto, ReceiverFirst, BitsInOrder, Stopping
  <2>3. PagesInOrder'  BY <1>6, SMT DEF wait_engine, PagesInOrder, configured
  <2> QED BY <1>c, <2>1, <2>2, <2>3
<1>7. CASE allocate
  <2> DEFINE base == page_of(placement_adr)
  <2>1. Aligned(base) /\ placement_adr <= base  BY PageOf DEF TypeOK
  <2>2. base \in Nat /\ end_of_pages(base) = base + 544  BY <2>1, EndOfPages DEF Aligned
  <2>3. memory' = [memory EXCEPT ![port] = base] /\ placement_adr' = base + 544
    BY <1>7, <2>2 DEF allocate
  <2> HIDE DEF base
  <2>4. TypeOK' /\ PcOK'
    BY <1>7, <1>a, <1>b, <2>2, <2>3, SMT DEF allocate, Goto, TypeOK, PcOK, call, Setup, Stopping,
       Calling, Filling
  <2>5. ReceiverFirst' /\ BitsInOrder'
    BY <1>7, SMT DEF allocate, Goto, ReceiverFirst, BitsInOrder, Stopping
  <2>6. PagesInOrder'
    <3>1. port \in Ports /\ placement_adr \in Nat /\ memory \in [Ports -> Nat \cup {NotSet}]
      BY <1>7, SMT DEF allocate, Goto, PcOK, TypeOK
    <3>2. \A p \in configured' : p # port => p \in configured /\ memory'[p] = memory[p]
      BY <2>3, <3>1, SMT DEF configured
    <3>3. memory'[port] = base  BY <2>3, <3>1
    <3> QED BY <2>1, <2>2, <2>3, <3>1, <3>2, <3>3, SMT DEF PagesInOrder, Aligned
  <2> QED BY <1>c, <2>4, <2>5, <2>6
<1>8. CASE start_wait
  <2>1. TypeOK' /\ PcOK'
    BY <1>8, <1>a, <1>b, SMT DEF start_wait, Goto, TypeOK, PcOK, call, Setup, Stopping, Calling,
       Filling
  <2>2. ReceiverFirst' /\ BitsInOrder'
    BY <1>8, SMT DEF start_wait, Goto, ReceiverFirst, BitsInOrder, Stopping
  <2>3. PagesInOrder'  BY <1>8, SMT DEF start_wait, PagesInOrder, configured
  <2> QED BY <1>c, <2>1, <2>2, <2>3
<1>9. CASE set_bit("start_fis", "start")
  <2>1. TypeOK' /\ PcOK'
    BY <1>9, <1>a, <1>b, SMT DEF set_bit, start_bit, Goto, TypeOK, PcOK, call, Setup, Stopping,
       Calling, Filling
  <2>2. ReceiverFirst' /\ BitsInOrder'
    BY <1>9, SMT DEF set_bit, start_bit, Goto, ReceiverFirst, BitsInOrder, Stopping, TypeOK, PcOK
  <2>3. PagesInOrder'  BY <1>9, SMT DEF set_bit, PagesInOrder, configured
  <2> QED BY <1>c, <2>1, <2>2, <2>3
<1>10. CASE set_bit("start", "next")
  <2>1. TypeOK' /\ PcOK'
    BY <1>10, <1>a, <1>b, SMT DEF set_bit, start_bit, Goto, TypeOK, PcOK, call, Setup, Stopping,
       Calling, Filling
  <2>2. ReceiverFirst' /\ BitsInOrder'
    BY <1>10, SMT DEF set_bit, start_bit, Goto, ReceiverFirst, BitsInOrder, Stopping, TypeOK, PcOK
  <2>3. PagesInOrder'  BY <1>10, SMT DEF set_bit, PagesInOrder, configured
  <2> QED BY <1>c, <2>1, <2>2, <2>3
<1> QED
  BY <1>1, <1>2, <1>3, <1>4, <1>5, <1>6, <1>7, <1>8, <1>9, <1>10 DEF ahci_init

\* A slot keeps its fields; each has what the request needs, or what it had.
LEMMA Put ==
  ASSUME PcOK, port \in Ports, NEW S \in SUBSET Fields, put(S)
  PROVE  /\ table' = [p \in Ports |-> table'[p]]
         /\ \A p \in Ports : table'[p] = [f \in Fields |-> table'[p][f]]
         /\ \A f \in S : table'[port][f] = command_for(request)[f]
         /\ \A f \in Fields \ S : table'[port][f] = table[port][f]
<1> DEFINE cmd == command_for(request)
           new == [f \in Fields |-> IF f \in S THEN cmd[f] ELSE table[port][f]]
<1>1. DOMAIN table[port] = Fields  BY SMT DEF PcOK
<1>2. table' = [table EXCEPT ![port] = new]  BY <1>1 DEF put
<1>3. /\ \A f \in S : new[f] = cmd[f]
      /\ \A f \in Fields \ S : new[f] = table[port][f]
      /\ new = [f \in Fields |-> new[f]]
  OBVIOUS
<1> HIDE DEF new, cmd
<1>4. table'[port] = new /\ \A p \in Ports \ {port} : table'[p] = table[p]
  BY <1>2, SMT DEF PcOK
<1>5. table' = [p \in Ports |-> table'[p]]  BY <1>2, SMT DEF PcOK
<1>6. \A p \in Ports : table'[p] = [f \in Fields |-> table'[p][f]]
  <2> SUFFICES ASSUME NEW p \in Ports PROVE table'[p] = [f \in Fields |-> table'[p][f]]
    OBVIOUS
  <2>1. CASE p = port  BY <1>3, <1>4, <2>1
  <2>2. CASE p # port  BY <1>4, <2>2, Zenon DEF PcOK
  <2> QED BY <2>1, <2>2
<1> QED BY <1>3, <1>4, <1>5, <1>6 DEF cmd

LEMMA Cleared ==
  ASSUME NEW c, c = [f \in Fields |-> c[f]]
  PROVE  /\ cleared(c) = [f \in Fields |-> cleared(c)[f]]
         /\ cleared(c)["write"] = c["write"] /\ cleared(c)["prdt_length"] = c["prdt_length"]
<1>1. DOMAIN c = Fields  BY SMT
<1>2. cleared(c) = [f \in Fields |-> IF f \in {"write", "prdt_length"} THEN c[f] ELSE Blank[f]]
  BY <1>1 DEF cleared
<1> QED BY <1>2 DEF Fields

\* A slot whose fields are all written is the command.
LEMMA AllWritten ==
  ASSUME PcOK, port \in Ports, \A f \in Fields : Written(f)
  PROVE  table[port] = command_for(request)
<1> DEFINE cmd == command_for(request)
<1>1. cmd = [f \in Fields |-> cmd[f]]  BY SMT DEF command_for, Fields
<1> HIDE DEF cmd
<1>2. table[port] = [f \in Fields |-> table[port][f]]  BY DEF PcOK
<1>3. \A f \in Fields : table[port][f] = cmd[f]  BY DEF Written, cmd
<1>4. table[port] = cmd  BY <1>1, <1>2, <1>3
<1> QED BY <1>4 DEF cmd

\* A call does not touch what the set-up has done.
LEMMA CallStep ==
  ASSUME IInv, ahci_read_or_write
  PROVE  IInv'
<1> USE DEF IInv
<1>m. MaxSpin \in Nat  BY AhciAssumption
<1>u. ReceiverFirst' /\ BitsInOrder' /\ PagesInOrder'
  <2>1. UNCHANGED <<command, memory, placement_adr>> /\ pc' \in Calling \cup {"idle"}
    BY SMT DEF ahci_read_or_write, begin_call, spin_on, give_up, clear_interrupts, fill_header,
               blank_table, fill_table, fill, issue, return, Goto, registers, setup, Calling,
               Filling
  <2> QED BY <2>1, SMT DEF ReceiverFirst, BitsInOrder, PagesInOrder, configured, Stopping, Calling,
             Filling
<1>1. CASE begin_call
  <2>1. port' \in Ports  BY <1>1 DEF begin_call, ports
  <2>2. clean' = (~issued[port'] /\ ~failed[port']) /\ sent' = None /\ pc' = "spin"
    BY <1>1 DEF begin_call, Goto
  <2>3. TypeOK' /\ PcOK'
    BY <1>1, <1>m, <2>1, <2>2, SMT DEF begin_call, TypeOK, PcOK, registers, setup, Setup,
       Stopping, Calling, Filling
  <2>4. NeverBusyFailed' /\ CallSoFar'
    <3>1. NeverBusyFailed'  BY <1>1, SMT DEF begin_call, NeverBusyFailed, registers
    <3>2. UNCHANGED issued  BY <1>1 DEF begin_call, registers
    <3>3. clean' => ~issued'[port']  BY <2>2, <3>2, Zenon
    <3>4. WrittenInOrder'  BY <2>2, SMT DEF WrittenInOrder, Filling
    <3>5. pc' \notin {"check", "idle"} \cup Filling /\ pc' = "spin"  BY <2>2 DEF Filling
    <3> QED BY <2>2, <3>1, <3>3, <3>4, <3>5, Zenon DEF CallSoFar
  <2> QED BY <1>u, <2>3, <2>4
<1>2. CASE spin_on
  <2>1. TypeOK' /\ PcOK'
    BY <1>2, <1>m, SMT DEF spin_on, Goto, TypeOK, PcOK, registers, setup, call, Setup, Stopping,
       Calling, Filling
  <2>2. NeverBusyFailed' /\ CallSoFar'
    BY <1>2, SMT DEF spin_on, Goto, NeverBusyFailed, CallSoFar, WrittenInOrder, Written, TypeOK,
       PcOK,
       registers, setup, call, Filling
  <2> QED BY <1>u, <2>1, <2>2
<1>3. CASE give_up
  <2>1. TypeOK' /\ PcOK'
    BY <1>3, <1>m, SMT DEF give_up, Goto, TypeOK, PcOK, registers, setup, call, Setup, Stopping,
       Calling, Filling
  <2>2. NeverBusyFailed' /\ CallSoFar'
    BY <1>3, SMT DEF give_up, Goto, NeverBusyFailed, CallSoFar, WrittenInOrder, Written, TypeOK,
       PcOK,
       registers, setup, call, Filling
  <2> QED BY <1>u, <2>1, <2>2
<1>4. CASE clear_interrupts
  <2>1. TypeOK' /\ PcOK'
    BY <1>4, <1>m, SMT DEF clear_interrupts, Goto, TypeOK, PcOK, registers, setup, call, Setup,
       Stopping, Calling, Filling
  <2>2. NeverBusyFailed' /\ CallSoFar'
    BY <1>4, SMT DEF clear_interrupts, Goto, NeverBusyFailed, CallSoFar, WrittenInOrder, Written,
       TypeOK, PcOK,
       registers, setup, call, Filling
  <2> QED BY <1>u, <2>1, <2>2
<1>5. CASE blank_table
  <2>1. table' = [table EXCEPT ![port] = cleared(table[port])] /\ port \in Ports
    BY <1>5, SMT DEF blank_table, Goto, PcOK, Calling, Filling
  <2>2. table'[port] = cleared(table[port]) /\ \A p \in Ports \ {port} : table'[p] = table[p]
    BY <2>1, SMT DEF PcOK
  <2>3. /\ table' = [p \in Ports |-> table'[p]]
        /\ \A p \in Ports : table'[p] = [f \in Fields |-> table'[p][f]]
    BY <2>1, <2>2, Cleared, SMT DEF PcOK
  <2>4. table'[port]["write"] = table[port]["write"] /\ table'[port]["prdt_length"] = table[port]["prdt_length"]
    BY <2>1, <2>2, Cleared, SMT DEF PcOK, Fields
  <2>7. pc' = "bytes" /\ UNCHANGED <<registers, setup, port, call>>  BY <1>5 DEF blank_table, Goto
  <2>8. TypeOK'  BY <2>7, SMT DEF TypeOK, registers, setup, call
  <2>5. TypeOK' /\ PcOK'
    BY <2>1, <2>3, <2>7, <2>8, SMT DEF PcOK, call, Calling, Filling
  <2>6. NeverBusyFailed' /\ CallSoFar'
    BY <1>5, <2>4, SMT DEF blank_table, Goto, NeverBusyFailed, CallSoFar, WrittenInOrder, Written,
       TypeOK,
       PcOK, registers, setup, call, Filling
  <2> QED BY <1>u, <2>5, <2>6
<1>6. ASSUME NEW S \in SUBSET Fields, put(S), UNCHANGED <<registers, setup, port, call>>,
             pc \in Filling \ {"blank", "issue"}, pc' \in Filling \ {"header", "bytes"},
             CallSoFar'
      PROVE  IInv'
  <2>1. port \in Ports  BY <1>6, SMT DEF PcOK, Filling
  <2>2. /\ table' = [p \in Ports |-> table'[p]]
        /\ \A p \in Ports : table'[p] = [f \in Fields |-> table'[p][f]]
    BY <1>6, <2>1, Put
  <2>3. TypeOK' /\ PcOK'
    BY <1>6, <1>m, <2>2, SMT DEF TypeOK, PcOK, registers, setup, call, Setup, Stopping, Calling,
       Filling
  <2>4. NeverBusyFailed'  BY <1>6, SMT DEF NeverBusyFailed, registers
  <2> QED BY <1>6, <1>u, <2>3, <2>4
<1>p. ASSUME NEW S \in SUBSET Fields, put(S), UNCHANGED <<registers, setup, port, call>>,
             pc \in Filling
      PROVE  /\ \A f \in S : Written(f)'
             /\ \A f \in Fields : Written(f) => Written(f)'
  <2>1. port \in Ports  BY <1>p, SMT DEF PcOK, Filling
  <2>2. UNCHANGED <<port, request>>  BY <1>p DEF call
  <2> QED BY <1>p, <2>1, <2>2, Put DEF Written
<1>9. CASE fill_header
  <2> DEFINE S == {"write", "prdt_length"}
  <2>1. /\ S \in SUBSET Fields /\ put(S) /\ UNCHANGED <<registers, setup, port, call>>
        /\ pc = "header" /\ pc' = "blank"
    BY <1>9 DEF fill_header, Goto, Fields
  <2> HIDE DEF S
  <2>2. \A f \in S : Written(f)'  BY <1>p, <2>1 DEF Filling
  <2>3. Written("write")' /\ Written("prdt_length")'  BY <2>2 DEF S
  <2>4. CallSoFar'
    BY <2>1, <2>3, SMT DEF CallSoFar, WrittenInOrder, registers, call, Filling
  <2> QED BY <1>6, <2>1, <2>4 DEF Filling
<1>10. ASSUME NEW s \in {"bytes", "cmd", "lba", "count"}, NEW t \in Filling, fill(s, t),
              <<s, t>> \in {<<"bytes", "cmd">>, <<"cmd", "lba">>, <<"lba", "count">>,
                             <<"count", "issue">>}
      PROVE  IInv'
  <2> DEFINE S == {s}
  <2>1. /\ S \in SUBSET Fields /\ put(S) /\ UNCHANGED <<registers, setup, port, call>>
        /\ pc = s /\ pc' = t
    BY <1>10 DEF fill, Goto, Fields
  <2> HIDE DEF S
  <2>2. (\A f \in S : Written(f)') /\ (\A f \in Fields : Written(f) => Written(f)')
    BY <1>p, <2>1, <1>10 DEF Filling
  <2>3. Written(s)' /\ \A f \in Fields : Written(f) => Written(f)'  BY <2>2 DEF S
  <2>4. WrittenInOrder => WrittenInOrder'
    BY <1>10, <2>1, <2>3, SMT DEF WrittenInOrder, Filling, Fields
  <2>5. UNCHANGED <<issued, tfes, failed, clean, sent, port, request>>
    BY <2>1 DEF registers, call
  <2>6. pc \in Filling /\ pc' \in Filling  BY <1>10, <2>1 DEF Filling
  <2>7. CallSoFar'
    BY <2>4, <2>5, <2>6, SMT DEF CallSoFar, Filling
  <2>8. pc \notin {"blank", "issue"} /\ pc' \notin {"header", "bytes"}  BY <1>10, <2>1, SMT
  <2> QED BY <1>6, <2>1, <2>6, <2>7, <2>8
<1>11. CASE fill_table
  <2>1. CASE fill("bytes", "cmd")  BY <1>10, <2>1, SMT DEF Filling
  <2>2. CASE fill("cmd", "lba")  BY <1>10, <2>2, SMT DEF Filling
  <2>3. CASE fill("lba", "count")  BY <1>10, <2>3, SMT DEF Filling
  <2>4. CASE fill("count", "issue")  BY <1>10, <2>4, SMT DEF Filling
  <2> QED BY <1>11, <2>1, <2>2, <2>3, <2>4 DEF fill_table
<1>7. CASE issue
  <2>1. TypeOK' /\ PcOK'
    BY <1>7, <1>m, SMT DEF issue, Goto, TypeOK, PcOK, registers, setup, call, Setup, Stopping,
       Calling, Filling
  <2>2. NeverBusyFailed' /\ CallSoFar'
    <3>1. /\ pc = "issue" /\ pc' = "check" /\ issued' = [issued EXCEPT ![port] = TRUE]
          /\ UNCHANGED <<busy, tfes, failed, table, port, request, clean, sent>>
      BY <1>7 DEF issue, Goto, call
    <3>2. WrittenInOrder'  BY <3>1, SMT DEF WrittenInOrder, Filling
    <3>3. clean => \A f \in Fields : Written(f)
      BY <3>1, SMT DEF CallSoFar, WrittenInOrder, Filling, Fields
    <3>4. clean => \A f \in Fields : Written(f)'  BY <3>1, <3>3 DEF Written
    <3>5. NeverBusyFailed'  BY <3>1 DEF NeverBusyFailed
    <3>6. CallSoFar'  BY <3>1, <3>2, <3>4, SMT DEF CallSoFar, Filling
    <3> QED BY <3>5, <3>6
  <2> QED BY <1>u, <2>1, <2>2
<1>8. CASE return
  <2>1. TypeOK' /\ PcOK'
    BY <1>8, <1>m, SMT DEF return, Goto, TypeOK, PcOK, registers, setup, call, Setup, Stopping,
       Calling, Filling
  <2>2. NeverBusyFailed' /\ CallSoFar'
    BY <1>8, SMT DEF return, Goto, NeverBusyFailed, CallSoFar, WrittenInOrder, Written, TypeOK,
       PcOK,
       registers, setup, call, Filling
  <2> QED BY <1>u, <2>1, <2>2
<1> QED
  BY <1>1, <1>2, <1>3, <1>4, <1>5, <1>7, <1>8, <1>9, <1>11 DEF ahci_read_or_write

\* The controller follows the bits, and works on the command it was given.
LEMMA ControllerStep ==
  ASSUME IInv, Controller
  PROVE  IInv'
<1> USE DEF IInv
<1>1. ASSUME NEW p \in Ports, Follow(p, "ST", "CR") \/ Follow(p, "FRE", "FR")
      PROVE  IInv'
  <2>1. TypeOK' /\ PcOK'
    BY <1>1, SMT DEF Follow, TypeOK, PcOK, setup, call
  <2>4. pc \in Stopping => port \in Ports  BY SMT DEF PcOK, Stopping
  <2>5. command \in [Ports -> SUBSET {"ST", "FRE", "CR", "FR"}] /\ UNCHANGED <<pc, port>>
    BY <1>1 DEF Follow, TypeOK
  <2>6. \E enable \in {"ST", "FRE"}, run \in {"CR", "FR"} :
          /\ <<enable, run>> \in {<<"ST", "CR">>, <<"FRE", "FR">>}
          /\ enable \in command[p] \/ run \in command[p]
          /\ (enable \in command[p]) # (run \in command[p])
          /\ command' = [command EXCEPT ![p] = IF run \in @ THEN @ \ {run} ELSE @ \cup {run}]
    BY <1>1 DEF Follow
  <2>2. ReceiverFirst' /\ BitsInOrder'
    BY <2>4, <2>5, <2>6, SMT DEF ReceiverFirst, BitsInOrder, Stopping
  <2>3. PagesInOrder' /\ NeverBusyFailed' /\ CallSoFar'
    BY <1>1, SMT DEF Follow, PagesInOrder, configured, NeverBusyFailed, CallSoFar, WrittenInOrder,
       Written, setup, call
  <2> QED BY <2>1, <2>2, <2>3
<1>2. ASSUME NEW p \in Ports, Fetch(p)
      PROVE  IInv'
  <2>1. TypeOK' /\ PcOK'
    BY <1>2, SMT DEF Fetch, TypeOK, PcOK, setup
  <2>2. ReceiverFirst' /\ BitsInOrder' /\ PagesInOrder'
    BY <1>2, SMT DEF Fetch, ReceiverFirst, BitsInOrder, PagesInOrder, configured, setup
  <2>3. NeverBusyFailed'  BY <1>2, SMT DEF Fetch, NeverBusyFailed, TypeOK
  <2>4. CallSoFar'
    <3>1. /\ UNCHANGED <<pc, port, request, clean, table, tfes, issued, failed>> /\ issued[p]
          /\ sent' = IF p = port THEN table[p] ELSE sent
      BY <1>2 DEF Fetch, setup
    <3>2. WrittenInOrder' = WrittenInOrder /\ \A f \in Fields : Written(f)' = Written(f)
      BY <3>1 DEF WrittenInOrder, Written
    <3> SUFFICES ASSUME clean PROVE CallSoFar'
      BY <3>1, Zenon DEF CallSoFar
    <3>3. CASE p = port
      <4>1. pc \in {"check", "idle"}
        BY <3>1, <3>3, SMT DEF CallSoFar, PcOK, Calling
      <4>2. \A f \in Fields : Written(f)  BY <3>1, <3>3, <4>1 DEF CallSoFar
      <4>3. table[port] = command_for(request)  BY <3>3, <4>2, AllWritten
      <4> QED BY <3>1, <3>2, <3>3, <4>1, <4>3, SMT DEF CallSoFar, Filling
    <3>4. CASE p # port  BY <3>1, <3>2, <3>4, SMT DEF CallSoFar
    <3> QED BY <3>3, <3>4
  <2> QED BY <2>1, <2>2, <2>3, <2>4
<1>3. ASSUME NEW p \in Ports, NEW error \in BOOLEAN, Complete(p, error)
      PROVE  IInv'
  <2>1. TypeOK' /\ PcOK'
    BY <1>3, SMT DEF Complete, TypeOK, PcOK, setup, call
  <2>2. ReceiverFirst' /\ BitsInOrder' /\ PagesInOrder'
    BY <1>3, SMT DEF Complete, ReceiverFirst, BitsInOrder, PagesInOrder, configured, setup
  <2>3. NeverBusyFailed'  BY <1>3, SMT DEF Complete, NeverBusyFailed, TypeOK
  <2>4. CallSoFar'
    BY <1>3, SMT DEF Complete, CallSoFar, WrittenInOrder, Written, NeverBusyFailed, TypeOK, PcOK,
       Calling, Filling, call
  <2> QED BY <2>1, <2>2, <2>3, <2>4
<1> QED BY <1>1, <1>2, <1>3 DEF Controller, Engines

LEMMA NextIInv == IInv /\ [Next]_vars => IInv'
<1> SUFFICES ASSUME IInv, [Next]_vars
             PROVE  IInv'
  OBVIOUS
<1>1. CASE ahci_init  BY <1>1, SetupStep
<1>2. CASE ahci_read_or_write  BY <1>2, CallStep
<1>3. CASE Controller  BY <1>3, ControllerStep
<1>4. CASE UNCHANGED vars
  <2>1. UNCHANGED <<registers, setup, table, pc, port, call>>  BY <1>4 DEF vars
  <2>2. TypeOK' /\ ReceiverFirst' /\ BitsInOrder' /\ PagesInOrder' /\ NeverBusyFailed'
    BY <2>1, SMT DEF registers, setup, call, IInv, TypeOK, ReceiverFirst, BitsInOrder,
       PagesInOrder, configured, NeverBusyFailed
  <2>3. PcOK'  BY <2>1 DEF call, IInv, PcOK
  <2>4. CallSoFar'  BY <2>1 DEF registers, call, IInv, CallSoFar, WrittenInOrder, Written
  <2> QED BY <2>2, <2>3, <2>4 DEF IInv
<1> QED BY <1>1, <1>2, <1>3, <1>4 DEF Next

\* The invariant of driver and controller, for every set of ports.
THEOREM Invariance == Spec => []IInv
<1>1. Init => IInv  BY InitIInv
<1>2. IInv /\ [Next]_vars => IInv'  BY NextIInv
<1> QED BY <1>1, <1>2, PTL DEF Spec
-----------------------------------------------------------------------------
(***************************************************************************)
(* The properties.                                                         *)
(***************************************************************************)
\* The variables keep their types; spin stays within its bound.
THEOREM TypeCorrect == Spec => []TypeOK
BY Invariance, PTL DEF IInv

\* ST is never set without FRE, whatever the firmware left.
THEOREM ReceiverIsFirst == Spec => []ReceiverFirst
BY Invariance, PTL DEF IInv

\* A port's memory is only set while both of its engines stand still.
THEOREM MemoryMovedAtRest == Spec => MovedWhenStopped
<1>1. IInv /\ [Next]_vars
        => [\A p \in Ports : memory'[p] # memory[p] => command[p] \cap {"CR", "FR"} = {}]_vars
  <2> SUFFICES ASSUME IInv, Next, NEW p \in Ports, memory'[p] # memory[p]
               PROVE  command[p] \cap {"CR", "FR"} = {}
    OBVIOUS
  <2>1. allocate
    BY SMT DEF Next, ahci_init, next_port, ahci_initialized, clear_bit, wait_receiver, wait_engine,
       start_wait, set_bit, ahci_read_or_write, begin_call, spin_on, give_up, clear_interrupts,
       fill_header, blank_table, fill_table, fill, issue, return, Controller, Engines, Follow,
       Fetch, Complete, setup
  <2>2. p = port /\ pc = "memory"
    BY <2>1, SMT DEF allocate, Goto, IInv, TypeOK
  <2>3. "CR" \notin command[port] /\ "FR" \notin command[port]
    BY <2>2, SMT DEF IInv, BitsInOrder
  <2> QED BY <2>2, <2>3
<1> QED BY <1>1, Invariance, PTL DEF Spec, MovedWhenStopped

\* The structures of all ports lie apart.
THEOREM StructuresApart == Spec => []MemoryApart
<1>1. IInv => MemoryApart
  <2> SUFFICES ASSUME IInv
               PROVE  MemoryApart
    OBVIOUS
  <2>1. \A p \in configured : memory[p] \in Nat /\ Aligned(memory[p])
    BY SMT DEF IInv, PagesInOrder, Aligned
  <2>2. ASSUME NEW p \in configured, NEW q \in configured, p # q
        PROVE  Blocks(memory[p]) \cap Blocks(memory[q]) = {}
    <3>1. memory[p] + 544 <= memory[q] \/ memory[q] + 544 <= memory[p]
      BY <2>2 DEF IInv, PagesInOrder
    <3> QED BY <2>1, <3>1, BlocksApart
  <2>3. \A p \in configured : p \in Nat  BY AhciAssumption DEF configured
  <2>4. ASSUME NEW p \in configured, NEW q \in configured, p < q
        PROVE  p # q
    BY <2>3, <2>4
  <2> QED BY <2>1, <2>2, <2>4, PortApart DEF MemoryApart
<1> QED BY <1>1, Invariance, PTL

\* The bytes of a count, and of a sector below 2^24.
LEMMA CountBytes ==
  ASSUME NEW n \in Nat, 1 <= n, n <= 8192
  PROVE  /\ byte(n, 0) + 256 * byte(n, 1) = n
         /\ ((n * 512 - 1) % 2 ^ 22) + 1 = 512 * n
<1>1. 256 ^ 0 = 1 /\ 256 ^ 1 = 256 /\ 2 ^ 22 = 4194304  BY SMT
<1>2. byte(n, 0) = n % 256 /\ byte(n, 1) = (n \div 256) % 256  BY <1>1, SMT DEF byte
<1>3. (n % 256) + 256 * ((n \div 256) % 256) = n  BY SMT
<1>4. ((n * 512 - 1) % 4194304) + 1 = 512 * n  BY SMT
<1> QED BY <1>1, <1>2, <1>3, <1>4

LEMMA HighBytes ==
  /\ \A n \in Nat : n < 2 ^ 24 => byte(n, 3) = 0
  /\ byte(0, 0) = 0 /\ byte(0, 1) = 0 /\ byte(0, 2) = 0
<1>1. 256 ^ 0 = 1 /\ 256 ^ 1 = 256 /\ 256 ^ 2 = 65536 /\ 256 ^ 3 = 16777216 /\ 2 ^ 24 = 16777216
  BY SMT
<1>2. ASSUME NEW n \in Nat, n < 16777216
      PROVE  byte(n, 3) = 0
  BY <1>1, <1>2, SMT DEF byte
<1>3. byte(0, 0) = 0 /\ byte(0, 1) = 0 /\ byte(0, 2) = 0  BY <1>1, SMT DEF byte
<1> QED BY <1>1, <1>2, <1>3

LEMMA SmallRequest ==
  ASSUME NEW r \in Requests, r.low < 2 ^ 24, r.high = 0, r.count >= 1, r.count <= 8192
  PROVE  Asks(command_for(r), r)
<1>1. r.low \in Nat /\ r.count \in Nat /\ 1 <= r.count /\ r.count <= 8192  BY AhciAssumption, SMT
<1>2. byte(r.low, 3) = 0 /\ byte(r.high, 0) = 0 /\ byte(r.high, 1) = 0 /\ byte(r.high, 2) = 0
  BY <1>1, HighBytes
<1>3. /\ byte(r.count, 0) + 256 * byte(r.count, 1) = r.count
      /\ ((r.count * 512 - 1) % 2 ^ 22) + 1 = 512 * r.count
  BY <1>1, CountBytes
<1> DEFINE c == command_for(r)
<1>4. c.lba = lba_of(r)  BY <1>2 DEF command_for, lba_of
<1>5. c.count[1] = byte(r.count, 0) /\ c.count[2] = byte(r.count, 1)  BY DEF command_for
<1>6. c.bytes = (r.count * 512 - 1) % 2 ^ 22 /\ c.write = r.write  BY DEF command_for
<1>10. c.prdt_length = 1 /\ c.cmd = IF r.write THEN "WRITE_DMA_EX" ELSE "READ_DMA_EX"
  BY DEF command_for
<1> HIDE DEF c
<1>7. c.count[1] + 256 * c.count[2] = r.count  BY <1>3, <1>5
<1>8. c.bytes + 1 = 512 * r.count  BY <1>3, <1>6
<1>9. Asks(c, r)  BY <1>4, <1>6, <1>7, <1>8, <1>10 DEF Asks
<1> QED BY <1>9 DEF c

\* On a port whose last command is done the device is sent what the caller asked.
THEOREM CommandsAreAsRequested == Spec => []CommandAsRequested
<1>1. IInv => CommandAsRequested
  <2> SUFFICES ASSUME IInv, sent # None, clean, request.low < 2 ^ 24, request.high = 0,
                      request.count >= 1, request.count <= 8192
               PROVE  Asks(sent, request)
    BY DEF CommandAsRequested
  <2>1. sent = command_for(request)  BY DEF IInv, CallSoFar
  <2>2. request \in Requests  BY DEF IInv, TypeOK
  <2>3. Asks(command_for(request), request)  BY <2>2, SmallRequest
  <2> QED BY <2>1, <2>3
<1> QED BY <1>1, Invariance, PTL

\* A call reports no error but its own.
THEOREM ErrorsAreTheirOwn == Spec => ErrorIsItsOwn
<1>1. IInv /\ [Next]_vars => [return /\ clean /\ result' = 0 => failed[port]]_vars
  <2> SUFFICES ASSUME IInv, return, clean, result' = 0
               PROVE  failed[port]
    OBVIOUS
  <2>1. pc = "check" /\ tfes[port]  BY DEF return, Goto
  <2> QED BY <2>1, SMT DEF IInv, CallSoFar
<1> QED BY <1>1, Invariance, PTL DEF Spec, ErrorIsItsOwn
-----------------------------------------------------------------------------
(***************************************************************************)
(* The set-up comes nearer to its end: what DrivesComeUp follows from with *)
(* the fairness of the driver and the controller's engines.                *)
(***************************************************************************)
\* The ports behind the driver are up; this one has its memory before it is started.
DrivesSoFar ==
  pc \in Setup =>
    /\ \A p \in ports : p < port \/ (p = port /\ pc = "next") =>
                          "ST" \in command[p] /\ memory[p] # NotSet
    /\ pc \in {"start_wait", "start_fis", "start"} => memory[port] # NotSet

\* The next port is the lowest of those that remain.
LEMMA NextPort ==
  ASSUME TypeOK, next_port
  PROVE  /\ port' \in remaining /\ \A q \in remaining : port' <= q
         /\ remaining' = remaining \ {port'} /\ ports' = ports /\ ports \subseteq Nat
<1>0. Ports \subseteq Nat /\ port \in Int
  <2>1. Ports \subseteq Nat  BY AhciAssumption
  <2> QED BY <2>1 DEF TypeOK
<1>1. remaining \in SUBSET Nat /\ remaining # {} /\ ports \subseteq Nat
  BY <1>0 DEF next_port, remaining, ports
<1>2. \E p \in remaining : \A q \in remaining : p <= q  BY <1>1, LeastPort
<1>3. port' = CHOOSE p \in remaining : \A q \in remaining : p <= q  BY DEF next_port
<1>4. port' \in remaining /\ \A q \in remaining : port' <= q  BY <1>2, <1>3, Zenon
<1>5. ports' = ports  BY DEF next_port, others_unchanged, ports
<1>6. remaining' = {p \in ports : port' < p}  BY <1>5 DEF remaining
<1>7. port < port'  BY <1>4 DEF remaining
<1>8. ASSUME NEW p \in ports PROVE port' < p <=> p \in remaining /\ p # port'
  <2>1. p \in Nat /\ port' \in Nat  BY <1>1, <1>4
  <2>2. CASE p \in remaining
    <3>1. port' <= p  BY <1>4, <2>2
    <3> QED BY <2>1, <2>2, <3>1, SMT
  <2>3. CASE p \notin remaining
    <3> SUFFICES ASSUME port' < p PROVE FALSE  BY <2>3
    <3>1. ~(port < p)  BY <2>3 DEF remaining
    <3> QED BY <1>0, <1>7, <2>1, <3>1, SMT
  <2> QED BY <2>2, <2>3
<1>9. remaining' = remaining \ {port'}
  <2>1. remaining \subseteq ports  BY DEF remaining
  <2> QED BY <1>6, <1>8, <2>1, Zenon
<1> QED BY <1>1, <1>4, <1>5, <1>9

LEMMA SetUpSoFar == IInv /\ DrivesSoFar /\ [Next]_vars => DrivesSoFar'
<1> SUFFICES ASSUME IInv, DrivesSoFar, [Next]_vars PROVE DrivesSoFar'  OBVIOUS
<1> USE DEF IInv
<1>0. Ports \subseteq Nat /\ port \in Int /\ (pc \in Setup \ {"next"} => port \in Ports)
  <2>1. Ports \subseteq Nat  BY AhciAssumption
  <2> QED BY <2>1 DEF TypeOK, PcOK, Setup, Stopping
<1>1. CASE next_port
  <2>1. /\ pc = "next" /\ pc' = "stop" /\ UNCHANGED <<command, memory>>
    BY <1>1 DEF next_port, Goto
  <2>2. ASSUME NEW p \in ports, p < port' PROVE p \notin remaining /\ p <= port
    <3>1. p \in Nat /\ port' \in Nat  BY <1>0, <1>1, NextPort DEF ports, remaining
    <3>2. p \notin remaining
      <4> SUFFICES ASSUME p \in remaining PROVE FALSE  OBVIOUS
      <4>1. port' <= p  BY <1>1, NextPort
      <4> QED BY <2>2, <3>1, <4>1, SMT
    <3>3. ~(port < p)  BY <3>2 DEF remaining
    <3> QED BY <1>0, <3>1, <3>2, <3>3, SMT
  <2>3. ASSUME NEW p \in ports, p < port' PROVE "ST" \in command[p] /\ memory[p] # NotSet
    <3>1. p < port \/ p = port  BY <1>0, <2>2, <2>3, SMT DEF ports
    <3> QED BY <2>1, <3>1 DEF DrivesSoFar, Setup
  <2>4. ports' = ports  BY <1>1, NextPort
  <2> QED BY <2>1, <2>3, <2>4, Zenon DEF DrivesSoFar
<1>2. CASE ahci_initialized \/ ahci_read_or_write
  <2>1. pc' \notin Setup
    BY <1>2, SMT DEF ahci_initialized, ahci_read_or_write, begin_call, spin_on, give_up,
       clear_interrupts, fill_header, blank_table, fill_table, fill, issue, return, Goto, Setup,
       Stopping
  <2> QED BY <2>1 DEF DrivesSoFar
<1>3. ASSUME UNCHANGED <<link, port, memory>>, pc \in Setup \ {"next"}, pc' \in Setup \ {"next"},
             pc' \in {"start_wait", "start_fis", "start"} =>
               pc \in {"start_wait", "start_fis", "start"},
             \A p \in Ports : p # port => command'[p] = command[p]
      PROVE  DrivesSoFar'
  <2>1. ports' = ports  BY <1>3 DEF ports
  <2>2. \A p \in ports : p < port => p # port /\ p \in Ports  BY <1>0, SMT DEF ports
  <2> QED BY <1>3, <2>1, <2>2 DEF DrivesSoFar
<1>4. CASE clear_bit("stop", "stop_fis") \/ clear_bit("stop_fis", "stop_wait")
           \/ wait_receiver \/ wait_engine \/ start_wait \/ set_bit("start_fis", "start")
  <2>1. UNCHANGED <<link, port, memory>> /\ \A p \in Ports : p # port => command'[p] = command[p]
    BY <1>4, SMT DEF clear_bit, wait_receiver, wait_engine, start_wait, set_bit, others_unchanged,
       TypeOK
  <2>2. /\ pc \in Setup \ {"next"} /\ pc' \in Setup \ {"next"}
        /\ pc' \in {"start_wait", "start_fis", "start"} =>
             pc \in {"start_wait", "start_fis", "start"}
    BY <1>4, SMT DEF clear_bit, wait_receiver, wait_engine, start_wait, set_bit, Goto, Setup,
       Stopping
  <2> QED BY <1>3, <2>1, <2>2
<1>5. CASE allocate
  <2>1. /\ pc = "memory" /\ pc' = "start_wait" /\ port \in Ports
        /\ UNCHANGED <<link, port, command>>
        /\ memory' = [memory EXCEPT ![port] = page_of(placement_adr)]
    BY <1>0, <1>5 DEF allocate, Goto, others_unchanged, Setup, Stopping
  <2>2. page_of(placement_adr) \in Nat  BY PageOf DEF TypeOK, Aligned
  <2>3. memory'[port] # NotSet /\ \A p \in Ports : p # port => memory'[p] = memory[p]
    BY <2>1, <2>2 DEF TypeOK, NotSet
  <2>4. ports' = ports /\ \A p \in ports : p < port => p # port /\ p \in Ports
    BY <1>0, <2>1, SMT DEF ports
  <2> QED BY <2>1, <2>3, <2>4 DEF DrivesSoFar, Setup, Stopping
<1>6. CASE set_bit("start", "next")
  <2>1. /\ pc = "start" /\ pc' = "next" /\ port \in Ports /\ UNCHANGED <<link, port, memory>>
        /\ command' = [command EXCEPT ![port] = @ \cup {"ST"}]
    BY <1>0, <1>6 DEF set_bit, start_bit, Goto, others_unchanged, Setup, Stopping
  <2>2. "ST" \in command'[port] /\ \A p \in Ports : p # port => command'[p] = command[p]
    BY <2>1 DEF TypeOK
  <2>3. ports' = ports /\ \A p \in ports : p < port => p # port /\ p \in Ports
    BY <1>0, <2>1, SMT DEF ports
  <2> QED BY <2>1, <2>2, <2>3 DEF DrivesSoFar, Setup, Stopping
<1>7. CASE Controller
  <2>1. UNCHANGED <<link, port, memory,
  pc>> /\ \A p \in Ports : "ST" \in command[p] => "ST" \in command'[p]
    BY <1>7, SMT DEF Controller, Engines, Follow, Fetch, Complete, setup, TypeOK
  <2>2. ports' = ports /\ ports \subseteq Ports  BY <2>1 DEF ports
  <2> QED BY <2>1, <2>2 DEF DrivesSoFar
<1>8. CASE UNCHANGED vars
  BY <1>8 DEF vars, registers, setup, DrivesSoFar, ports
<1> QED BY <1>1, <1>2, <1>4, <1>5, <1>6, <1>7, <1>8 DEF Next, ahci_init

\* How many ports remain, and that next_port takes one of them.
LEMMA Remaining ==
  ASSUME IInv
  PROVE  /\ Cardinality(remaining) \in Nat
         /\ next_port => Cardinality(remaining') = Cardinality(remaining) - 1
<1>1. IsFiniteSet(remaining)
  <2>1. 0 \in Int /\ 31 \in Int  OBVIOUS
  <2>2. IsFiniteSet(0 .. 31)  BY <2>1, FS_Interval
  <2>3. remaining \subseteq 0 .. 31  BY AhciAssumption DEF remaining, ports
  <2> QED BY <2>2, <2>3, FS_Subset
<1>2. Cardinality(remaining) \in Nat  BY <1>1, FS_CardinalityType
<1>3. ASSUME next_port PROVE Cardinality(remaining') = Cardinality(remaining) - 1
  <2>1. port' \in remaining /\ remaining' = remaining \ {port'}  BY <1>3, NextPort DEF IInv
  <2> QED BY <1>1, <2>1, FS_RemoveElement
<1> QED BY <1>2, <1>3

\* Every statement of ahci_init but those of the waiting loop brings it nearer.
LEMMA SetUpStatementNears ==
  ASSUME IInv, ahci_init
  PROVE  distance' < distance \/ (distance' = distance /\ waiting /\ waiting')
<1> DEFINE n == Cardinality(remaining)
<1> USE DEF Goto
<1>0. n \in Nat  BY Remaining
<1>b. /\ ~waiting => running("CR") = 0 /\ running("FR") = 0
      /\ ~waiting' => running("CR")' = 0 /\ running("FR")' = 0
      /\ running("CR") \in {0, 1} /\ running("FR") \in {0, 1}
      /\ running("CR")' \in {0, 1} /\ running("FR")' \in {0, 1}
  BY DEF running
<1>c. ASSUME NEW s \in DOMAIN stage, NEW t \in DOMAIN stage, pc = s, pc' = t
      PROVE  /\ distance = 10 * n + stage[s] + running("CR") + running("FR")
             /\ distance' = 10 * n' + stage[t] + running("CR")' + running("FR")'
             /\ waiting <=> s \in {"stop_wait", "stop_cr"}
             /\ waiting' <=> t \in {"stop_wait", "stop_cr"}
  BY <1>c DEF distance, waiting
<1>d. ~next_port => n' = n
  <2>1. ~next_port => UNCHANGED <<link, port>>
    BY DEF ahci_init, ahci_initialized, clear_bit, wait_receiver, wait_engine, allocate, start_wait,
       set_bit, others_unchanged
  <2> QED BY <2>1 DEF remaining, ports
<1> HIDE DEF n
<1>1. CASE next_port
  <2>1. pc = "next" /\ pc' = "stop"  BY <1>1 DEF next_port
  <2>2. n' = n - 1  BY <1>1, Remaining DEF n
  <2> QED BY <1>0, <1>b, <1>c, <2>1, <2>2, SMT DEF stage
<1>2. ASSUME ~next_port, ~(waiting /\ waiting'), NEW s \in DOMAIN stage, NEW t \in DOMAIN stage,
             pc = s, pc' = t, stage[t] + (IF t = "stop_wait" THEN 2 ELSE 0) < stage[s],
             waiting => ~waiting'
      PROVE  distance' < distance
  <2>1. /\ distance = 10 * n + stage[s] + running("CR") + running("FR")
        /\ distance' = 10 * n + stage[t] + running("CR")' + running("FR")'
    BY <1>2, <1>c, <1>d
  <2> QED BY <1>0, <1>2, <1>b, <2>1, SMT DEF stage, waiting
<1>3. CASE ahci_initialized
  <2>1. pc = "next" /\ pc' = "idle" /\ ~next_port  BY <1>3 DEF ahci_initialized, next_port
  <2> QED BY <1>2, <2>1, SMT DEF stage, waiting
<1>4. CASE clear_bit("stop", "stop_fis")
  <2>1. pc = "stop" /\ pc' = "stop_fis" /\ ~next_port  BY <1>4 DEF clear_bit, next_port
  <2> QED BY <1>2, <2>1, SMT DEF stage, waiting
<1>5. CASE clear_bit("stop_fis", "stop_wait")
  <2>1. pc = "stop_fis" /\ pc' = "stop_wait" /\ ~next_port  BY <1>5 DEF clear_bit, next_port
  <2> QED BY <1>2, <2>1, SMT DEF stage, waiting
<1>6. CASE wait_receiver \/ (wait_engine /\ has("CR"))
  <2>1. /\ pc \in {"stop_wait", "stop_cr"} /\ pc' \in {"stop_wait", "stop_cr"}
        /\ UNCHANGED <<command, port>> /\ ~next_port
    BY <1>6 DEF wait_receiver, wait_engine, next_port
  <2>2. running("CR")' = running("CR") /\ running("FR")' = running("FR")
    BY <2>1 DEF running, waiting, has
  <2> QED BY <1>0, <1>c, <1>d, <2>1, <2>2, SMT DEF stage
<1>7. CASE wait_engine /\ ~has("CR")
  <2>1. pc = "stop_cr" /\ pc' = "memory" /\ ~next_port  BY <1>7 DEF wait_engine, next_port
  <2> QED BY <1>2, <2>1, SMT DEF stage, waiting
<1>8. CASE allocate
  <2>1. pc = "memory" /\ pc' = "start_wait" /\ ~next_port  BY <1>8 DEF allocate, next_port
  <2> QED BY <1>2, <2>1, SMT DEF stage, waiting
<1>9. CASE start_wait
  <2>1. pc = "start_wait" /\ pc' = "start_fis" /\ ~next_port  BY <1>9 DEF start_wait, next_port
  <2> QED BY <1>2, <2>1, SMT DEF stage, waiting
<1>10. CASE set_bit("start_fis", "start")
  <2>1. pc = "start_fis" /\ pc' = "start" /\ ~next_port  BY <1>10 DEF set_bit, next_port
  <2> QED BY <1>2, <2>1, SMT DEF stage, waiting
<1>11. CASE set_bit("start", "next")
  <2>1. pc = "start" /\ pc' = "next" /\ ~next_port  BY <1>11 DEF set_bit, next_port
  <2> QED BY <1>2, <2>1, SMT DEF stage, waiting
<1>12. wait_engine => has("CR") \/ ~has("CR")  OBVIOUS
<1> QED
  BY <1>1, <1>3, <1>4, <1>5, <1>6, <1>7, <1>8, <1>9, <1>10, <1>11, <1>12 DEF ahci_init

\* Before and after a statement the distance is a number.
LEMMA DistanceIsNumber ==
  ASSUME IInv, ahci_init
  PROVE  distance \in Int /\ distance' \in Int
<1>1. PICK s \in DOMAIN stage, t \in DOMAIN stage : pc = s /\ pc' = t
  <2>1. pc \in DOMAIN stage /\ pc' \in DOMAIN stage
    BY SMT DEF ahci_init, next_port, ahci_initialized, clear_bit, wait_receiver, wait_engine,
       allocate,
       start_wait, set_bit, Goto, stage
  <2> QED BY <2>1
<1>2. stage[s] \in Int /\ stage[t] \in Int  BY SMT DEF stage
<1>3. /\ running("CR") \in {0, 1} /\ running("FR") \in {0, 1}
      /\ running("CR")' \in {0, 1} /\ running("FR")' \in {0, 1}
  BY DEF running
<1>4. Cardinality(remaining) \in Int /\ Cardinality(remaining') \in Int
  <2>1. CASE next_port  BY <2>1, Remaining
  <2>2. CASE ~next_port
    <3>1. UNCHANGED <<link, port>>
      BY <2>2 DEF ahci_init, ahci_initialized, clear_bit, wait_receiver, wait_engine, allocate,
         start_wait, set_bit, others_unchanged
    <3>2. remaining' = remaining  BY <3>1 DEF remaining, ports
    <3> QED BY <3>2, Remaining
  <2> QED BY <2>1, <2>2
<1>5. /\ distance = 10 * Cardinality(remaining) + stage[s] + running("CR") + running("FR")
      /\ distance' = 10 * Cardinality(remaining') + stage[t] + running("CR")' + running("FR")'
  BY <1>1 DEF distance
<1> QED BY <1>2, <1>3, <1>4, <1>5, SMT

\* An engine the driver waits for has been told to stop, so it only ever stops.
LEMMA ControllerNears ==
  ASSUME IInv, Controller, setting_up
  PROVE  pc' = pc /\ distance' <= distance
<1>1. UNCHANGED <<link, port, pc>>
  BY DEF Controller, Engines, Follow, Fetch, Complete, setup
<1>2. remaining' = remaining /\ Cardinality(remaining) \in Nat  BY <1>1, Remaining DEF remaining,
ports
<1>3. ASSUME NEW bit \in {"CR", "FR"}, waiting, has(bit)' PROVE has(bit)
  <2>1. "ST" \notin command[port] /\ "FRE" \notin command[port] /\ port \in Ports
        /\ command \in [Ports -> SUBSET {"ST", "FRE", "CR", "FR"}]
    BY <1>3, SMT DEF waiting, IInv, BitsInOrder, Stopping, PcOK, TypeOK
  <2> QED BY <1>1, <1>3, <2>1, SMT DEF Controller, Engines, Follow, Fetch, Complete, has
<1>4. /\ running("CR")' <= running("CR") /\ running("FR")' <= running("FR")
      /\ running("CR") \in {0, 1} /\ running("FR") \in {0, 1}
      /\ running("CR")' \in {0, 1} /\ running("FR")' \in {0, 1}
  BY <1>1, <1>3 DEF running, waiting
<1>5. stage[pc] \in Int  BY SMT DEF setting_up, stage
<1> QED BY <1>1, <1>2, <1>4, <1>5, SMT DEF distance

\* Whatever the firmware left, no step takes ahci_init further from its end, only the
\* waiting loop does not bring it nearer, and at the end every drive is up.
THEOREM SetUpComesNearer == Spec => SetUpNears
<1> DEFINE Up == \A p \in ports : "ST" \in command'[p] /\ memory'[p] # NotSet
           Nears == setting_up => /\ distance' <= distance
                                  /\ pc' # pc => distance' < distance \/ (waiting /\ waiting')
                                  /\ pc' = "idle" => Up
<1>1. Init => DrivesSoFar
  <2> SUFFICES ASSUME Init PROVE DrivesSoFar  OBVIOUS
  <2>1. \A p \in Ports : p \in Nat  BY AhciAssumption
  <2>2. \A p \in ports : ~(p < port) /\ p # port  BY <2>1, SMT DEF Init, ports
  <2> QED BY <2>2 DEF DrivesSoFar, Init
<1>2. IInv /\ DrivesSoFar /\ [Next]_vars => [Nears]_vars
  <2> SUFFICES ASSUME IInv, DrivesSoFar, Next, setting_up PROVE Nears  BY DEF vars
  <2>1. CASE ahci_init
    <3>1. distance' < distance \/ (distance' = distance /\ waiting /\ waiting')
      BY <2>1, SetUpStatementNears
    <3>3. distance' <= distance  BY <2>1, <3>1, DistanceIsNumber, SMT
    <3>2. ASSUME pc' = "idle" PROVE Up
      <4>1. ahci_initialized /\ pc = "next" /\ remaining = {} /\ UNCHANGED <<command, memory>>
        BY <2>1, <3>2 DEF ahci_init, ahci_initialized, next_port, clear_bit, wait_receiver,
           wait_engine, allocate, start_wait, set_bit, Goto, others_unchanged
      <4>2. ASSUME NEW p \in ports PROVE p < port \/ p = port
        <5>1. ~(port < p)  BY <4>1 DEF remaining
        <5>2. p \in Nat /\ port \in Int
          <6>1. Ports \subseteq Nat  BY AhciAssumption
          <6> QED BY <6>1 DEF ports, IInv, TypeOK
        <5> QED BY <5>1, <5>2, SMT
      <4> QED BY <4>1, <4>2 DEF DrivesSoFar, Setup
    <3> QED BY <3>1, <3>2, <3>3
  <2>2. CASE Controller
    <3>1. pc' = pc /\ distance' <= distance  BY <2>2, ControllerNears
    <3>2. pc' # "idle"  BY <3>1 DEF setting_up
    <3> QED BY <3>1, <3>2
  <2>3. CASE ahci_read_or_write
    <3>1. pc \in Calling \cup {"idle"}
      BY <2>3 DEF ahci_read_or_write, begin_call, spin_on, give_up, clear_interrupts, fill_header,
         blank_table, fill_table, fill, issue, return, Goto, Calling, Filling
    <3> QED BY <3>1 DEF setting_up, stage, Calling, Filling
  <2> QED BY <2>1, <2>2, <2>3 DEF Next
<1> QED BY <1>1, <1>2, SetUpSoFar, Invariance, PTL DEF Spec, SetUpNears
=============================================================================
