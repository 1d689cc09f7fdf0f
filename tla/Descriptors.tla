---------------------------- MODULE Descriptors -----------------------------
(***************************************************************************)
(* The tables the CPU reads: segments (gdt.c), interrupt gates (idt.c,     *)
(* with the stubs of interrupts.asm they enter) and pages (paging.c).      *)
(* Each is packed by the kernel and unpacked by the CPU: the kernel's side *)
(* is translated from the code, the CPU's side is what the code relies on. *)
(* A mask and a shift are a remainder and a quotient.                      *)
(***************************************************************************)
EXTENDS Integers, Sequences, TLAPS

Byte == {n \in Nat : n < 256}
Word == {n \in Nat : n < 65536}
Long == {n \in Nat : n < 4294967296}
-----------------------------------------------------------------------------
(***************************************************************************)
(* Segments.                                                               *)
(***************************************************************************)
gdt_set_gate(base, limit, access, gran) ==
  [base_low |-> base % 65536, base_middle |-> (base \div 65536) % 256,
   base_high |-> (base \div 16777216) % 256,
   limit_low |-> limit % 65536,
   granularity |-> ((limit \div 65536) % 16) + (gran - (gran % 16)),
   access |-> access]

\* The null segment, code and data of the kernel, code and data of user mode.
gdt_entries ==
  [num \in 0 .. 4 |->
     IF num = 0 THEN gdt_set_gate(0, 0, 0, 0)
     ELSE gdt_set_gate(0, 4294967295, <<154, 146, 250, 242>>[num], 207)]

segment_base(e) == e.base_low + e.base_middle * 65536 + e.base_high * 16777216
segment_limit(e) == e.limit_low + (e.granularity % 16) * 65536
paged(e) == e.granularity >= 128
last_byte(e) ==
  segment_base(e) + (IF paged(e) THEN segment_limit(e) * 4096 + 4095 ELSE segment_limit(e))
privilege(e) == (e.access \div 32) % 4

\* Of what gdt_set_gate is given, the CPU finds the whole base and the access byte,
\* but only the low 20 bits of the limit and the high four of the granularity.
THEOREM SegmentUnpacks ==
  ASSUME NEW base \in Long, NEW limit \in Long, NEW access \in Byte, NEW gran \in Byte
  PROVE  LET e == gdt_set_gate(base, limit, access, gran) IN
         /\ segment_base(e) = base /\ segment_limit(e) = limit % 1048576
         /\ e.access = access /\ (paged(e) <=> (gran >= 128))
<1> DEFINE e == gdt_set_gate(base, limit, access, gran)
<1>1. segment_base(e) = base  BY SMT DEF segment_base, gdt_set_gate, Long
<1>2. e.granularity % 16 = (limit \div 65536) % 16
  <2>1. (gran - (gran % 16)) % 16 = 0 /\ gran - (gran % 16) \in Nat  BY SMT DEF Byte
  <2>2. (limit \div 65536) % 16 \in 0 .. 15  BY SMT DEF Long
  <2> QED BY <2>1, <2>2, SMT DEF gdt_set_gate
<1>3. segment_limit(e) = limit % 1048576
  <2>1. e.limit_low = limit % 65536  BY SMT DEF gdt_set_gate
  <2>2. (limit % 65536) + ((limit \div 65536) % 16) * 65536 = limit % 1048576  BY SMT DEF Long
  <2> QED BY <1>2, <2>1, <2>2, SMT DEF segment_limit
<1>4. paged(e) <=> (gran >= 128)
  <2>1. (limit \div 65536) % 16 \in 0 .. 15  BY SMT DEF Long
  <2>2. (gran - (gran % 16) >= 128) <=> (gran >= 128)  BY SMT DEF Byte
  <2>3. (gran - (gran % 16) < 128) => (gran - (gran % 16) <= 112)  BY SMT DEF Byte
  <2>4. gran - (gran % 16) \in Nat  BY SMT DEF Byte
  <2> QED BY <2>1, <2>2, <2>3, <2>4, SMT DEF paged, gdt_set_gate
<1>5. e.access = access  BY SMT DEF gdt_set_gate
<1> QED BY <1>1, <1>3, <1>4, <1>5, SMT

\* gdt_init lays every segment over all of memory, and those of user mode at the
\* lowest privilege: an address means the same in all of them.
THEOREM SegmentsAreFlat ==
  ASSUME NEW num \in 1 .. 4
  PROVE  /\ segment_base(gdt_entries[num]) = 0 /\ last_byte(gdt_entries[num]) = 4294967295
         /\ privilege(gdt_entries[num]) = IF num <= 2 THEN 0 ELSE 3
<1> DEFINE a == <<154, 146, 250, 242>>[num]
           e == gdt_set_gate(0, 4294967295, a, 207)
<1>1. a \in Byte /\ 0 \in Long /\ 4294967295 \in Long /\ 207 \in Byte
  <2>1. num = 1 \/ num = 2 \/ num = 3 \/ num = 4  BY SMT
  <2> QED BY <2>1, SMT DEF Byte, Long
<1>2. gdt_entries[num] = e  BY SMT DEF gdt_entries
<1>3. segment_base(e) = 0 /\ segment_limit(e) = 4294967295 % 1048576 /\ e.access = a /\ paged(e)
  <2> HIDE DEF a
  <2> QED BY <1>1, SegmentUnpacks, SMT
<1>4. (a \div 32) % 4 = IF num <= 2 THEN 0 ELSE 3
  <2>1. num = 1 \/ num = 2 \/ num = 3 \/ num = 4  BY SMT
  <2> QED BY <2>1, SMT
<1> QED BY <1>2, <1>3, <1>4, SMT DEF last_byte, privilege
-----------------------------------------------------------------------------
(***************************************************************************)
(* Interrupt gates.                                                        *)
(***************************************************************************)
idt_set_gate(base, sel, flags) ==
  [base_low |-> base % 65536, base_high |-> (base \div 65536) % 65536,
   selector |-> sel, always0 |-> 0, flags |-> flags]

gate_base(g) == g.base_low + g.base_high * 65536

\* The gate of a vector enters the stub at the address idt_set_gate was given.
THEOREM GateUnpacks ==
  ASSUME NEW base \in Long, NEW sel \in Word, NEW flags \in Byte
  PROVE  gate_base(idt_set_gate(base, sel, flags)) = base
  BY SMT DEF gate_base, idt_set_gate, Long

\* What idt_init enters: the stubs of the exceptions, and those of the IRQ lines.
stub(vector) == IF vector < 32 THEN <<"isr", vector>> ELSE <<"irq", vector - 32>>
Vectors == 0 .. 47
gates == [vector \in Vectors |-> stub(vector)]

\* The vectors pic_remap gives to the lines of the master and of the slave.
master_base == 32
slave_base == 40
vector_of(line) == IF line < 8 THEN master_base + line ELSE slave_base + (line - 8)

\* Every line enters its own stub, and none that of an exception; the vectors from 40
\* on, for which irq_handler acknowledges the slave, are those of the slave's lines.
THEOREM LinesReachTheirStubs ==
  ASSUME NEW line \in 0 .. 15
  PROVE  /\ vector_of(line) \in Vectors
         /\ gates[vector_of(line)] = <<"irq", line>>
         /\ (vector_of(line) >= 40) <=> (line >= 8)
  BY SMT DEF vector_of, master_base, slave_base, gates, stub, Vectors

\* The words the CPU pushes above the return address: an error code, for some
\* exceptions. And those the stubs push after them, the last one first: a word in
\* place of the error code where there is none, or the line; and the vector.
with_error_code == {8, 10, 11, 12, 13, 14, 17, 21}
error_code(vector) == IF vector \in with_error_code THEN <<"error">> ELSE <<>>
isr_pushes(vector) ==
  IF vector = 8 \/ vector \in 10 .. 14 \/ vector \in {17, 21} THEN <<vector>> ELSE <<vector, 0>>
irq_pushes(line) == <<32 + line, line>>
pushes(s) == IF s[1] = "isr" THEN isr_pushes(s[2]) ELSE irq_pushes(s[2])

\* registers_t below ds and the eight registers: int_no and err_code, then eip.
above_eip(vector) == pushes(gates[vector]) \o error_code(vector)

\* Whatever enters the kernel, the handler finds the vector in int_no, the CPU's error
\* code in err_code if there is one, and the return drops exactly these two words.
THEOREM HandlerFindsItsVector ==
  ASSUME NEW vector \in Vectors
  PROVE  /\ Len(above_eip(vector)) = 2
         /\ above_eip(vector)[1] = vector
         /\ vector \in with_error_code => above_eip(vector)[2] = "error"
<1>1. gates[vector] = stub(vector)  BY SMT DEF gates
<1>2. CASE vector >= 32
  <2>1. pushes(gates[vector]) = <<vector, vector - 32>>
    BY <1>1, <1>2, SMT DEF pushes, stub, irq_pushes, Vectors
  <2>2. error_code(vector) = <<>> /\ vector \notin with_error_code
    BY <1>2, SMT DEF error_code, with_error_code
  <2> QED BY <2>1, <2>2, SMT DEF above_eip
<1>3. CASE vector \in with_error_code
  <2>1. pushes(gates[vector]) = <<vector>>
    BY <1>1, <1>3, SMT DEF pushes, stub, isr_pushes, with_error_code
  <2>2. error_code(vector) = <<"error">>  BY <1>3, SMT DEF error_code
  <2> QED BY <1>3, <2>1, <2>2, SMT DEF above_eip
<1>4. CASE vector < 32 /\ vector \notin with_error_code
  <2>1. pushes(gates[vector]) = <<vector, 0>>
    BY <1>1, <1>4, SMT DEF pushes, stub, isr_pushes, with_error_code, Vectors
  <2>2. error_code(vector) = <<>>  BY <1>4, SMT DEF error_code
  <2> QED BY <1>4, <2>1, <2>2, SMT DEF above_eip
<1> QED BY <1>2, <1>3, <1>4, SMT DEF Vectors
-----------------------------------------------------------------------------
(***************************************************************************)
(* Pages.                                                                  *)
(***************************************************************************)
\* Entry i of the one page table, and the directory, whose first entry names it.
Entries == {n \in Nat : n < 1024}
pages == [i \in Entries |-> [address |-> (i * 4096) \div 4096, present |-> 1]]
tables == [i \in Entries |-> [present |-> IF i = 0 THEN 1 ELSE 0]]

mapped(address) ==
  /\ tables[address \div 4194304].present = 1
  /\ pages[(address \div 4096) % 1024].present = 1
translated(address) == pages[(address \div 4096) % 1024].address * 4096 + (address % 4096)

\* With paging_init's tables the first 4 MB are where they were, so that the code
\* that enables paging goes on running; nothing else is mapped.
THEOREM FirstTableIsIdentity ==
  ASSUME NEW address \in Long
  PROVE  /\ (mapped(address) <=> (address < 4194304))
         /\ (mapped(address) => (translated(address) = address))
<1>1. address \div 4194304 \in Entries /\ (address \div 4096) % 1024 \in Entries
  BY SMT DEF Long, Entries
<1>2. mapped(address) <=> (address \div 4194304 = 0)  BY <1>1, SMT DEF mapped, tables, pages
<1>3. (address \div 4194304 = 0) <=> (address < 4194304)  BY SMT DEF Long
<1>4. ASSUME address < 4194304
      PROVE  translated(address) = address
  <2> DEFINE i == (address \div 4096) % 1024
  <2>1. i = address \div 4096  BY <1>4, SMT DEF Long
  <2>2. pages[i].address = i
    <3>1. (i * 4096) \div 4096 = i  BY <1>1, SMT DEF Entries
    <3> QED BY <1>1, <3>1, SMT DEF pages
  <2>3. (address \div 4096) * 4096 + (address % 4096) = address  BY SMT DEF Long
  <2> QED BY <2>1, <2>2, <2>3, SMT DEF translated
<1> QED BY <1>2, <1>3, <1>4, SMT
=============================================================================
