----------------------------- MODULE Interrupts -----------------------------
(***************************************************************************)
(* The kernel's interrupt system: the boot steps of kernel_main that set   *)
(* up the PIC, the timer and the keyboard and then wait for a key, and the *)
(* way of an IRQ through the two 8259s, irq_common_stub and irq_handler.   *)
(* Handlers run with interrupts off, so they do not nest, but the devices  *)
(* go on while they run.  The PIC, the keyboard controller and the timer   *)
(* chip are modelled from how the code drives them.                        *)
(***************************************************************************)
EXTENDS Integers

CONSTANT Devices   \* the IRQ lines, other than timer and keyboard, that may fire

Timer == 0
Keyboard == 1
Cascade == 2
Lines == 0 .. 15
Slave == 8 .. 15
None == -1

ASSUME DeviceLines == Devices \subseteq Lines \ {Timer, Keyboard, Cascade}

VARIABLES
  pc,             \* the next step of kernel_main
  iflag, idt,     \* the CPU's interrupt flag; the IDT is loaded
  irr, isr, base, \* the PICs: requested and in-service lines, remapped or not
  irq_handlers,   \* the lines a handler is installed for
  pit_freq,       \* 0 until pit_set_freq
  obf,            \* the keyboard controller holds a byte nobody has read
  bump,
  running, stage  \* the line irq_handler runs for, and what it does next

cpu == <<iflag, idt, running, stage>>
pic == <<irr, isr, base>>
boot == <<pc, idt, irq_handlers, pit_freq>>
vars == <<pc, cpu, pic, irq_handlers, pit_freq, obf, bump>>

Init ==
  /\ pc = "pic_remap" /\ iflag = FALSE /\ idt = FALSE
  /\ irr = {} /\ isr = {} /\ base = FALSE /\ irq_handlers = {} /\ pit_freq = 0
  /\ obf = FALSE /\ bump = FALSE /\ running = None /\ stage = "iret"
-----------------------------------------------------------------------------
(***************************************************************************)
(* kernel_main.  pci_enumerate, between idt_flush and pit_init, takes long *)
(* but changes nothing here.                                               *)
(***************************************************************************)
\* Mutant: pit_init enables interrupts before it has set the frequency.
Then_sti_early ==
  [pic_remap |-> "idt_flush", idt_flush |-> "pit_install", pit_install |-> "pit_sti",
   pit_sti |-> "pit_set_freq", pit_set_freq |-> "kb_install", kb_install |-> "kb_sti",
   kb_sti |-> "wait", wait |-> "shell"]

Then == [pic_remap |-> "idt_flush", idt_flush |-> "pit_install", pit_install |-> "pit_set_freq",
         pit_set_freq |-> "pit_sti", pit_sti |-> "kb_install", kb_install |-> "kb_sti",
         kb_sti |-> "wait", wait |-> "shell"]

Step(s) == running = None /\ pc = s /\ pc' = Then[s]

\* The initialisation words clear the masks and the requests; whether a line that
\* is high already requests again is up to the chip.
pic_remap ==
  /\ Step("pic_remap") /\ base' = TRUE
  /\ isr' = {} /\ irr' \in SUBSET (IF obf THEN {Keyboard} ELSE {})
  /\ UNCHANGED <<cpu, irq_handlers, pit_freq, obf, bump>>
idt_flush ==
  /\ Step("idt_flush") /\ idt' = TRUE
  /\ UNCHANGED <<iflag, running, stage, pic, irq_handlers, pit_freq, obf, bump>>

\* Mutant: the handler is stored at the line's vector.
install_at_vector(s, n) ==
  /\ Step(s) /\ irq_handlers' = irq_handlers \cup {n + 32}
  /\ UNCHANGED <<cpu, pic, pit_freq, obf, bump>>

\* irq_install_handler, for pit_handler and kb_handler.
irq_install_handler(s, n) ==
  /\ Step(s) /\ irq_handlers' = irq_handlers \cup {n}
  /\ UNCHANGED <<cpu, pic, pit_freq, obf, bump>>
pit_set_freq ==
  /\ Step("pit_set_freq") /\ pit_freq' = 200
  /\ UNCHANGED <<cpu, pic, irq_handlers, obf, bump>>
sti(s) ==
  /\ Step(s) /\ iflag' = TRUE
  /\ UNCHANGED <<idt, running, stage, pic, irq_handlers, pit_freq, obf, bump>>
console_wait_for_key ==
  /\ Step("wait") /\ bump /\ bump' = FALSE
  /\ UNCHANGED <<cpu, pic, irq_handlers, pit_freq, obf>>

kernel_main ==
  \/ pic_remap \/ idt_flush \/ pit_set_freq \/ console_wait_for_key
  \/ irq_install_handler("pit_install", Timer) \/ irq_install_handler("kb_install", Keyboard)
  \/ sti("pit_sti") \/ sti("kb_sti")
-----------------------------------------------------------------------------
(***************************************************************************)
(* The devices: a rising edge on a line is a request, once.                *)
(***************************************************************************)
\* A scan code waits in the keyboard until the controller's buffer is empty.
ScanCode ==
  /\ ~obf /\ obf' = TRUE /\ irr' = irr \cup {Keyboard}
  /\ UNCHANGED <<pc, cpu, isr, base, irq_handlers, pit_freq, bump>>

\* The timer's period is longer than a handler takes.
Edge(n) ==
  /\ n \notin irr /\ irr' = irr \cup {n}
  /\ n = Timer => running = None
  /\ UNCHANGED <<pc, cpu, isr, base, irq_handlers, pit_freq, obf, bump>>

Device == ScanCode \/ \E n \in Devices \cup {Timer} : Edge(n)
-----------------------------------------------------------------------------
(***************************************************************************)
(* The PICs and the CPU's way through irq_common_stub and irq_handler.     *)
(***************************************************************************)
\* A line in service holds back itself and the lines behind it; the slave's
\* lines sit behind the master's cascade.
rank(n) == IF n \in Slave THEN Cascade ELSE n
held_back(n) == \E s \in isr : IF s \in Slave THEN n \in Slave /\ s <= n ELSE s <= rank(n)
before(m, n) == rank(m) < rank(n) \/ (rank(m) = rank(n) /\ m < n)

lines_of(n) == IF n \in Slave THEN {n, Cascade} ELSE {n}

enter(n) == running' = n /\ stage' = "call" /\ iflag' = FALSE

Accept(n) ==
  /\ iflag /\ running = None /\ enter(n)
  /\ n \in irr /\ ~held_back(n)
  /\ \A m \in irr : before(m, n) => held_back(m)
  /\ irr' = irr \ {n} /\ isr' = isr \cup lines_of(n)
  /\ UNCHANGED <<boot, base, obf, bump>>

\* A request that is gone when the CPU asks for it comes as the PIC's last line,
\* without an in-service bit of its own.
Spurious(n) ==
  /\ iflag /\ running = None /\ enter(n)
  /\ n \in Devices \cap {7, 15} /\ irr = {}
  /\ isr' = isr \cup (lines_of(n) \ {n})
  /\ UNCHANGED <<boot, irr, base, obf, bump>>

\* Mutant: int_no > 40, which forgets the first line of the slave.
next_eoi_gt(n) == IF n + 32 > 40 THEN "slave_eoi" ELSE "master_eoi"

\* int_no is the line's number plus 32; the slave is told from 40 on.
next_eoi(n) == IF n + 32 >= 40 THEN "slave_eoi" ELSE "master_eoi"

\* pit_handler divides by pit_freq; isr_handler halts the CPU on an exception, with
\* interrupts off.
divides_by_zero == running = Timer /\ Timer \in irq_handlers /\ pit_freq = 0

\* Mutant: the keyboard handler ignores the byte while nobody waits for a key.
call_handler_idle ==
  /\ running # None /\ stage = "call"
  /\ stage' = IF divides_by_zero THEN "halted" ELSE next_eoi(running)
  /\ IF running = Keyboard /\ Keyboard \in irq_handlers /\ pc = "wait"
     THEN obf' = FALSE /\ bump' = TRUE
     ELSE UNCHANGED <<obf, bump>>
  /\ UNCHANGED <<boot, iflag, running, pic>>

\* pit_handler advances the clock (which LineInput models), kb_handler reads the byte and reports a key; a
\* line without a handler is only acknowledged.
call_handler ==
  /\ running # None /\ stage = "call"
  /\ stage' = IF divides_by_zero THEN "halted" ELSE next_eoi(running)
  /\ IF running = Keyboard /\ Keyboard \in irq_handlers
     THEN obf' = FALSE /\ bump' = TRUE
     ELSE UNCHANGED <<obf, bump>>
  /\ UNCHANGED <<boot, iflag, running, pic>>

\* The unspecific end of interrupt drops the chip's first line in service.
first_of(chip) == {s \in isr \cap chip : \A t \in isr \cap chip : s <= t}
eoi(s, chip, next) ==
  /\ running # None /\ stage = s /\ stage' = next
  /\ isr' = isr \ first_of(chip)
  /\ UNCHANGED <<boot, iflag, running, irr, base, obf, bump>>

\* Mutant: the return leaves interrupts off.
plain_ret ==
  /\ running # None /\ stage = "iret" /\ running' = None
  /\ UNCHANGED <<boot, iflag, stage, pic, obf, bump>>

iret ==
  /\ running # None /\ stage = "iret"
  /\ running' = None /\ iflag' = TRUE
  /\ UNCHANGED <<boot, stage, pic, obf, bump>>

irq_handler ==
  \/ call_handler \/ iret
  \/ eoi("slave_eoi", Slave, "master_eoi") \/ eoi("master_eoi", Lines \ Slave, "iret")

Requested == \E n \in Lines : Accept(n)
Interrupt == Requested \/ \E n \in Lines : Spurious(n)

Next == kernel_main \/ Device \/ Interrupt \/ irq_handler

Fairness ==
  /\ SF_vars(kernel_main) /\ WF_vars(irq_handler)
  /\ WF_vars(Requested) /\ SF_vars(Accept(Keyboard))

\* The CPU takes a pending request before it goes on, handlers run to their end, and
\* the timer leaves time between two ticks, so that neither the main thread nor the
\* keyboard's request is passed over for ever.
Spec == Init /\ [][Next]_vars /\ Fairness
-----------------------------------------------------------------------------
Stages == {"call", "slave_eoi", "master_eoi", "iret", "halted"}

TypeOK ==
  /\ pc \in DOMAIN Then \cup {"shell"} /\ iflag \in BOOLEAN /\ idt \in BOOLEAN
  /\ irr \subseteq Lines /\ isr \subseteq Lines /\ base \in BOOLEAN
  /\ irq_handlers \subseteq {Timer, Keyboard} /\ pit_freq \in {0, 200}
  /\ obf \in BOOLEAN /\ bump \in BOOLEAN
  /\ running \in Lines \cup {None} /\ stage \in Stages

\* No order of boot steps and interrupts runs a handler before what it needs is
\* there: interrupts are on only with the PIC remapped and the IDT loaded, and the
\* timer's handler never divides by a frequency that is not set yet.
HandlersReady ==
  /\ iflag => idt /\ base
  /\ stage # "halted"

\* What irq_handler acknowledges is what the PIC has in service: after it, also for
\* a spurious request and for a line of the slave, both chips are free again, and
\* no line is held back for ever.
NothingLeftInService == running = None => isr = {}

\* A scan code is stranded when it waits in the controller and neither a request
\* nor a handler is on its way to read it: the line stays high, so no further
\* edge, and no further key, will ever come through.
Stranded == obf /\ Keyboard \notin irr /\ ~(running = Keyboard /\ stage = "call")

\* Once kb_handler is installed no scan code gets stranded, also when it arrives
\* between the handler's read and the end of interrupt.
KeyNeverStranded ==
  [][(Keyboard \in irq_handlers /\ ~Stranded) => ~Stranded']_vars

\* A key that is on its way while kernel_main waits starts the shell.
KeyStartsShell == (pc = "wait" /\ obf /\ ~Stranded) ~> (pc = "shell")

\* The prompt promises it of any key.
AnyKeyContinues == (pc = "wait" /\ obf) ~> (pc = "shell")
=============================================================================
