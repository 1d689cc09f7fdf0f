-------------------------- MODULE InterruptsProofs --------------------------
(***************************************************************************)
(* The safety properties of Interrupts for every set of devices.           *)
(***************************************************************************)
EXTENDS Interrupts, TLAPS

\* The boot steps before interrupts are enabled, in their order.
Early == {"pic_remap", "idt_flush", "pit_install", "pit_set_freq", "pit_sti"}

\* What the boot steps done so far have established.
BootProgress ==
  /\ pc # "pic_remap" => base
  /\ pc \notin {"pic_remap", "idt_flush"} => idt
  /\ pc \notin {"pic_remap", "idt_flush", "pit_install", "pit_set_freq"} => pit_freq = 200
  /\ iflag \/ running # None => pc \notin Early
  /\ pc = "pic_remap" => irq_handlers = {}

\* The bits in service at each stage of irq_handler, all due to the line it runs for.
ServiceOfHandler ==
  /\ running = None => isr = {}
  /\ running # None => isr \subseteq lines_of(running)
  /\ running # None /\ stage = "master_eoi" => isr \cap Slave = {}
  /\ running # None /\ stage = "slave_eoi" => running \in Slave
  /\ running # None /\ stage = "iret" => isr = {}
  /\ running \notin Slave /\ running # None => isr \cap Slave = {}

IInv == TypeOK /\ HandlersReady /\ BootProgress /\ ServiceOfHandler
-----------------------------------------------------------------------------
\* The CPU starts with interrupts off and nothing in service.
LEMMA InitIInv == Init => IInv
<1> SUFFICES ASSUME Init PROVE IInv  OBVIOUS
<1>1. TypeOK  BY DEF Init, TypeOK, Then, Stages
<1>2. HandlersReady /\ BootProgress  BY DEF Init, HandlersReady, BootProgress, Early
<1>3. ServiceOfHandler  BY DEF Init, ServiceOfHandler, None
<1> QED BY <1>1, <1>2, <1>3 DEF IInv

\* A boot step keeps the invariant: interrupts go on only after the IDT, the PIC
\* and the timer's frequency.
LEMMA BootStep == IInv /\ kernel_main => IInv'
<1> SUFFICES ASSUME IInv, kernel_main PROVE IInv'  OBVIOUS
<1> USE DEF Step, Then, cpu, pic
<1>1. running = None /\ running' = None /\ stage' = stage
  BY DEF kernel_main, pic_remap, idt_flush, irq_install_handler, pit_set_freq, sti,
     console_wait_for_key
<1>2. CASE pic_remap
  <2>1. irr' \subseteq Lines  BY <1>2 DEF pic_remap, Lines, Keyboard
  <2> QED
    BY <1>1, <1>2, <2>1 DEF pic_remap, IInv, TypeOK, HandlersReady, BootProgress, ServiceOfHandler,
       Early
<1>3. CASE idt_flush
  BY <1>1, <1>3 DEF idt_flush, IInv, TypeOK, HandlersReady, BootProgress, ServiceOfHandler, Early
<1>4. CASE irq_install_handler("pit_install", Timer)
  BY <1>1, <1>4 DEF irq_install_handler, IInv, TypeOK, HandlersReady, BootProgress,
     ServiceOfHandler, Early
<1>5. CASE irq_install_handler("kb_install", Keyboard)
  BY <1>1, <1>5 DEF irq_install_handler, IInv, TypeOK, HandlersReady, BootProgress,
     ServiceOfHandler, Early
<1>6. CASE pit_set_freq
  BY <1>1, <1>6 DEF pit_set_freq, IInv, TypeOK, HandlersReady, BootProgress, ServiceOfHandler, Early
<1>7. CASE sti("pit_sti") \/ sti("kb_sti")
  BY <1>1, <1>7 DEF sti, IInv, TypeOK, HandlersReady, BootProgress, ServiceOfHandler, Early
<1>8. CASE console_wait_for_key
  BY <1>1, <1>8 DEF console_wait_for_key, IInv, TypeOK, HandlersReady, BootProgress,
     ServiceOfHandler, Early
<1> QED BY <1>2, <1>3, <1>4, <1>5, <1>6, <1>7, <1>8 DEF kernel_main

\* A device only adds requests.
LEMMA DeviceStep == IInv /\ Device => IInv'
<1> SUFFICES ASSUME IInv, Device PROVE IInv'  OBVIOUS
<1>1. irr' \subseteq Lines /\ obf' \in BOOLEAN
  <2>1. ASSUME NEW n \in Devices \cup {Timer} PROVE n \in Lines
    BY DeviceLines DEF Lines, Timer
  <2>2. Keyboard \in Lines  BY DEF Keyboard, Lines
  <2> QED BY <2>1, <2>2 DEF Device, ScanCode, Edge, IInv, TypeOK
<1>2. UNCHANGED <<pc, cpu, isr, base, irq_handlers, pit_freq, bump>>
  BY DEF Device, ScanCode, Edge
<1> QED
  BY <1>1, <1>2 DEF cpu, IInv, TypeOK, HandlersReady, BootProgress, ServiceOfHandler

\* The CPU takes a request only when nothing is in service, and puts in service
\* only the bits of the line it takes.
LEMMA InterruptStep == IInv /\ Interrupt => IInv'
<1> SUFFICES ASSUME IInv, NEW n \in Lines, Accept(n) \/ Spurious(n) PROVE IInv'
  BY DEF Interrupt, Requested
<1>1. /\ iflag /\ running = None /\ isr = {}
      /\ running' = n /\ stage' = "call" /\ iflag' = FALSE
      /\ UNCHANGED <<boot, base, obf, bump>>
  BY DEF Accept, Spurious, enter, IInv, ServiceOfHandler
<1>2. irr' \subseteq Lines /\ isr' \subseteq lines_of(n)
  BY <1>1 DEF Accept, Spurious, IInv, TypeOK
<1>3. lines_of(n) \subseteq Lines /\ (n \notin Slave => lines_of(n) \cap Slave = {})
  BY DEF lines_of, Lines, Cascade, Slave
<1>4. TypeOK'
  BY <1>1, <1>2, <1>3 DEF IInv, TypeOK, boot, Stages
<1>5. HandlersReady' /\ BootProgress'
  BY <1>1 DEF IInv, HandlersReady, BootProgress, boot
<1>6. ServiceOfHandler'
  <2>1. n # None  BY DEF Lines, None
  <2> QED BY <1>1, <1>2, <1>3, <2>1 DEF ServiceOfHandler
<1> QED BY <1>4, <1>5, <1>6 DEF IInv

\* With one line of a chip in service, the end of interrupt drops that line.
LEMMA FirstOfOne ==
  ASSUME NEW m \in Int, NEW chip, isr \cap chip \subseteq {m}
  PROVE  first_of(chip) = isr \cap chip
<1>1. m <= m  OBVIOUS
<1> QED BY <1>1, Zenon DEF first_of

\* The timer's handler finds the frequency set, and the ends of interrupt clear the
\* slave's bit, then the master's.
LEMMA HandlerStep == IInv /\ irq_handler => IInv'
<1> SUFFICES ASSUME IInv, irq_handler PROVE IInv'  OBVIOUS
<1>1. running \in Lines /\ running # None
  BY DEF irq_handler, call_handler, iret, eoi, IInv, TypeOK
<1>2. lines_of(running) \subseteq Lines
  BY <1>1 DEF lines_of, Lines, Cascade, Slave
<1>3. CASE call_handler
  <2>1. UNCHANGED <<boot, iflag, running, pic>> /\ obf' \in BOOLEAN /\ bump' \in BOOLEAN
    BY <1>3 DEF call_handler, IInv, TypeOK
  <2>2. ~divides_by_zero
    BY <1>1 DEF divides_by_zero, IInv, BootProgress, Early
  <2>3. stage = "call" /\ stage' = next_eoi(running)
    BY <1>3, <2>2 DEF call_handler
  <2>4. stage' = IF running \in Slave THEN "slave_eoi" ELSE "master_eoi"
    BY <1>1, <2>3, SMT DEF next_eoi, Slave, Lines
  <2> QED
    BY <1>1, <2>1, <2>3, <2>4 DEF IInv, TypeOK, HandlersReady, BootProgress, ServiceOfHandler, boot, pic,
       Stages
<1>4. CASE eoi("slave_eoi", Slave, "master_eoi")
  <2>1. stage = "slave_eoi" /\ stage' = "master_eoi" /\ isr' = isr \ first_of(Slave)
        /\ UNCHANGED <<boot, iflag, running, irr, base, obf, bump>>
    BY <1>4 DEF eoi
  <2>2. first_of(Slave) = isr \cap Slave
    <3>1. running \in Slave /\ isr \subseteq {running, Cascade}
      BY <1>1, <2>1 DEF IInv, ServiceOfHandler, lines_of
    <3>2. Cascade \notin Slave /\ Slave \subseteq Int  BY DEF Cascade, Slave
    <3>3. isr \cap Slave \subseteq {running} /\ running \in Int  BY <3>1, <3>2
    <3> QED BY <3>3, FirstOfOne
  <2> QED
    BY <1>1, <2>1, <2>2 DEF IInv, TypeOK, HandlersReady, BootProgress, ServiceOfHandler, boot, Stages
<1>5. CASE eoi("master_eoi", Lines \ Slave, "iret")
  <2>1. stage = "master_eoi" /\ stage' = "iret" /\ isr' = isr \ first_of(Lines \ Slave)
        /\ UNCHANGED <<boot, iflag, running, irr, base, obf, bump>>
    BY <1>5 DEF eoi
  <2>2. isr' = {}
    <3>1. isr \cap Slave = {} /\ isr \subseteq lines_of(running) /\ isr \subseteq Lines
      BY <1>1, <2>1 DEF IInv, TypeOK, ServiceOfHandler
    <3>2. \E m \in Lines : isr \subseteq {m}
      <4>1. CASE running \in Slave
        <5>1. isr \subseteq {running, Cascade} /\ running \notin isr
          BY <3>1, <4>1 DEF lines_of
        <5>2. Cascade \in Lines  BY DEF Cascade, Lines
        <5> QED BY <5>1, <5>2
      <4>2. CASE running \notin Slave
        BY <1>1, <3>1, <4>2 DEF lines_of
      <4> QED BY <4>1, <4>2
    <3>3. PICK m \in Lines : isr \subseteq {m}  BY <3>2
    <3>4. m \in Int  BY <3>3 DEF Lines
    <3>5. isr \cap (Lines \ Slave) = isr  BY <3>1
    <3>6. first_of(Lines \ Slave) = isr
      BY <3>3, <3>4, <3>5, FirstOfOne
    <3> QED BY <2>1, <3>6
  <2> QED
    BY <1>1, <2>1, <2>2 DEF IInv, TypeOK, HandlersReady, BootProgress, ServiceOfHandler, boot, Stages
<1>6. CASE iret
  <2>1. stage = "iret" /\ running' = None /\ iflag' = TRUE
        /\ UNCHANGED <<boot, stage, pic, obf, bump>>
    BY <1>6 DEF iret
  <2>2. pc \notin Early /\ idt /\ base
    BY <1>1 DEF IInv, BootProgress, Early
  <2>3. isr = {}  BY <1>1, <2>1 DEF IInv, ServiceOfHandler
  <2> QED
    BY <2>1, <2>2, <2>3 DEF IInv, TypeOK, HandlersReady, BootProgress, ServiceOfHandler, boot, pic, Slave, None
<1> QED BY <1>3, <1>4, <1>5, <1>6 DEF irq_handler
-----------------------------------------------------------------------------
\* In every run of the boot and of any devices, the whole invariant holds.
THEOREM Invariance == Spec => []IInv
<1>1. IInv /\ [Next]_vars => IInv'
  <2>1. IInv /\ UNCHANGED vars => IInv'
    BY DEF vars, cpu, pic, IInv, TypeOK, HandlersReady, BootProgress, ServiceOfHandler
  <2> QED BY <2>1, BootStep, DeviceStep, InterruptStep, HandlerStep DEF Next
<1> QED BY <1>1, InitIInv, PTL DEF Spec

\* The variables keep their types: only PIC lines are requested, served or handled.
THEOREM TypeCorrect == Spec => []TypeOK
<1>1. IInv => TypeOK  BY DEF IInv
<1> QED BY <1>1, Invariance, PTL

\* Interrupts are never on before the IDT and the PIC are set up, and pit_handler
\* never divides by zero.
THEOREM BootIsSafe == Spec => []HandlersReady
<1>1. IInv => HandlersReady  BY DEF IInv
<1> QED BY <1>1, Invariance, PTL

\* irq_handler acknowledges every line it is called for, on both chips.
THEOREM AllAcknowledged == Spec => []NothingLeftInService
<1>1. IInv => NothingLeftInService  BY DEF IInv, ServiceOfHandler, NothingLeftInService
<1> QED BY <1>1, Invariance, PTL

\* With kb_handler installed no scan code is left unread without a request.
THEOREM KeysComeThrough == Spec => KeyNeverStranded
<1>1. ASSUME IInv, [Next]_vars, Keyboard \in irq_handlers, ~Stranded PROVE ~Stranded'
  <2>1. CASE kernel_main
    <3>1. ~pic_remap  BY <1>1 DEF pic_remap, Step, IInv, BootProgress
    <3>2. UNCHANGED <<running, stage, irr, obf>>
      BY <2>1, <3>1 DEF kernel_main, idt_flush, irq_install_handler, pit_set_freq, sti,
         console_wait_for_key, cpu, pic
    <3> QED BY <1>1, <3>2 DEF Stranded
  <2>2. CASE Device
    <3>1. UNCHANGED <<running, stage>> /\ irr \subseteq irr'
          /\ (obf' => obf \/ Keyboard \in irr')
      BY <2>2 DEF Device, ScanCode, Edge, cpu
    <3> QED BY <1>1, <3>1 DEF Stranded
  <2>3. CASE Interrupt
    <3>1. PICK n \in Lines : Accept(n) \/ Spurious(n)  BY <2>3 DEF Interrupt, Requested
    <3>2. obf' = obf /\ running = None /\ running' = n /\ stage' = "call"
      BY <3>1 DEF Accept, Spurious, enter
    <3>3. n # Keyboard /\ Keyboard \in irr => Keyboard \in irr'
      BY <3>1 DEF Accept, Spurious
    <3>4. None # Keyboard  BY DEF None, Keyboard
    <3> QED BY <1>1, <3>2, <3>3, <3>4 DEF Stranded
  <2>4. CASE irq_handler
    <3>1. CASE call_handler
      BY <1>1, <3>1 DEF call_handler, Stranded, pic
    <3>2. CASE eoi("slave_eoi", Slave, "master_eoi") \/ eoi("master_eoi", Lines \ Slave, "iret")
      BY <1>1, <3>2 DEF eoi, Stranded
    <3>3. CASE iret
      BY <1>1, <3>3 DEF iret, Stranded, pic
    <3> QED BY <2>4, <3>1, <3>2, <3>3 DEF irq_handler
  <2>5. CASE UNCHANGED vars
    BY <1>1, <2>5 DEF vars, cpu, pic, Stranded
  <2> QED BY <1>1, <2>1, <2>2, <2>3, <2>4, <2>5 DEF Next
<1>2. IInv /\ [Next]_vars => (Keyboard \in irq_handlers /\ ~Stranded => ~Stranded')
  BY <1>1
<1> QED BY <1>2, Invariance, PTL DEF Spec, KeyNeverStranded
=============================================================================
