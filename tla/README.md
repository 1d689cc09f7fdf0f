# Verification of the ViridOS kernel

ViridOS is a small 32-bit x86 kernel (`src/src`): it boots from GRUB, sets up
descriptor tables, interrupts and a page frame allocator, scans the PCI bus
(starting an AHCI controller if there is one), and then runs a shell on the text
console. This directory holds TLA+ modules of the parts of it that keep state,
the TLC configurations that check them, and proofs that TLAPS checks.

There is one main thread (`kernel_main`, then `kshell_start`), no scheduler and
no locks. What runs beside it are interrupt handlers (timer and keyboard) and
the devices themselves. The makefile compiles without optimisation, so
statements take effect in program order and a busy loop such as
`while (reading_input);` reads memory every time.

## Inventory

| Component | State | Operations | Talks to | Hard because |
|---|---|---|---|---|
| Line input (`console.c` 245-348) | `dest`, `loc`, `reading_input`, `previous_key`, `repeating`, `last_time`, `bump` | `console_read_line`, `console_on_key_down`, `console_wait_for_key` | called by the shell and by `kb_handler`; reads the clock | two actors share all of it without locks |
| Screen (`console.c` 26-81) | `cursor_x`, `cursor_y`, video memory | `put_char`, `dec_x`, `scroll`, `console_clear` | every printing part | the handler and the shell both move the cursor |
| Keyboard (`ps2_kb.c`) | `shift`, `last_key`, `key_map` | `kb_handler`, `ps2_kb_init` | `console_on_key_down` | every scan code calls the console, also releases |
| Timer (`pit.c`) | `elapsed_time`, `pit_freq` | `pit_handler`, `pit_init` | the key filter | 64-bit clock compared with an `int` |
| Shell (`kshell.c`) | `cmd` | `kshell_start`, `parse_cmd` | console, allocator, RTC, PCI table | its buffer belongs to the handler while a line is read; a label is cut at eight characters |
| Output (`console.c` 83-243, `conversion.h`) | none | `printf`, `console_log`, `console_warn`, `console_error`, `itoa` | every printing part | formats and arguments are matched by hand |
| Interrupts (`idt.c`, `pic.c`, `irq.c`, `interrupts.asm`, boot order of `kernel.c`) | IDT, PICs, `irq_handlers`, CPU flag | `idt_init`, `pic_remap`, `irq_install_handler`, `irq_handler` | all devices | devices request at any time, also before the kernel is ready |
| Page frames (`page_frame_allocator.c`) | `map`, four counters | set-up, `request_page`, `lock_*`, `free_*`, `reserve_*` | boot loader's memory map, `kmalloc` | counters kept apart from the map, wrapping arithmetic |
| Heap (`mem.c`) | `placement_adr` | `kmalloc`, `mem_init` | allocator, AHCI, paging | memory handed out is memory the frame map calls free |
| AHCI (`ahci.c`) | registers, `ports`, command tables | `ahci_init`, `ahci_read_port`, `ahci_write_port` | PCI, `kmalloc`, the controller | the controller works asynchronously on memory the driver fills |
| PCI (`pci.c`) | `pci_devices`, `dev_index` | `pci_enumerate`, `check_device` | AHCI, shell | drivers start in the middle of the scan; table of 256 without a bound check |
| Real mode, VBE (`realmode.asm`, `vbe.c`) | IDT and PIC bases | `_int_32`, `vbe_init` | interrupts | interrupts taken by the BIOS |
| RTC (`rtc.c`) | none | `rtc_*` | shell | reads torn by the clock's update |
| Tables (`gdt.c`, `idt.c`, `paging.c`, the stubs of `interrupts.asm`) | GDT, IDT, page tables | pure construction | the CPU | packed by the kernel, unpacked by the CPU |
| ELF (`elf.c`) | none | one predicate | nothing | - |

What makes each correct: the line buffer is what the user sees and is not
touched outside a read; the cursor stands where the next character goes; a held
key repeats at the set rate; no handler runs before what it needs exists, every
interrupt is acknowledged on both chips, no key is lost for good; no frame is
handed out twice and the counters count; the controller's memory is not moved
under it and the device does what the caller asked; every PCI function is found
once and the first disk controller is driven; a line runs the command it names,
and what the command shows is so; the CPU reads from a table what the kernel
meant to put there.

## Modules

| Module | Models | Extends |
|---|---|---|
| `Screen` | cursor movement: `inc_x`, `dec_x`, `put_char`, `scroll`, `console_clear` | |
| `LineEditor` | abstract: what `console_read_line` promises its caller | |
| `LineInput` | shell loop, `console_read_line` statement by statement, `kb_handler` with `console_on_key_down`, `pit_handler`; instance of `LineEditor` under the refinement mapping | `Screen` |
| `LineInputProofs` | theorems about `LineInput` | `LineInput` |
| `LineRefinement` | theorem: `LineInput` implements the safety part of `LineEditor` | `LineInputProofs` |
| `Interrupts` | boot order of `kernel_main`, the two PICs, `irq_common_stub` and `irq_handler`, the devices | |
| `InterruptsProofs` | theorems about `Interrupts` | `Interrupts` |
| `FrameAllocator` | abstract: what `page_frame_allocator.h` promises its callers | |
| `PageFrames` | `page_frame_allocator.c` and `kmalloc`; instance of `FrameAllocator` under the refinement mapping | |
| `PageFramesProofs` | theorems about `PageFrames` | `PageFrames` |
| `Ahci` | `ahci.c` and the controller | |
| `AhciProofs` | theorems about `Ahci` | `Ahci` |
| `Pci` | `pci.c` with the hand-over to `ahci_init` | |
| `Rtc` | `rtc.c` and the clock | |
| `Output` | `printf`, `console_log` and its relatives, `itoa` | |
| `OutputProofs` | theorems about `itoa` | `Output` |
| `Shell` | composes the three: from `pci_enumerate` through `kshell_start` to every command of `parse_cmd` | `Pci`, `Rtc`, `Output` |
| `ShellProofs` | theorems about `Shell` | `Shell`, `OutputProofs` |
| `Descriptors` | GDT entries, interrupt gates and the stubs' frames, page tables: the kernel's side and the CPU's, with theorems | |
| `MC...` | constants for TLC | the module named |

`PROJECT.json` maps each definition to the lines it stands for. Definitions
headed `\* Mutant:` are plausible bugs of the definition below them; each is
used to see that a property notices it, and none is part of a specification.

### LineInput and Screen

`pc` is the next statement of the main thread: one action per assignment of
`console_read_line`, one per `WordSize` bytes that `memset` (a `rep stosl`)
clears. An interrupt handler runs with interrupts off, so it is one action:
a press (also the keyboard's own repeat), a release or a left shift runs
`kb_handler` and all of `console_on_key_down`. Between any two statements any
handler may run.

Data is reduced to what the properties tell apart: a character is a pair of a
key and the shift state; keys are split by what `keys` and `keys_shift` hold for
them (letters, symbols, keys that ignore shift, keys without a character). `dest`
is null or points to `cmd`; index `LineSize` of `cmd` is the byte behind the
array. `last_time` is an `int` and wraps; a negative deadline compared with the
unsigned clock is later than every time. The clock counts timer periods. `echo`,
`early`, `wrapped` and `typed` are history variables, which `read_line_return`
starts anew: the characters drawn, the places of those that were typed before
`memset` passed there, whether the line left its row, and the key taken last in
the wait loop. What a command prints is
any place the cursor may be left at. The row of the cursor may become negative
(`dec_x` does not look); `LowestRow` bounds how far.

`LineEditor` is the same seen by the caller: a line is opened, characters come to
its end and go from its end, it ends once, and the shell gets the line that the
user saw. The refinement mapping (`Editor` in `LineInput`) takes `phase` from
`reading_input` and the statement reached, and `text` from the characters on the
screen. The promise leaves out what the code cannot keep: a character typed while
`console_read_line` is still opening the line may be lost, and `lost` holds the
places of those that are; `Return` gives the shell the others. A place is lost
only by a character typed there while the line was opening, and no longer once
that character is erased or another is typed at its place. What is promised and
kept: once `console_read_line` waits, not a character typed is lost, in a line
with lost characters neither, and a line typed early is still ended, returned and
parsed.

Runs:

* `line_edit` - two keys may be held; buffer of 2 bytes cleared one at a time,
  screen of 7 by 3 so that a full line fits its row and the screen scrolls; the
  clock stands still (`MaxTime = 0`), so a second code of the same key is always
  dropped by the filter and different keys are needed to go on. Two bytes are
  enough for a full buffer, an overrun, a key between two cleared bytes and a
  backspace over an early character. Finite because every counter is bounded by
  the buffer and the screen. This run also checks the refinement, its fairness
  included.
* `line_time` - the clock runs to 5 with a largest int of 4, a repeat delay of 2
  and a rate of 1: all orders of clock and deadline, and the wrap of `last_time`.
* `line_wrap` (expects a violation) - a row of 5 columns and a buffer of 4.

### Interrupts

`kernel_main` goes through `pic_remap`, `idt_flush`, the handlers, the timer's
frequency and the two `sti`. `pci_enumerate` comes in between and changes nothing
here. Lines are 0 to 15; `irr` and `isr` are the request and in-service bits of
both 8259s, in fully nested mode with the slave at line 2, edge triggered, ended
by unspecific EOIs. `running` and `stage` are the handler the CPU is in: IRQ
gates clear the interrupt flag, so handlers do not nest, but devices request
at every stage. The keyboard controller holds one byte (`obf`) and raises no
second edge before it is read. A request that goes away is a spurious IRQ 7 or
15, without an in-service bit. The PICs and controllers are modelled from how
the code drives them and are marked external in the map.

`interrupts` checks this with IRQ 7, 8 and 15 as further devices: a line of the
master, the slave's first (the boundary of `int_no >= 40`) and both spurious
lines. `any_key` (expects a violation) states the prompt's promise for any key.

### PageFrames

One action for the set-up (it runs once, with interrupts off), one per function
of the header; the function for one frame is the run of length 1. Nothing in the
kernel calls these functions after boot yet, so the model has callers that use
them as an interface is used: they lock or reserve frames that are free and free
frames they hold. Counters are in pages and wrap at `Word` pages as the `size_t`
of bytes wraps at 2^32. `WellFormed` says which memory maps the set-up survives:
the scan finds a region of at least a page, and usable memory ends within the
sum of all lengths (otherwise `generate_map` writes behind the map). The scan
itself keeps the code's comparison of `addr_low` with the length; `scanned`
and `added` are what its loop has found after each entry of the memory map.


`FrameAllocator` is the same seen by the callers, without the map and its
counters: a pool of frames, filled once, from which frames go to one caller at a
time and back, or out of use. The refinement mapping (`Promise` in `PageFrames`)
takes the pool from the map's bytes and `taken` from what callers hold, and lets
`Forbidden` be the kernel's frames and page 0.

The boot loader gives addresses and lengths of 64 bits, as two 32-bit fields each
(`Region`), and the code makes less of them: the comparison joins `addr_low` with
`len_high << 32`, the region kept is `addr_low` and `len_low`, and
`installed_memory` is the sum of the `len_low` in 32 bits. All this is modelled in
that width (`mem_len`, `scanned`, `added`). A shift by the width of the type is
undefined; without optimisation the shift instruction leaves the word as it is, a
compiler that folds it makes it 0. `ShiftKeeps` is the choice; the runs take the
first, the proofs hold for both. So a region at or above 4 GB counts with the low
half of its address, and frames are freed that may be no memory: `FreeIsAvailable`
says that what is handed out is memory if every available region starts below
4 GB, and nothing otherwise.

`page_frames` uses ten frames of four bytes, counters that wrap at 16 (so 4 GB
are 64 bytes), a kernel of two pages that ends inside a page, and three memory
maps: one shaped like an emulator's, one where the chosen region does not contain
the kernel, so that the kernel's frames were never counted as free, and one with
memory above 4 GB, which is chosen and whose lengths wrap. `kmalloc` has no limit of its
own; its bound is installed memory. `free_is_free`, `map_space` and
`biggest_block` each expect a violation.

### Ahci

One action per register access of `stop_cmd` and `start_cmd`, one for the memory
of a port (its engines are stopped), and the calls by their steps: look at the
task file up to `MaxSpin` times, clear the error bits, set direction and length in
the header, blank the table, fill its buffer, command, sector and count one after
the other, issue, look for an error. A call on a port whose last command the
controller has yet to fetch changes that command under it, at any of these
steps; no property is about such a call. Reading and writing differ in the command only. The
controller sets CR some time after ST and FR some time after FRE, fetches the
issued command later, and the device completes it or fails, after which the port
stops. The firmware may have left each port stopped, receiving or running, busy,
and with an old error. Memory is in blocks of 256 bytes with the real sizes (32
slots, pages of 16 blocks), commands have the real bytes.

`ahci` uses two ports, each with a drive or with something else, two requests
(the first sector; the last sector and count a command carries correctly) and
two spins; without any drive the system rests, so a state without a successor
is no error there. `ahci_sector` (expects a violation) asks for sectors beyond.

### Shell, Pci, Rtc, Output

`Shell` begins where `kernel_main` calls `pci_enumerate`. The scan is one action
per place looked at: nothing there, no such function, or a function, which runs
all of `check_device` and, for an AHCI controller, the first lines of `ahci_init`
(the rest is module `Ahci`). A machine is a function from places to the words of
a header; what `pci.c` reads but nobody uses is left out. `bar5` is assigned for
header type 0 only, otherwise it is any of `Leftovers`. A line that
`console_read_line` has returned is any of `Lines` (how it comes to be is module
`LineInput`); it is put into lower case, its label is cut, and the label is
compared with the names. An argument of `printf` is an `int` and `itoa` takes 64
bits, so numbers from 2^31 on are sign-extended (`extended`). `list_device` is one round of the loop of `lspci`,
`read_register` one getter of `rtc.c`, taken in any order since the getters are
arguments of one call. Between two of them the clock may begin or end an update,
during which a register may read as any byte of `Garbage`. What is printed is a
sequence of pieces, a text or the digits `itoa` makes of a number.

`shell` has two buses of two devices with two functions, and every machine of at
most two functions, each of one of four kinds (with one function or more, AHCI or
not), and every three of one kind with several functions: this has functions
without a function 0, a second function of a device that has one only, two AHCI
controllers in either order, and a table that is full. Names have one or two
letters and labels at most three, so that lines of up to four characters (small,
capital, space; the buffer is full at four) are shorter than, as long as and
longer than a label; each name is a line too. The clock passes the midnight
before December 31, where the day, the hour, the minute and the second change,
with one garbage byte. Only a command that reads the clock can see it, so it
moves during these commands only. TLC finds 629,099 states.

### Descriptors

Pure functions, in three parts: `gdt_set_gate` and the entries of `gdt_init`;
`idt_set_gate`, the vectors `idt_init` gives the lines, and the words that CPU
and stub push; `paging_init`. Masks and shifts are remainders and quotients. The
CPU's reading of each (bases and limits, gate offsets, the page walk) is external,
from how the code uses it. There is nothing to run: the theorems say, for every
value, that what the CPU unpacks is what the kernel meant.

## What the checks show

| Property | Run | Says |
|---|---|---|
| `HandlerInsideReadLine`, `OneByteOverrun`, `BufferIsEcho`, `LastKeyHeld`, `CursorFollowsLine` | `line_edit` | the handler edits only inside a read, overruns by at most a byte, and buffer, screen and cursor agree; the buffer is blank exactly where `memset` passed over a character typed before |
| `EndedLineFrozen`, `EndedLineIsParsed` | `line_edit` | an ended line is not edited and reaches the parser |
| `EndedLineNears` | `line_edit` | from its end on every statement brings a line nearer to the parser, and no interrupt takes it back |
| `EditsAsPromised` | `line_edit` | `LineInput` implements `LineEditor`: the shell parses the line the user saw, but for places of characters typed while it was opened, each line once |
| `HeldKeyRepeats`, `SameKeyPaced` | `line_time` | a held key repeats, never faster than the rate |
| `HandlersReady`, `NothingLeftInService` | `interrupts` | boot order; acknowledgement on both PICs |
| `KeyNeverStranded`, `KeyStartsShell` | `interrupts` | with the handler installed every scan code is read; a key on its way starts the shell |
| `KernelLocked`, `HeldIsLocked`, `NullMeansOutOfRam`, `BlocksDisjoint` | `page_frames` | nothing is handed out twice; NULL only out of RAM |
| `FreeIsAvailable` | `page_frames` | if available memory starts below 4 GB, a frame that is free, held or withdrawn lies inside one available region of the memory map |
| `AllocatesAsPromised` | `page_frames` | `PageFrames` implements `FrameAllocator` |
| `UsedIsLocked`, `FreeDrift` | `page_frames` | the used count is exact; how far the free count is off |
| `ReceiverFirst`, `MovedWhenStopped`, `MemoryApart`, `DrivesComeUp` | `ahci` | the set-up obeys the controller and ends |
| `SetUpNears` | `ahci` | no step of driver or controller takes the set-up further from its end, whose drives are up |
| `CommandAsRequested`, `ErrorIsItsOwn` | `ahci` | a call on an idle port does what was asked, and reports its own error only |
| `EveryFunctionOnce`, `FirstControllerDriven` | `shell` | the scan enters each function once, in order; the first AHCI controller is driven, with its own registers if its header is of type 0 |
| `RunsWhatWasTyped` | `shell` | a line runs the command its first word names, and only that |
| `LspciShowsTheMachine` | `shell` | `lspci` lists what the machine has, numbers as in its headers |
| `ClockShowsATime` | `shell` | `date` and `time` show a time that was, if no update was met and only the last field changed; that they may be torn otherwise is why the property has this condition |

Disagreements between the code and what it says of itself, each with a run that
shows it (details under `findings` in `PROJECT.json`):

* `line_wrap`: backspace over the end of a row goes to column 24 instead of 79.
* `any_key`: a scan code before `ps2_kb_init` leaves the keyboard dead, and
  "Press any key to continue..." waits for ever.
* `free_is_free`: `get_free_ram` is not the amount of free RAM.
* `map_space`: the allocator's own map is handed out by `request_page`.
* `biggest_block`: the scan does not choose the biggest block.
* `ahci_sector`: sectors from 2^24 on are sent as other sectors.

Seen while reading and not run:

* `pic.c` 19 says "only enable keyboard IRQ" and unmasks every line (`idt_init`
  passes masks that `pic_remap` does not take).
* `conversion.h` 16 tests an unsigned value for being negative, so no minus sign
  is ever written; `console.c` 148 hands it numbers from 2^31 on sign-extended,
  which print as twenty decimal digits or sixteen hexadecimal ones.
* `page_frame_allocator.c` 33 to 37 take the low half of an address: with available
  memory above 4 GB and a reserved region at the same place below it, the
  allocator frees the reserved frames.
* `console.c` 134 cuts the format at its first newline by writing into it, also
  where it is a string literal.
* `pci.c` 42: an AHCI function whose header type is not 0 gives the driver an
  uninitialised `bar5`.
* `vbe.c`, which nothing calls: line 78 uses the index of a mode as its number
  and line 84 has success and failure the wrong way round.
* `mem.c` 17: `memmove` copies forward whatever the overlap; it has no
  overlapping caller.

## Fairness

* `LineInput`: weak fairness of the main thread. A handler returns to it, and
  the timer's period and the keyboard's rate leave it time. Nothing is assumed of
  the user: no key need ever come.
* `Interrupts`: handlers run to their end and the CPU takes a pending request
  (weak fairness); the main thread and the keyboard's request are enabled again
  and again between two ticks, and are not passed over for ever (strong
  fairness). The timer's period is longer than its handler, which is a guard.
  Devices are not fair.
* `Ahci`: weak fairness of `ahci_init` and of the engines following their bits,
  as the controller's documentation promises. Completion is not assumed.
* `LineEditor`: weak fairness of returning an ended line and of parsing it, as
  what is promised; it follows from the fairness of the main thread, and
  `EditsAsPromised` checks that it does. No key is promised.
* `PageFrames` and `Shell` have safety properties only.

## Proofs

Each `...Proofs` module proves an inductive invariant, that the initial states
satisfy it, that every step keeps it, and the properties from it. All 36
properties that can be stated without fairness are proved, for every value of the
constants that the named assumptions allow; the properties of the runs that
expect a violation are false and are not.

Recursive functions of the data (`scanned`, `added`, the numerals of `itoa`) are
reasoned about by hand, since the library's induction theorems take operators the
provers cannot instantiate: a set of numbers without a lowest member is empty
(`LowestExists`), so a set that holds a number whenever it holds all smaller ones,
or its predecessor, is all of them (`Induction`, `Counting`); and a function that
obeys the recursive equation up to some bound exists, by the same argument
(`Recursion`, `UptoExists`), so that the definition by CHOOSE denotes one.

* **LineInput** (assumptions `ScreenSize`, `KeysDistinct`, `Sizes`). The
  invariants of `line_edit` need each other: that the buffer equals the screen
  needs that the handler is confined to a read, which needs what each statement
  before `reading_input = 1` has established (`ReadyToRead`: the cursor behind
  the prompt, `loc` zero, `dest` set), and that every character at a
  place `memset` has yet to clear was typed early (`EarlyMarked`). Proved for every set of keys,
  size of buffer and screen and every clock: `TypeOK`, `HandlerInsideReadLine`,
  `OneByteOverrun`, `BufferIsEcho`, `LastKeyHeld`, `CursorFollowsLine`, and
  `EndedLineFrozen` as an action property. So is `EndedLineNears`: the statements
  left until the line is parsed, `memset`'s bytes among them, are a number that
  every statement lowers and no interrupt raises. For the key filter a second invariant,
  `FilterInv`, relates `last_time` to the moment the last key was taken: the
  deadline is that moment plus the delay or the rate, wrapped to an int. From it
  `HeldKeyRepeats` and the action property `SameKeyPaced`; the assumption that the
  rate is no longer than the delay holds of the two macros.
* **LineRefinement**: `Spec => Editor!Safety`. Each action of `LineInput` is
  shown to be a step of the editor or none; the invariants above say when a key
  reaches an open line, and one more (`RInv`) that a returned line holds what was
  drawn but for the early characters, and is clear behind it. The liveness part of `Editor!Spec` is
  model-checked.
* **Interrupts** (assumption `DeviceLines`). `BootProgress` says what the boot
  steps so far have set up, `ServiceOfHandler` which bits each stage of
  `irq_handler` leaves in service. Proved for every set of devices: `TypeOK`,
  `HandlersReady`, `NothingLeftInService`, `KeyNeverStranded`.
* **PageFrames** (assumption `MemoryAssumption`, which contains `WellFormed`).
  `KernelLocked` and `HeldIsLocked` are inductive together with `PageZeroNotFree`:
  `generate_map` leaves out the first frame of the region, and callers only free
  what they hold. That is also why `NULL` is unambiguous. The counters follow the
  cardinalities of sets of frames modulo `Word` (`CountInv`; `CountOn` is counting
  on from a count that has wrapped). Proved for every page size, word, kernel and
  set of memory maps: `TypeOK`, `KernelLocked`, `HeldIsLocked`,
  `NullMeansOutOfRam`, `BlocksDisjoint`, `UsedIsLocked`, `FreeDrift`.
  `ScanTakes` says what the scan makes of any memory map at all, well formed or
  not: it ends with the low halves of address and length of an available region, taken
  because its `mem_len` is above the length so far, no available region behind it
  has one above the length taken, and there is none only if the `mem_len` of every
  available region is 0. From it `FreeIsAvailable`, for
  memory maps whose available regions start below 4 GB:
  the first frame is left out because the region's address is rounded down, so what
  is freed lies inside the region (`FrameInside`), and whatever callers do a frame
  stays one of these (`InRegion`). `ImplementsFrameAllocator` shows each action to
  be a step of `FrameAllocator` or none. `FrameAllocator` has no fairness, so this
  is all of its specification.
* **Ahci** (assumption `AhciAssumption`: ports are among 0 to 31, and there is a
  request). `IInv` says which bits each step of `stop_cmd` and `start_cmd` has on
  the way down and up (`BitsInOrder`), that the ports' memory lies page behind
  page (`PagesInOrder`), which fields of the slot are written at each step of a call
  (`WrittenInOrder`) and what a call on an idle port has brought about (`CallSoFar`), and that a port with an error is not busy (`NeverBusyFailed`).
  Moving every table by its slot number is harmless because the sixteen blocks it
  enters belong to the next slot, whose own table has moved on, and the last one
  falls into a gap before the next port's structures. Proved for every set of
  ports, request and state the firmware left: `TypeOK`, `ReceiverFirst`,
  `MovedWhenStopped`, `MemoryApart`, `CommandAsRequested`, `ErrorIsItsOwn`.
  `SetUpNears` measures the way to the end of `ahci_init` (`distance`): ports to
  come, the statement within this one, and the engines still running while the
  driver waits for them. That an engine does not start again needs `BitsInOrder`;
  that at the end every drive is up needs `DrivesSoFar`, that the ports behind the
  loop have been started and have memory of their own.
* **Output** (no assumption). For every value and every base `itoa` takes, what it
  writes has at least one digit, none at or above the base, no zero in front, and
  reads as the value (`ItoaWritesTheValue`); so no two values print alike
  (`ItoaTellsValuesApart`), and 64 bits take at most 20 digits of the 256 bytes
  that `printf` has for them (`PrintedNumberFits`).
* **Shell** (assumptions `PciAssumption`, `ShellAssumption`; `RtcAssumption` and
  `MemoryIsCounted` where the clock is shown or memory printed). The scan's
  invariant is `EveryFunctionOnce` with what lies between the loops' place and the
  next. Proved for every machine that fits the table, every size of the bus, and
  every set of names shorter than a label: `EveryFunctionOnce`,
  `FirstControllerDriven`, `RunsWhatWasTyped`. Since no function takes two
  entries, a table as large as the machine has functions is never overrun
  (`TableSuffices`); that a machine has no more is an assumption. For the type
  invariant (`Typed`) each format is taken apart into its texts and conversions,
  each of which finds its argument, and numbers into digits by the theorems of
  `Output`. `LspciShowsTheMachine` follows from `TableRight` (an entry holds its
  function's header) and `Listing` (a line for every entry so far), and
  from the scan's invariant at its end. `ClockShowsATime` follows from `Telling`:
  while no update was met, every register that has been read had, at some moment of
  the command, the value got from it; that BCD digits are taken apart and put together again
  (`BcdAndBack`) and printed in decimal is part of it.
* **Descriptors** has no state. `SegmentUnpacks`, `SegmentsAreFlat`,
  `GateUnpacks`, `LinesReachTheirStubs`, `HandlerFindsItsVector`,
  `FirstTableIsIdentity`.

Model-checked only: what needs fairness, since liveness and ENABLED are out of the
prover's reach. These are `EndedLineIsParsed`, `KeyStartsShell`, `DrivesComeUp` and
the fairness in `EditsAsPromised`. For two of them the part that is safety is
proved: `EndedLineNears` and `SetUpNears` say that every step of the process on
which fairness rests lowers a natural number and that no other step raises it, so
that what is left to TLC is that these steps go on being taken.

## Not modelled

* Real mode and VBE (`realmode.asm`, `vbe.c`): nothing calls them. A model of
  what a BIOS call does to interrupts would be one of a kernel that does not exist.
* The ELF header check: one predicate without a caller.
* Colours and cells of video memory, `%s` and `%c`, the text of commands: no
  property is about them.
* Scan codes that index behind `key_map`: what they overwrite is the linker's
  choice. Nor machines with more functions than `pci_devices` has entries.
* Memory maps outside `WellFormed`: the code writes outside its map.
* Exceptions other than the timer's division; a kernel with paging switched on
  (the call in `kernel_main` is commented out).
* RTC status register B (the clock keeps BCD and 24 hours, as PC firmware leaves
  it) and the weekday's getter, which nothing calls.
* `memcpy` and `memmove`: only `vbe.c` calls them.

## Plan

Done: the modules above, the refinement of `LineEditor` with the proof of its
safety part, the refinement of `FrameAllocator` with its proof, the theorems on
`itoa` and the scan, and proofs of every safety property that holds.

Left:

1. Larger machines and longer lines for `shell`, where a longer run is affordable;
   the properties of the scan and of the label do not need them, being proved.
2. A measure for `KeyStartsShell`, as `EndedLineNears` and `SetUpNears` are for
   theirs: how far the main thread is from the shell, and the PICs from the
   handler that reads the scan code. It has two processes that take turns, so the number must allow for
   ticks that come in between.
3. `RealMode` on top of `Interrupts` (the PICs' bases and the IDT around a BIOS
   call), as soon as the kernel calls the BIOS.
4. A composition of `LineInput` and `Shell`, once a command of the shell takes
   input of its own or a handler reads what a command changes.
