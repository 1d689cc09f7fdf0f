----------------------------- MODULE PageFrames -----------------------------
(***************************************************************************)
(* The kernel's memory: page_frame_allocator.c, which keeps a byte for     *)
(* every page frame and counts them, and kmalloc of mem.c, which hands out *)
(* what lies behind the kernel and never takes it back.  The allocator is  *)
(* set up once, from the boot loader's memory map; after that any caller   *)
(* may use the functions of the header, each with frames it has a right to.*)
(* Counters are kept in pages; a size_t of bytes wraps at Word pages.      *)
(* The memory map gives 64-bit addresses and lengths, as two 32-bit fields *)
(* each; what the code computes from them is kept to its 32 bits.          *)
(***************************************************************************)
EXTENDS Integers, FiniteSets, Sequences

CONSTANTS
  PageSize,               \* 0x1000
  Word,                   \* 2^32 / PageSize, where the counters wrap
  ShiftKeeps,             \* what the build makes of a shift by a word's width
  KernelStart, KernelEnd, \* linker.ld: from 1M to the end of .bss
  MemoryMaps,             \* the boot loader's memory maps: sequences of regions
  BlockSizes              \* what kmalloc is asked for

PAGE_FREE == "free"
PAGE_LOCKED == "locked"
PAGE_RESERVED == "reserved"
NULL == 0

Bytes == Word * PageSize   \* 2^32
Field == 0 .. Bytes - 1
Region == [type : {"available", "reserved"},
           addr_low : Field, addr_high : Field, len_low : Field, len_high : Field]

\* a | b, bit by bit.
or[a \in Nat] == [b \in Nat |->
  IF a = 0 THEN b ELSE 2 * or[a \div 2][b \div 2] + (IF 1 \in {a % 2, b % 2} THEN 1 ELSE 0)]

\* len_high << 32 in a 32-bit int is undefined: the shift instruction leaves the word
\* as it is, a compiler that folds the constant makes it 0.
shl32(w) == IF ShiftKeeps THEN w ELSE 0

\* The scan takes the last available region whose mem_len is above the length it has
\* so far.  mem_len is made of addr_low, where len_low is meant.
mem_len(r) == or[shl32(r.len_high)][r.addr_low]
exceeds(r, best) == mem_len(r) > best.len
scanned(m) ==
  LET best[i \in 0 .. Len(m)] ==
        IF i = 0 THEN [start |-> 0, len |-> 0]
        ELSE IF m[i].type = "available" /\ exceeds(m[i], best[i - 1])
             THEN [start |-> m[i].addr_low, len |-> m[i].len_low] ELSE best[i - 1]
  IN best
usable_region(m) == scanned(m)[Len(m)]

added(m) ==
  LET sum[i \in 0 .. Len(m)] == IF i = 0 THEN 0 ELSE (sum[i - 1] + m[i].len_low) % Bytes
  IN sum
installed_memory(m) == added(m)[Len(m)]

map_size(m) == installed_memory(m) \div PageSize

size_to_page_count(bytes) ==
  IF bytes % PageSize = 0 THEN bytes \div PageSize ELSE bytes \div PageSize + 1

KernelPages ==
  LET first == KernelStart \div PageSize
  IN first .. first + size_to_page_count(KernelEnd - KernelStart) - 1

\* What the scan takes is at least a page long, and ends before installed_memory: with
\* larger holes in the map, or when the sum wraps, generate_map writes behind the
\* map's end.  Regions may lie above 4 GB.
WellFormed(m) ==
  /\ m \in Seq(Region)
  /\ usable_region(m).len >= PageSize
  /\ usable_region(m).start + usable_region(m).len <= installed_memory(m)
  /\ KernelPages \subseteq 0 .. map_size(m) - 1

ASSUME MemoryAssumption ==
  /\ PageSize \in Nat \ {0} /\ Word \in Nat \ {0} /\ ShiftKeeps \in BOOLEAN
  /\ BlockSizes \subseteq Nat
  /\ KernelStart \in Nat /\ KernelEnd \in Nat /\ PageSize <= KernelStart /\ KernelStart <= KernelEnd
  /\ \A m \in MemoryMaps : WellFormed(m)

VARIABLES
  mmap,            \* the memory map of this boot
  ready,           \* page_frame_allocator_init has run
  map,             \* the byte of every page frame
  free_memory, used_memory, reserved_memory, usable_memory,
  placement_adr,
  answer,          \* history: what request_page last returned
  block,           \* history: what kmalloc last returned
  held,            \* history: the frames callers have requested or locked
  withdrawn        \* history: the frames reserved after boot

counters == <<free_memory, used_memory, reserved_memory, usable_memory>>
callers == <<held, withdrawn>>
vars == <<mmap, ready, map, counters, placement_adr, answer, block, callers>>

Frames == DOMAIN map
With(status) == {p \in Frames : map[p] = status}

Init ==
  /\ mmap \in MemoryMaps /\ ready = FALSE
  /\ map = [p \in {} |-> PAGE_RESERVED]
  /\ free_memory = 0 /\ used_memory = 0 /\ reserved_memory = 0 /\ usable_memory = 0
  /\ placement_adr = KernelEnd   \* mem_init
  /\ answer = NULL /\ block = [start |-> 0, size |-> 0]
  /\ held = {} /\ withdrawn = {}
-----------------------------------------------------------------------------
(***************************************************************************)
(* Changing the status of a run of frames; the functions for one frame are *)
(* runs of length 1.                                                       *)
(***************************************************************************)
set_status(pages, status) ==
  map' = [p \in Frames |-> IF p \in pages THEN status ELSE map[p]]

\* Mutant: the free count is a signed integer.
lock_pages_signed(pages) ==
  /\ set_status(pages, PAGE_LOCKED)
  /\ free_memory' = free_memory - Cardinality(pages)
  /\ used_memory' = (used_memory + Cardinality(pages)) % Word
  /\ UNCHANGED <<reserved_memory, usable_memory>>

\* Mutant: locking leaves the free count alone.
lock_pages_used(pages) ==
  /\ set_status(pages, PAGE_LOCKED)
  /\ used_memory' = (used_memory + Cardinality(pages)) % Word
  /\ UNCHANGED <<free_memory, reserved_memory, usable_memory>>

lock_pages(pages) ==
  /\ set_status(pages, PAGE_LOCKED)
  /\ free_memory' = (free_memory - Cardinality(pages)) % Word
  /\ used_memory' = (used_memory + Cardinality(pages)) % Word
  /\ UNCHANGED <<reserved_memory, usable_memory>>

\* Mutant: only one frame of the run is given back to the count.
free_pages_one(pages) ==
  /\ set_status(pages, PAGE_FREE)
  /\ free_memory' = (free_memory + Cardinality(pages)) % Word
  /\ used_memory' = (used_memory - 1) % Word
  /\ UNCHANGED <<reserved_memory, usable_memory>>

free_pages(pages) ==
  /\ set_status(pages, PAGE_FREE)
  /\ free_memory' = (free_memory + Cardinality(pages)) % Word
  /\ used_memory' = (used_memory - Cardinality(pages)) % Word
  /\ UNCHANGED <<reserved_memory, usable_memory>>

reserve_pages(pages) ==
  /\ set_status(pages, PAGE_RESERVED)
  /\ reserved_memory' = (reserved_memory + Cardinality(pages)) % Word
  /\ usable_memory' = (usable_memory - Cardinality(pages)) % Word
  /\ UNCHANGED <<free_memory, used_memory>>
-----------------------------------------------------------------------------
\* Mutant: the address is rounded down.
aligned_down(adr, align) == IF align THEN adr - (adr % PageSize) ELSE adr

\* kmalloc: the next address, rounded up to a page if asked.
aligned(adr, align) ==
  IF align /\ adr % PageSize # 0 THEN adr - (adr % PageSize) + PageSize ELSE adr

kmalloc(size, align) ==
  /\ block' = [start |-> aligned(placement_adr, align), size |-> size]
  /\ placement_adr' = aligned(placement_adr, align) + size

\* Mutant: the first frame is left out, but not taken off the count.
usable_frames_all(m) ==
  LET r == usable_region(m)
      index == r.start \div PageSize + 1
      count == r.len \div PageSize
  IN index .. index + count - 1

\* The region's frames without the first: those generate_map marks free.
usable_frames(m) ==
  LET r == usable_region(m)
      index == r.start \div PageSize + 1
      count == r.len \div PageSize - 1
  IN index .. index + count - 1

\* Mutant: the kernel's frames are locked before the map is generated.
init_lock_first ==
  /\ ~ready /\ ready' = TRUE
  /\ LET frames == 0 .. map_size(mmap) - 1
         usable == usable_frames(mmap) \cap frames
     IN /\ map' = [p \in frames |-> IF p \in usable THEN PAGE_FREE ELSE PAGE_RESERVED]
        /\ usable_memory' = Cardinality(usable) % Word
        /\ reserved_memory' = (map_size(mmap) - Cardinality(usable)) % Word
        /\ free_memory' = Cardinality(usable) % Word
        /\ used_memory' = Cardinality(KernelPages) % Word
  /\ kmalloc(map_size(mmap), FALSE)
  /\ UNCHANGED <<mmap, answer, callers>>

\* page_frame_allocator_init: generate_map, then lock_pages for the kernel.
page_frame_allocator_init ==
  /\ ~ready /\ ready' = TRUE
  /\ LET frames == 0 .. map_size(mmap) - 1
         usable == usable_frames(mmap) \cap frames
     IN /\ map' = [p \in frames |-> IF p \in KernelPages THEN PAGE_LOCKED
                                    ELSE IF p \in usable THEN PAGE_FREE ELSE PAGE_RESERVED]
        /\ usable_memory' = Cardinality(usable) % Word
        /\ reserved_memory' = (map_size(mmap) - Cardinality(usable)) % Word
        /\ free_memory' = (Cardinality(usable) - Cardinality(KernelPages)) % Word
        /\ used_memory' = Cardinality(KernelPages) % Word
  /\ kmalloc(map_size(mmap), FALSE)
  /\ UNCHANGED <<mmap, answer, callers>>

\* The frames a caller may name: adjacent ones, all in the set.
Runs(set) == {s .. t : s \in set, t \in set} \cap (SUBSET set \ {{}})

unchanged_heap == UNCHANGED <<mmap, ready, placement_adr, block>>

Lock(pages) ==
  /\ lock_pages(pages) /\ held' = held \cup pages
  /\ UNCHANGED <<answer, withdrawn>> /\ unchanged_heap
Free(pages) ==
  /\ free_pages(pages) /\ held' = held \ pages
  /\ UNCHANGED <<answer, withdrawn>> /\ unchanged_heap
Reserve(pages) ==
  /\ reserve_pages(pages) /\ withdrawn' = withdrawn \cup pages
  /\ UNCHANGED <<answer, held>> /\ unchanged_heap

lowest(set) == CHOOSE p \in set : \A q \in set : p <= q

\* Mutant: the search stops one frame before the end of the map.
request_page_short ==
  LET found == With(PAGE_FREE) \ {map_size(mmap) - 1} IN
  \/ /\ found # {}
     /\ lock_pages({lowest(found)}) /\ answer' = lowest(found) * PageSize
     /\ held' = held \cup {lowest(found)}
     /\ UNCHANGED withdrawn /\ unchanged_heap
  \/ /\ found = {} /\ answer' = NULL
     /\ UNCHANGED <<map, counters, callers>> /\ unchanged_heap

\* Mutant: the frame is returned without being locked.
request_page_unlocked ==
  \/ /\ With(PAGE_FREE) # {} /\ answer' = lowest(With(PAGE_FREE)) * PageSize
     /\ held' = held \cup {lowest(With(PAGE_FREE))}
     /\ UNCHANGED <<map, counters, withdrawn>> /\ unchanged_heap
  \/ /\ With(PAGE_FREE) = {} /\ answer' = NULL
     /\ UNCHANGED <<map, counters, callers>> /\ unchanged_heap

\* The lowest free frame, or NULL.
request_page ==
  \/ /\ With(PAGE_FREE) # {}
     /\ lock_pages({lowest(With(PAGE_FREE))})
     /\ answer' = lowest(With(PAGE_FREE)) * PageSize
     /\ held' = held \cup {lowest(With(PAGE_FREE))}
     /\ UNCHANGED withdrawn /\ unchanged_heap
  \/ /\ With(PAGE_FREE) = {} /\ answer' = NULL
     /\ UNCHANGED <<map, counters, callers>> /\ unchanged_heap

\* Nothing stops kmalloc; the bound is the end of installed memory.
Kmalloc(size, align) ==
  /\ aligned(placement_adr, align) + size <= installed_memory(mmap)
  /\ kmalloc(size, align)
  /\ UNCHANGED <<mmap, ready, map, counters, answer, callers>>

Caller ==
  /\ ready
  /\ \/ request_page
     \/ \E pages \in Runs(With(PAGE_FREE)) : Lock(pages) \/ Reserve(pages)
     \/ \E pages \in Runs(held) : Free(pages)
     \/ \E size \in BlockSizes, align \in BOOLEAN : Kmalloc(size, align)

Next == page_frame_allocator_init \/ Caller

Spec == Init /\ [][Next]_vars
-----------------------------------------------------------------------------
TypeOK ==
  /\ mmap \in MemoryMaps /\ ready \in BOOLEAN
  /\ map \in [IF ready THEN 0 .. map_size(mmap) - 1 ELSE {} ->
              {PAGE_FREE, PAGE_LOCKED, PAGE_RESERVED}]
  /\ free_memory \in 0 .. Word - 1 /\ used_memory \in 0 .. Word - 1
  /\ reserved_memory \in 0 .. Word - 1 /\ usable_memory \in 0 .. Word - 1
  /\ placement_adr \in Nat /\ block \in [start : Nat, size : Nat] /\ answer \in Nat
  /\ held \subseteq Frames /\ withdrawn \subseteq Frames

\* The kernel's own pages stay locked, whatever its callers request, free or
\* reserve.
KernelLocked == ready => \A p \in KernelPages : map[p] = PAGE_LOCKED

\* A frame a caller holds is locked, is not the kernel's and not page 0, so that it
\* is handed to nobody else; a frame reserved after boot stays reserved.
HeldIsLocked ==
  /\ \A p \in held : map[p] = PAGE_LOCKED /\ p \notin KernelPages /\ p # 0
  /\ \A p \in withdrawn : map[p] = PAGE_RESERVED

\* get_used_ram is the number of locked frames.
UsedIsLocked == used_memory = Cardinality(With(PAGE_LOCKED)) % Word

\* Where a region really lies.
address(r) == r.addr_high * Bytes + r.addr_low
length(r) == r.len_high * Bytes + r.len_low

\* What callers are handed, may take or have taken is memory: a frame that is free,
\* held or withdrawn lies in one available region from its first byte to its last.
\* That needs every available region to start below 4 GB: of one above, the scan takes
\* the low half of the address, and the frames there may be no memory at all.
AvailableBelow4G == \A i \in DOMAIN mmap : mmap[i].type = "available" => mmap[i].addr_high = 0
FreeIsAvailable ==
  AvailableBelow4G =>
    \A p \in With(PAGE_FREE) \cup held \cup withdrawn :
      \E i \in DOMAIN mmap :
        /\ mmap[i].type = "available"
        /\ address(mmap[i]) <= p * PageSize
        /\ (p + 1) * PageSize <= address(mmap[i]) + length(mmap[i])

\* How far get_free_ram is from the number of free frames: the kernel's frames
\* outside the free range were taken off it all the same, frames reserved after
\* boot were not.
FreeDrift ==
  ready =>
    free_memory = (Cardinality(With(PAGE_FREE)) + Cardinality(withdrawn)
                   - Cardinality(KernelPages \ usable_frames(mmap))) % Word

\* request_page answers NULL only out of RAM, also after any order of frees.
NullMeansOutOfRam ==
  [][ready /\ request_page /\ answer' = NULL => With(PAGE_FREE) = {}]_vars

\* Every block of kmalloc lies behind all memory handed out before it.
BlocksDisjoint ==
  [][block' # block => block'.start >= placement_adr
                       /\ placement_adr' = block'.start + block'.size]_vars

\* Whatever is requested, taken, freed and reserved, callers see the allocator that
\* FrameAllocator describes; the kernel's frames and page 0 are never in its pool.
Promise ==
  INSTANCE FrameAllocator WITH Forbidden <- KernelPages \cup {0}, open <- ready,
                               pool <- With(PAGE_FREE), taken <- held
AllocatesAsPromised == Promise!Spec

\* The comment on get_free_ram: the amount of free RAM.
FreeIsFree == ready => free_memory = Cardinality(With(PAGE_FREE)) % Word

\* The comment on kmalloc in generate_map: the map has space of its own.
MapHasItsSpace ==
  \A p \in held : (p + 1) * PageSize <= KernelEnd \/ p * PageSize >= KernelEnd + map_size(mmap)

\* The comment in the scan: the biggest usable block is the one that gets used.
BiggestBlockUsed ==
  ready /\ withdrawn = {} =>
    \A i \in DOMAIN mmap :
      mmap[i].type = "available" => length(mmap[i]) \div PageSize - 1 <= usable_memory
=============================================================================
