-------------------------- MODULE PageFramesProofs --------------------------
(***************************************************************************)
(* The allocator's safety properties for every set of well-formed memory   *)
(* maps, page size and place of the kernel.                                *)
(***************************************************************************)
EXTENDS PageFrames, FiniteSetTheorems, WellFoundedInduction, TLAPS

Statuses == {PAGE_FREE, PAGE_LOCKED, PAGE_RESERVED}

\* Page 0, which a caller could not tell from NULL, is never free.
PageZeroNotFree == 0 \notin With(PAGE_FREE)

IInv == TypeOK /\ KernelLocked /\ HeldIsLocked /\ PageZeroNotFree

-----------------------------------------------------------------------------
(***************************************************************************)
(* Induction and recursion on numbers, by the lowest counterexample.       *)
(***************************************************************************)
\* A set of numbers that is not empty has a lowest one.
LEMMA LowestExists ==
  ASSUME NEW S \in SUBSET Nat, S # {}
  PROVE  lowest(S) \in S /\ \A q \in S : lowest(S) <= q
<1> DEFINE R == OpToRel(<, Nat)
<1>1. PICK x \in S : \A y \in S : ~(<<y, x>> \in R)
  <2> HIDE DEF R
  <2>1. IsWellFoundedOn(R, Nat)  BY NatLessThanWellFounded DEF R
  <2> QED BY <2>1, WFMin
<1>2. \A y \in S : x <= y
  <2> SUFFICES ASSUME NEW y \in S PROVE x <= y  OBVIOUS
  <2>1. ~(y < x)  BY <1>1 DEF OpToRel
  <2> QED BY <2>1
<1> QED BY <1>2 DEF lowest

\* What holds of 0 and of the successor of each number it holds of, holds of all.
LEMMA Counting ==
  ASSUME NEW S \in SUBSET Nat, 0 \in S, \A n \in Nat : n \in S => n + 1 \in S
  PROVE  S = Nat
<1> DEFINE T == Nat \ S
<1>1. SUFFICES ASSUME T # {} PROVE FALSE  OBVIOUS
<1>2. PICK n \in T : \A q \in T : n <= q  BY <1>1, LowestExists
<1>3. n - 1 \in Nat /\ n - 1 \notin T  BY <1>2
<1>4. (n - 1) + 1 \in S  BY <1>3
<1> QED BY <1>2, <1>4

Follows(f, n, V, first, next) ==
  f \in [0 .. n -> V] /\ f[0] = first /\ \A i \in 1 .. n : f[i] = next[i][f[i - 1]]

\* A function on 0 .. n can be given by its first value and a rule for the next.
LEMMA Recursion ==
  ASSUME NEW n \in Nat, NEW V, NEW first \in V, NEW next \in [1 .. n -> [V -> V]]
  PROVE  \E f : Follows(f, n, V, first, next)
<1> DEFINE Upto(k) == {f \in [0 .. k -> V] :
                         f[0] = first /\ \A i \in 1 .. k : f[i] = next[i][f[i - 1]]}
           S == {k \in Nat : k <= n => Upto(k) # {}}
<1>1. 0 \in S
  <2>1. [i \in 0 .. 0 |-> first] \in Upto(0)  OBVIOUS
  <2> QED BY <2>1
<1>2. ASSUME NEW k \in Nat, k \in S PROVE k + 1 \in S
  <2> SUFFICES ASSUME k + 1 <= n PROVE Upto(k + 1) # {}  OBVIOUS
  <2>1. PICK f : f \in Upto(k)  BY <1>2
  <2>2. f \in [0 .. k -> V] /\ f[0] = first /\ \A i \in 1 .. k : f[i] = next[i][f[i - 1]]
    BY <2>1
  <2> DEFINE g == [i \in 0 .. k + 1 |-> IF i <= k THEN f[i] ELSE next[k + 1][f[k]]]
  <2>3. next[k + 1][f[k]] \in V
    <3>1. k + 1 \in 1 .. n /\ f[k] \in V  BY <2>2
    <3>2. next[k + 1] \in [V -> V]  BY <3>1
    <3> QED BY <3>1, <3>2
  <2>4. g \in [0 .. k + 1 -> V] /\ g[0] = first  BY <2>2, <2>3
  <2>5. ASSUME NEW i \in 1 .. k + 1 PROVE g[i] = next[i][g[i - 1]]
    <3>1. g[i - 1] = f[i - 1]  OBVIOUS
    <3>2. CASE i <= k
      <4>1. i \in 1 .. k /\ g[i] = f[i]  BY <3>2
      <4> QED BY <2>2, <3>1, <4>1
    <3>3. CASE i = k + 1
      <4>1. i - 1 = k /\ g[i] = next[k + 1][f[k]]  BY <3>3
      <4> QED BY <3>1, <3>3, <4>1
    <3> QED BY <3>2, <3>3
  <2> HIDE DEF g
  <2>6. g \in Upto(k + 1)  BY <2>4, <2>5
  <2> QED BY <2>6
<1>3. S = Nat
  <2> HIDE DEF S
  <2>1. S \in SUBSET Nat  BY DEF S
  <2> QED BY <1>1, <1>2, <2>1, Counting
<1>4. Upto(n) # {}
  <2> HIDE DEF Upto
  <2>1. n \in S  BY <1>3
  <2> QED BY <2>1
<1> QED BY <1>4 DEF Follows
-----------------------------------------------------------------------------
(***************************************************************************)
(* The scan of the boot loader's map, region by region.                    *)
(***************************************************************************)
Extents == [start : Nat, len : Nat]
NoExtent == [start |-> 0, len |-> 0]
ExtentOf(r) == [start |-> r.addr_low, len |-> r.len_low]
Taken(r, best) == IF r.type = "available" /\ exceeds(r, best) THEN ExtentOf(r) ELSE best

\* A field of the map is a natural number below 2^32.
LEMMA Fields == Bytes \in Nat \ {0} /\ Field \subseteq Nat
<1>1. Bytes \in Nat \ {0}  BY MemoryAssumption DEF Bytes
<1> QED BY <1>1 DEF Field

LEMMA RegionFields ==
  ASSUME NEW r \in Region
  PROVE  /\ r.addr_low \in Nat /\ r.len_low \in Nat /\ r.len_high \in Nat
         /\ ExtentOf(r) \in Extents
<1>1. r.addr_low \in Field /\ r.len_low \in Field /\ r.len_high \in Field  BY DEF Region
<1>2. r.addr_low \in Nat /\ r.len_low \in Nat /\ r.len_high \in Nat  BY <1>1, Fields
<1> QED BY <1>2 DEF ExtentOf, Extents

\* What the scan has after every region.
LEMMA ScannedSteps ==
  ASSUME NEW m \in Seq(Region)
  PROVE  /\ scanned(m) \in [0 .. Len(m) -> Extents] /\ scanned(m)[0] = NoExtent
         /\ \A i \in 1 .. Len(m) : scanned(m)[i] = Taken(m[i], scanned(m)[i - 1])
<1> DEFINE n == Len(m)
           next == [i \in 1 .. n |-> [best \in Extents |-> Taken(m[i], best)]]
<1>1. n \in Nat /\ NoExtent \in Extents  BY DEF NoExtent, Extents
<1>2. \A i \in 1 .. n : m[i] \in Region  OBVIOUS
<1>3. next \in [1 .. n -> [Extents -> Extents]]
  <2>1. ASSUME NEW i \in 1 .. n, NEW best \in Extents PROVE Taken(m[i], best) \in Extents
    BY <1>2, RegionFields DEF Taken
  <2> QED BY <2>1
<1>4. PICK f : Follows(f, n, Extents, NoExtent, next)
  <2> HIDE DEF next, n
  <2> QED BY <1>1, <1>3, Recursion, Zenon
<1>5. \A i \in 1 .. n : f[i] = Taken(m[i], f[i - 1])
  <2> SUFFICES ASSUME NEW i \in 1 .. n PROVE f[i] = Taken(m[i], f[i - 1])  OBVIOUS
  <2>1. f[i - 1] \in Extents  BY <1>4 DEF Follows
  <2> QED BY <1>4, <2>1 DEF Follows
<1> DEFINE rule(g) == [i \in 0 .. Len(m) |->
                         IF i = 0 THEN NoExtent ELSE Taken(m[i], g[i - 1])]
<1>6. f = rule(f)
  <2>1. \A i \in 0 .. n : f[i] = rule(f)[i]  BY <1>4, <1>5 DEF Follows
  <2> QED BY <1>4, <2>1 DEF Follows
<1>7. scanned(m) = CHOOSE g : g = rule(g)  BY DEF scanned, NoExtent, Taken, ExtentOf
<1>8. scanned(m) = rule(scanned(m))
  <2> HIDE DEF rule
  <2> QED BY <1>6, <1>7, Zenon
<1> DEFINE s == scanned(m)
<1> HIDE DEF s
<1>9. s = rule(s)  BY <1>8 DEF s
<1>10. s[0] = NoExtent /\ \A i \in 1 .. n : s[i] = Taken(m[i], s[i - 1])
  <2>1. ASSUME NEW i \in 0 .. n PROVE s[i] = IF i = 0 THEN NoExtent ELSE Taken(m[i], s[i - 1])
    BY <1>9
  <2> QED BY <2>1
<1>11. s \in [0 .. n -> Extents]
  <2> DEFINE S == {k \in Nat : k <= n => s[k] \in Extents}
  <2>1. 0 \in S  BY <1>1, <1>10
  <2>2. ASSUME NEW k \in Nat, k \in S PROVE k + 1 \in S
    <3> SUFFICES ASSUME k + 1 <= n PROVE s[k + 1] \in Extents  OBVIOUS
    <3>1. s[k] \in Extents /\ k + 1 \in 1 .. n  BY <2>2
    <3>2. s[k + 1] = Taken(m[k + 1], s[k]) /\ m[k + 1] \in Region  BY <1>2, <1>10, <3>1
    <3> QED BY <3>1, <3>2, RegionFields DEF Taken
  <2>3. S = Nat
    <3> HIDE DEF S
    <3>1. S \in SUBSET Nat  BY DEF S
    <3> QED BY <2>1, <2>2, <3>1, Counting
  <2>4. s = [i \in 0 .. n |-> s[i]]  BY <1>9
  <2> QED BY <2>3, <2>4
<1> QED BY <1>10, <1>11 DEF s

\* The regions from j to k that the scan does not prefer to what it has.
Passed(m, j, k, best) == \A i \in j .. k : m[i].type = "available" => ~exceeds(m[i], best)

\* Of every memory map, with regions above and below 4 GB, the scan ends with the low
\* halves of an available region whose mem_len, addr_low joined with len_high, is above
\* the length the scan had before it, and every available region behind that one has a
\* mem_len that is not above its len_low.  It ends without one only if no available
\* region has a mem_len above 0.
THEOREM ScanTakes ==
  ASSUME NEW m \in Seq(Region)
  PROVE  \/ usable_region(m) = NoExtent /\ Passed(m, 1, Len(m), NoExtent)
         \/ \E j \in DOMAIN m :
              /\ m[j].type = "available" /\ usable_region(m) = ExtentOf(m[j])
              /\ scanned(m)[j - 1] \in Extents /\ exceeds(m[j], scanned(m)[j - 1])
              /\ Passed(m, j + 1, Len(m), ExtentOf(m[j]))
<1> DEFINE s == scanned(m)
           After(k) == \/ s[k] = NoExtent /\ Passed(m, 1, k, NoExtent)
                       \/ \E j \in 1 .. k : /\ m[j].type = "available" /\ s[k] = ExtentOf(m[j])
                                            /\ s[j - 1] \in Extents /\ exceeds(m[j], s[j - 1])
                                            /\ Passed(m, j + 1, k, ExtentOf(m[j]))
           S == {k \in Nat : k <= Len(m) => After(k)}
<1>1. /\ s \in [0 .. Len(m) -> Extents] /\ s[0] = NoExtent
      /\ \A i \in 1 .. Len(m) : s[i] = Taken(m[i], s[i - 1])
  BY ScannedSteps
<1> HIDE DEF s
<1>2. 0 \in S  BY <1>1 DEF Passed
<1>3. ASSUME NEW k \in Nat, k \in S PROVE k + 1 \in S
  <2> SUFFICES ASSUME k + 1 <= Len(m) PROVE After(k + 1)  OBVIOUS
  <2>0. k + 1 \in 1 .. Len(m) /\ (k + 1) - 1 = k  OBVIOUS
  <2>1. s[k + 1] = Taken(m[k + 1], s[k])  BY <1>1, <2>0
  <2>2. CASE m[k + 1].type = "available" /\ exceeds(m[k + 1], s[k])
    <3>1. s[k + 1] = ExtentOf(m[k + 1])  BY <2>1, <2>2 DEF Taken
    <3>2. Passed(m, (k + 1) + 1, k + 1, ExtentOf(m[k + 1]))  BY DEF Passed
    <3>3. s[(k + 1) - 1] \in Extents /\ exceeds(m[k + 1], s[(k + 1) - 1])  BY <1>1, <2>0, <2>2
    <3> QED BY <2>0, <2>2, <3>1, <3>2, <3>3
  <2>3. CASE ~(m[k + 1].type = "available" /\ exceeds(m[k + 1], s[k]))
    <3>1. s[k + 1] = s[k]  BY <2>1, <2>3 DEF Taken
    <3>2. ASSUME NEW j \in Nat, Passed(m, j, k, s[k]) PROVE Passed(m, j, k + 1, s[k])
      <4> SUFFICES ASSUME NEW i \in j .. k + 1, m[i].type = "available" PROVE ~exceeds(m[i], s[k])
        BY DEF Passed
      <4>1. CASE i = k + 1  BY <2>3, <4>1
      <4>2. CASE i \in j .. k  BY <3>2, <4>2 DEF Passed
      <4> QED BY <4>1, <4>2
    <3>6. k <= Len(m)  BY <2>0
    <3>3. After(k)  BY <1>3, <3>6, Zenon
    <3>4. CASE s[k] = NoExtent /\ Passed(m, 1, k, NoExtent)  BY <3>1, <3>2, <3>4
    <3>5. ASSUME NEW j \in 1 .. k, m[j].type = "available", s[k] = ExtentOf(m[j]),
                 s[j - 1] \in Extents, exceeds(m[j], s[j - 1]),
                 Passed(m, j + 1, k, ExtentOf(m[j]))
          PROVE  After(k + 1)
      <4>1. Passed(m, j + 1, k + 1, ExtentOf(m[j])) /\ j \in 1 .. k + 1  BY <3>2, <3>5
      <4> QED BY <3>1, <3>5, <4>1
    <3> QED BY <3>3, <3>4, <3>5
  <2> QED BY <2>2, <2>3
<1>4. S = Nat
  <2> HIDE DEF S
  <2>1. S \in SUBSET Nat  BY DEF S
  <2> QED BY <1>2, <1>3, <2>1, Counting
<1>5. After(Len(m)) /\ DOMAIN m = 1 .. Len(m)  BY <1>4
<1> QED BY <1>5 DEF usable_region, s

\* The scan ends with an address and a length.
LEMMA UsableRegion ==
  ASSUME NEW m \in Seq(Region)
  PROVE  usable_region(m) \in Extents /\ usable_region(m).start \in Nat /\ usable_region(m).len \in Nat
<1>1. usable_region(m) \in Extents  BY ScannedSteps DEF usable_region
<1> QED BY <1>1 DEF Extents

\* The sizes of all regions add up to a size_t.
LEMMA InstalledMemory == ASSUME NEW m \in Seq(Region) PROVE installed_memory(m) \in Nat
<1> DEFINE n == Len(m)
           next == [i \in 1 .. n |-> [sum \in Nat |-> (sum + m[i].len_low) % Bytes]]
<1>1. n \in Nat /\ 0 \in Nat /\ \A i \in 1 .. n : m[i].len_low \in Nat
  <2>1. \A i \in 1 .. n : m[i] \in Region  OBVIOUS
  <2> QED BY <2>1, RegionFields
<1>2. next \in [1 .. n -> [Nat -> Nat]]
  <2>1. ASSUME NEW i \in 1 .. n, NEW sum \in Nat PROVE (sum + m[i].len_low) % Bytes \in Nat
    BY <1>1, Fields
  <2> QED BY <2>1
<1>3. PICK f : Follows(f, n, Nat, 0, next)
  <2> HIDE DEF next, n
  <2> QED BY <1>1, <1>2, Recursion, Zenon
<1>4. \A i \in 1 .. n : f[i] = (f[i - 1] + m[i].len_low) % Bytes
  <2> SUFFICES ASSUME NEW i \in 1 .. n PROVE f[i] = (f[i - 1] + m[i].len_low) % Bytes  OBVIOUS
  <2>1. f[i - 1] \in Nat  BY <1>3 DEF Follows
  <2> QED BY <1>3, <2>1 DEF Follows
<1> DEFINE rule(g) == [i \in 0 .. Len(m) |-> IF i = 0 THEN 0 ELSE (g[i - 1] + m[i].len_low) % Bytes]
<1>5. f = rule(f)
  <2>1. \A i \in 0 .. n : f[i] = rule(f)[i]  BY <1>3, <1>4 DEF Follows
  <2> QED BY <1>3, <2>1 DEF Follows
<1>6. added(m) = CHOOSE g : g = rule(g)  BY DEF added
<1>7. added(m) = rule(added(m))
  <2> HIDE DEF rule
  <2> QED BY <1>5, <1>6, Zenon
<1> DEFINE s == added(m)
           S == {k \in Nat : k <= n => s[k] \in Nat}
<1> HIDE DEF s
<1>8. s[0] = 0 /\ \A i \in 1 .. n : s[i] = (s[i - 1] + m[i].len_low) % Bytes
  <2>1. s = rule(s)  BY <1>7 DEF s
  <2>2. ASSUME NEW i \in 0 .. n PROVE s[i] = IF i = 0 THEN 0 ELSE (s[i - 1] + m[i].len_low) % Bytes
    BY <2>1
  <2>3. s[0] = 0  BY <1>1, <2>2
  <2>4. ASSUME NEW i \in 1 .. n PROVE s[i] = (s[i - 1] + m[i].len_low) % Bytes
    <3>1. i \in 0 .. n /\ i # 0  BY <1>1
    <3> QED BY <2>2, <3>1
  <2> QED BY <2>3, <2>4
<1>9. 0 \in S  BY <1>8
<1>10. ASSUME NEW k \in Nat, k \in S PROVE k + 1 \in S
  <2> SUFFICES ASSUME k + 1 <= n PROVE s[k + 1] \in Nat  OBVIOUS
  <2>1. k + 1 \in 1 .. n /\ (k + 1) - 1 = k /\ s[k] \in Nat  BY <1>10
  <2>2. s[k + 1] = (s[k] + m[k + 1].len_low) % Bytes  BY <1>8, <2>1
  <2> QED BY <1>1, <2>1, <2>2, Fields
<1>11. S = Nat
  <2> HIDE DEF S
  <2>1. S \in SUBSET Nat  BY DEF S
  <2> QED BY <1>9, <1>10, <2>1, Counting
<1>12. s[n] \in Nat  BY <1>11
<1> QED BY <1>12 DEF installed_memory, s
-----------------------------------------------------------------------------
(***************************************************************************)
(* Arithmetic, and sets of frames.                                         *)
(***************************************************************************)
\* What the counters and the map's size are computed with stays in range.
LEMMA Remainder == ASSUME NEW x \in Int PROVE x % Word \in 0 .. Word - 1
  BY MemoryAssumption

\* A size in pages is a natural number.
LEMMA Quotient == ASSUME NEW x \in Nat PROVE x \div PageSize \in Nat
  BY MemoryAssumption

\* The map has a natural number of frames.
LEMMA MapSize == ASSUME NEW m \in MemoryMaps PROVE map_size(m) \in Nat
  BY MemoryAssumption, Quotient, InstalledMemory DEF WellFormed, map_size

\* A set of frames has a size.
LEMMA FramesFinite ==
  ASSUME NEW n \in Nat, NEW pages \in SUBSET (0 .. n - 1)
  PROVE  IsFiniteSet(pages) /\ Cardinality(pages) \in Nat
<1>1. IsFiniteSet(0 .. n - 1)  BY FS_Interval
<1>2. IsFiniteSet(pages)  BY <1>1, FS_Subset
<1> QED BY <1>2, FS_CardinalityType

\* The kernel does not lie in page 0.
LEMMA KernelAboveZero == 0 \notin KernelPages
<1>1. KernelStart \div PageSize >= 1  BY MemoryAssumption
<1> QED BY <1>1, MemoryAssumption, Quotient DEF KernelPages

\* generate_map leaves out the first frame of the region, so page 0 is never freed.
LEMMA UsableAboveZero ==
  ASSUME NEW m \in MemoryMaps PROVE 0 \notin usable_frames(m)
<1>1. usable_region(m).start \div PageSize \in Nat
  BY MemoryAssumption, Quotient, UsableRegion DEF WellFormed
<1> QED BY <1>1, MemoryAssumption DEF usable_frames
-----------------------------------------------------------------------------
(***************************************************************************)
(* The inductive invariant.                                                *)
(***************************************************************************)
\* Before the set-up there are no frames.
LEMMA InitIInv == Init => IInv
<1> SUFFICES ASSUME Init PROVE IInv  OBVIOUS
<1>1. Frames = {}  BY DEF Init, Frames
<1>2. TypeOK
  <2>1. map \in [{} -> Statuses]  BY DEF Init
  <2>2. placement_adr \in Nat  BY MemoryAssumption DEF Init
  <2>3. 0 \in 0 .. Word - 1  BY MemoryAssumption
  <2> QED BY <1>1, <2>1, <2>2, <2>3 DEF Init, TypeOK, Statuses, NULL
<1>3. KernelLocked /\ HeldIsLocked  BY DEF Init, KernelLocked, HeldIsLocked
<1>4. PageZeroNotFree  BY <1>1 DEF PageZeroNotFree, With
<1> QED BY <1>2, <1>3, <1>4 DEF IInv

\* The frames of the map, and what the invariant says of them in terms of 0 .. n - 1.
LEMMA FramesOfMap ==
  ASSUME TypeOK, ready
  PROVE  /\ map_size(mmap) \in Nat /\ Frames = 0 .. map_size(mmap) - 1
         /\ map \in [Frames -> Statuses] /\ KernelPages \subseteq Frames
<1>1. mmap \in MemoryMaps  BY DEF TypeOK
<1>2. map \in [0 .. map_size(mmap) - 1 -> Statuses]  BY DEF TypeOK, Statuses
<1>3. KernelPages \subseteq 0 .. map_size(mmap) - 1  BY <1>1, MemoryAssumption DEF WellFormed
<1> QED BY <1>1, <1>2, <1>3, MapSize DEF Frames

\* page_frame_allocator_init locks the kernel's frames and nobody else's.
LEMMA InitStep == IInv /\ page_frame_allocator_init => IInv'
<1> SUFFICES ASSUME IInv, page_frame_allocator_init PROVE IInv'  OBVIOUS
<1> DEFINE frames == 0 .. map_size(mmap) - 1
           usable == usable_frames(mmap) \cap frames
<1>1. /\ ~ready /\ ready' = TRUE /\ mmap' = mmap /\ mmap \in MemoryMaps
      /\ UNCHANGED <<answer, held, withdrawn>>
  BY DEF page_frame_allocator_init, IInv, TypeOK, callers
<1>2. map' = [p \in frames |-> IF p \in KernelPages THEN PAGE_LOCKED
                               ELSE IF p \in usable THEN PAGE_FREE ELSE PAGE_RESERVED]
  BY DEF page_frame_allocator_init
<1>3. map_size(mmap) \in Nat /\ KernelPages \subseteq frames
  BY <1>1, MapSize, MemoryAssumption DEF WellFormed
<1>4. Frames' = frames /\ map' \in [frames -> Statuses]  BY <1>2 DEF Frames, Statuses
<1>5. held = {} /\ withdrawn = {}  BY <1>1 DEF IInv, TypeOK, Frames
<1>6. TypeOK'
  <2>1. Cardinality(usable) \in Nat /\ Cardinality(KernelPages) \in Nat
    BY <1>3, FramesFinite
  <2>2. /\ usable_memory' \in 0 .. Word - 1 /\ reserved_memory' \in 0 .. Word - 1
        /\ free_memory' \in 0 .. Word - 1 /\ used_memory' \in 0 .. Word - 1
    <3>1. /\ usable_memory' = Cardinality(usable) % Word
          /\ reserved_memory' = (map_size(mmap) - Cardinality(usable)) % Word
          /\ free_memory' = (Cardinality(usable) - Cardinality(KernelPages)) % Word
          /\ used_memory' = Cardinality(KernelPages) % Word
      BY DEF page_frame_allocator_init
    <3> HIDE DEF usable
    <3> QED BY <2>1, <1>3, <3>1, Remainder
  <2>3. placement_adr' \in Nat /\ block' \in [start : Nat, size : Nat]
    BY <1>3 DEF page_frame_allocator_init, kmalloc, aligned, IInv, TypeOK
  <2>4. map' \in [IF ready' THEN 0 .. map_size(mmap') - 1 ELSE {} -> Statuses]
    BY <1>1, <1>4
  <2> QED BY <1>1, <1>5, <2>2, <2>3, <2>4 DEF IInv, TypeOK, Statuses
<1>7. KernelLocked'  BY <1>2, <1>3 DEF KernelLocked
<1>8. HeldIsLocked'  BY <1>1, <1>5 DEF HeldIsLocked
<1>9. PageZeroNotFree'
  <2>1. 0 \notin usable  BY <1>1, UsableAboveZero
  <2> HIDE DEF usable
  <2> QED BY <1>2, <1>4, <2>1, KernelAboveZero
    DEF PageZeroNotFree, With, PAGE_FREE, PAGE_LOCKED, PAGE_RESERVED
<1> QED BY <1>6, <1>7, <1>8, <1>9 DEF IInv

\* Changing the status of frames that are neither the kernel's nor page 0 keeps the
\* invariant, provided the callers' frames and the withdrawn ones are kept in step.
LEMMA StatusStep ==
  ASSUME IInv, ready, NEW pages \in SUBSET Frames, NEW status \in Statuses,
         set_status(pages, status), UNCHANGED <<mmap, ready, placement_adr, block>>,
         pages \cap KernelPages = {}, 0 \notin pages,
         /\ free_memory' \in 0 .. Word - 1 /\ used_memory' \in 0 .. Word - 1
         /\ reserved_memory' \in 0 .. Word - 1 /\ usable_memory' \in 0 .. Word - 1,
         answer' \in Nat,
         held' \subseteq held \cup pages, withdrawn' \subseteq withdrawn \cup pages,
         status # PAGE_LOCKED => held' \cap pages = {},
         status # PAGE_RESERVED => withdrawn' \cap pages = {}
  PROVE  IInv'
<1>1. /\ map_size(mmap) \in Nat /\ Frames = 0 .. map_size(mmap) - 1
      /\ map \in [Frames -> Statuses] /\ KernelPages \subseteq Frames
  BY FramesOfMap DEF IInv
<1>2. map' = [p \in Frames |-> IF p \in pages THEN status ELSE map[p]]  BY DEF set_status
<1>3. Frames' = Frames /\ map' \in [Frames -> Statuses]  BY <1>1, <1>2 DEF Frames
<1>4. TypeOK'
  <2>1. map' \in [IF ready' THEN 0 .. map_size(mmap') - 1 ELSE {} -> Statuses]
    BY <1>1, <1>3
  <2>2. held' \subseteq Frames /\ withdrawn' \subseteq Frames  BY DEF IInv, TypeOK
  <2> QED BY <1>3, <2>1, <2>2 DEF IInv, TypeOK, Statuses
<1>5. KernelLocked'  BY <1>1, <1>2 DEF IInv, KernelLocked
<1>6. HeldIsLocked'
  <2>1. ASSUME NEW p \in held' PROVE map'[p] = PAGE_LOCKED /\ p \notin KernelPages /\ p # 0
    <3>1. CASE p \in pages  BY <1>2, <2>1, <3>1
    <3>2. CASE p \notin pages  BY <1>2, <2>1, <3>2 DEF IInv, HeldIsLocked, TypeOK
    <3> QED BY <3>1, <3>2
  <2>2. ASSUME NEW p \in withdrawn' PROVE map'[p] = PAGE_RESERVED
    <3>1. CASE p \in pages  BY <1>2, <2>2, <3>1
    <3>2. CASE p \notin pages  BY <1>2, <2>2, <3>2 DEF IInv, HeldIsLocked, TypeOK
    <3> QED BY <3>1, <3>2
  <2> QED BY <2>1, <2>2 DEF HeldIsLocked
<1>7. PageZeroNotFree'  BY <1>2, <1>3 DEF IInv, PageZeroNotFree, With
<1> QED BY <1>4, <1>5, <1>6, <1>7 DEF IInv

\* The counters stay size_t values.
LEMMA CountersStay ==
  ASSUME TypeOK, ready, NEW pages \in SUBSET Frames,
         lock_pages(pages) \/ free_pages(pages) \/ reserve_pages(pages)
  PROVE  /\ free_memory' \in 0 .. Word - 1 /\ used_memory' \in 0 .. Word - 1
         /\ reserved_memory' \in 0 .. Word - 1 /\ usable_memory' \in 0 .. Word - 1
<1>1. Cardinality(pages) \in Nat  BY FramesOfMap, FramesFinite
<1> DEFINE n == Cardinality(pages)
<1>2. /\ (free_memory - n) % Word \in 0 .. Word - 1 /\ (free_memory + n) % Word \in 0 .. Word - 1
      /\ (used_memory - n) % Word \in 0 .. Word - 1 /\ (used_memory + n) % Word \in 0 .. Word - 1
      /\ (reserved_memory + n) % Word \in 0 .. Word - 1
      /\ (usable_memory - n) % Word \in 0 .. Word - 1
  <2> HIDE DEF n
  <2>1. /\ n \in Int /\ free_memory \in Int /\ used_memory \in Int
        /\ reserved_memory \in Int /\ usable_memory \in Int
    BY <1>1, MemoryAssumption DEF n, TypeOK
  <2> QED BY <2>1, Remainder
<1> QED BY <1>2 DEF lock_pages, free_pages, reserve_pages, TypeOK

\* Frames that are free are neither the kernel's nor held nor withdrawn.
LEMMA FreeFrames ==
  ASSUME IInv, ready
  PROVE  /\ With(PAGE_FREE) \subseteq Frames /\ 0 \notin With(PAGE_FREE)
         /\ With(PAGE_FREE) \cap (KernelPages \cup held \cup withdrawn) = {}
  BY DEF IInv, KernelLocked, HeldIsLocked, PageZeroNotFree, With, PAGE_FREE, PAGE_LOCKED,
     PAGE_RESERVED

\* Locking free frames for a caller.
LEMMA LockStep ==
  ASSUME IInv, ready, NEW pages \in SUBSET With(PAGE_FREE), lock_pages(pages),
         unchanged_heap, answer' \in Nat, held' = held \cup pages, withdrawn' = withdrawn
  PROVE  IInv'
<1>1. pages \subseteq Frames /\ 0 \notin pages /\ pages \cap (KernelPages \cup withdrawn) = {}
  BY FreeFrames
<1>2. PAGE_LOCKED \in Statuses  BY DEF Statuses
<1> QED BY <1>1, <1>2, StatusStep, CountersStay DEF lock_pages, unchanged_heap, IInv

\* request_page locks the lowest free frame, or changes nothing.
LEMMA RequestStep == IInv /\ ready /\ request_page => IInv'
<1> SUFFICES ASSUME IInv, ready, request_page PROVE IInv'  OBVIOUS
<1> DEFINE free == With(PAGE_FREE)
<1>1. CASE free # {}
  <2>1. free \subseteq Nat  BY FramesOfMap, FreeFrames DEF IInv
  <2>2. lowest(free) \in free  BY <1>1, <2>1, LowestExists
  <2>3. /\ lock_pages({lowest(free)}) /\ answer' = lowest(free) * PageSize
        /\ held' = held \cup {lowest(free)} /\ withdrawn' = withdrawn /\ unchanged_heap
    BY <1>1 DEF request_page
  <2>4. answer' \in Nat  BY <2>1, <2>2, <2>3, MemoryAssumption
  <2> HIDE DEF free
  <2>5. {lowest(free)} \in SUBSET free  BY <2>2
  <2> QED BY <2>3, <2>4, <2>5, LockStep DEF free
<1>2. CASE free = {}
  <2>1. answer' = 0 /\ UNCHANGED <<map, counters, callers, mmap, ready, placement_adr, block>>
    BY <1>2 DEF request_page, unchanged_heap, NULL
  <2> QED BY <2>1 DEF counters, callers, IInv, TypeOK, KernelLocked, HeldIsLocked, PageZeroNotFree,
       With, Frames
<1> QED BY <1>1, <1>2

\* Whatever a caller does with frames it may name.
LEMMA CallerStep == IInv /\ Caller => IInv'
<1> SUFFICES ASSUME IInv, Caller PROVE IInv'  OBVIOUS
<1>1. ready  BY DEF Caller
<1>2. CASE request_page  BY <1>1, <1>2, RequestStep
<1>3. ASSUME NEW pages \in Runs(With(PAGE_FREE)), Lock(pages) PROVE IInv'
  <2>1. pages \in SUBSET With(PAGE_FREE)  BY <1>3 DEF Runs
  <2>2. answer' \in Nat  BY <1>3 DEF Lock, IInv, TypeOK
  <2> QED BY <1>1, <1>3, <2>1, <2>2, LockStep DEF Lock
<1>4. ASSUME NEW pages \in Runs(With(PAGE_FREE)), Reserve(pages) PROVE IInv'
  <2>1. pages \in SUBSET With(PAGE_FREE)  BY <1>4 DEF Runs
  <2>2. pages \subseteq Frames /\ 0 \notin pages /\ pages \cap (KernelPages \cup held) = {}
    BY <1>1, <2>1, FreeFrames
  <2>3. PAGE_RESERVED \in Statuses  BY DEF Statuses
  <2>4. answer' \in Nat  BY <1>4 DEF Reserve, IInv, TypeOK
  <2> QED BY <1>1, <1>4, <2>2, <2>3, <2>4, StatusStep, CountersStay
    DEF Reserve, reserve_pages, unchanged_heap, IInv
<1>5. ASSUME NEW pages \in Runs(held), Free(pages) PROVE IInv'
  <2>1. pages \subseteq held  BY <1>5 DEF Runs
  <2>2. pages \subseteq Frames /\ 0 \notin pages /\ pages \cap (KernelPages \cup withdrawn) = {}
    BY <2>1 DEF IInv, TypeOK, HeldIsLocked, PAGE_LOCKED, PAGE_RESERVED
  <2>3. PAGE_FREE \in Statuses  BY DEF Statuses
  <2>4. answer' \in Nat  BY <1>5 DEF Free, IInv, TypeOK
  <2> QED BY <1>1, <1>5, <2>2, <2>3, <2>4, StatusStep, CountersStay
    DEF Free, free_pages, unchanged_heap, IInv
<1>6. ASSUME NEW size \in BlockSizes, NEW align \in BOOLEAN, Kmalloc(size, align) PROVE IInv'
  <2>1. placement_adr' \in Nat /\ block' \in [start : Nat, size : Nat]
    <3>1. size \in Nat /\ placement_adr \in Nat  BY MemoryAssumption DEF IInv, TypeOK
    <3>2. aligned(placement_adr, align) \in Nat
      <4>1. placement_adr % PageSize \in Int /\ placement_adr % PageSize <= placement_adr
        BY <3>1, MemoryAssumption
      <4> QED BY <3>1, <4>1, MemoryAssumption DEF aligned
    <3> QED BY <1>6, <3>1, <3>2 DEF Kmalloc, kmalloc
  <2> QED BY <1>6, <2>1 DEF Kmalloc, counters, callers, IInv, TypeOK, KernelLocked, HeldIsLocked,
     PageZeroNotFree, With, Frames
<1> QED BY <1>2, <1>3, <1>4, <1>5, <1>6 DEF Caller

\* No step of the set-up or of a caller leaves the invariant.
THEOREM NextIInv == IInv /\ [Next]_vars => IInv'
<1> SUFFICES ASSUME IInv, [Next]_vars PROVE IInv'  OBVIOUS
<1>1. CASE page_frame_allocator_init  BY <1>1, InitStep
<1>2. CASE Caller  BY <1>2, CallerStep
<1>3. CASE UNCHANGED vars
  BY <1>3 DEF vars, counters, callers, IInv, TypeOK, KernelLocked, HeldIsLocked, PageZeroNotFree,
     With, Frames
<1> QED BY <1>1, <1>2, <1>3 DEF Next

\* The inductive invariant holds of every run of the allocator and its callers.
THEOREM Invariance == Spec => []IInv
  BY InitIInv, NextIInv, PTL DEF Spec
-----------------------------------------------------------------------------
\* The counters are size_t values and the map has a status for every frame.
THEOREM TypeCorrect == Spec => []TypeOK
<1>1. IInv => TypeOK  BY DEF IInv
<1> QED BY Invariance, <1>1, PTL

\* The kernel's frames stay locked (lock_pages at the end of the allocator's set-up).
THEOREM KernelStaysLocked == Spec => []KernelLocked
<1>1. IInv => KernelLocked  BY DEF IInv
<1> QED BY Invariance, <1>1, PTL

\* A frame handed out by request_page or taken with lock_page is locked until its
\* caller frees it, so no second caller is given it.
THEOREM FramesExclusive == Spec => []HeldIsLocked
<1>1. IInv => HeldIsLocked  BY DEF IInv
<1> QED BY Invariance, <1>1, PTL

\* request_page returns NULL only if no frame is free: no free frame is page 0.
THEOREM NullIsOutOfRam == Spec => NullMeansOutOfRam
<1>1. IInv /\ [Next]_vars => [ready /\ request_page /\ answer' = NULL => With(PAGE_FREE) = {}]_vars
  <2> SUFFICES ASSUME IInv, ready, request_page, answer' = NULL, With(PAGE_FREE) # {}
               PROVE  FALSE
    OBVIOUS
  <2>1. With(PAGE_FREE) \subseteq Nat  BY FramesOfMap, FreeFrames DEF IInv
  <2>2. lowest(With(PAGE_FREE)) \in With(PAGE_FREE)  BY <2>1, LowestExists
  <2>3. lowest(With(PAGE_FREE)) \in Nat \ {0}  BY <2>1, <2>2, FreeFrames
  <2>4. lowest(With(PAGE_FREE)) * PageSize = 0  BY DEF request_page, NULL
  <2> QED BY <2>3, <2>4, MemoryAssumption
<1> QED BY Invariance, <1>1, PTL DEF Spec, NullMeansOutOfRam

\* Every block kmalloc hands out starts behind all it handed out before.
THEOREM BlocksStayDisjoint == Spec => BlocksDisjoint
<1> DEFINE Behind == block' # block => block'.start >= placement_adr
                                       /\ placement_adr' = block'.start + block'.size
<1>1. IInv /\ [Next]_vars => [Behind]_vars
  <2> SUFFICES ASSUME IInv, Next PROVE Behind  BY DEF vars
  <2>1. ASSUME NEW size, NEW align \in BOOLEAN, kmalloc(size, align) PROVE Behind
    <3>1. placement_adr \in Nat /\ placement_adr % PageSize \in 0 .. PageSize - 1
      BY MemoryAssumption DEF IInv, TypeOK
    <3>2. aligned(placement_adr, align) >= placement_adr  BY <3>1, MemoryAssumption DEF aligned
    <3> QED BY <2>1, <3>2 DEF kmalloc
  <2>2. CASE page_frame_allocator_init  BY <2>1, <2>2 DEF page_frame_allocator_init
  <2>3. CASE Caller
    BY <2>1, <2>3 DEF Caller, Kmalloc, request_page, Lock, Free, Reserve, unchanged_heap
  <2> QED BY <2>2, <2>3 DEF Next
<1> QED BY Invariance, <1>1, PTL DEF Spec, BlocksDisjoint
-----------------------------------------------------------------------------
(***************************************************************************)
(* The frames given out are memory.                                        *)
(***************************************************************************)
\* A frame behind the first of an extent, of which the frames are counted rounded down.
LEMMA FrameInside ==
  ASSUME NEW start \in Nat, NEW len \in Nat, NEW p \in Int,
         start \div PageSize + 1 <= p, p <= start \div PageSize + (len \div PageSize - 1)
  PROVE  start <= p * PageSize /\ (p + 1) * PageSize <= start + len
<1> DEFINE P == PageSize
           a == start \div P
           b == len \div P
<1>1. P \in Nat /\ P > 0  BY MemoryAssumption
<1> HIDE DEF P
<1>2. /\ a \in Int /\ start % P \in 0 .. P - 1 /\ start = P * a + (start % P)
      /\ b \in Int /\ len % P \in 0 .. P - 1 /\ len = P * b + (len % P)
  BY <1>1
<1>3. a + 1 <= p /\ p + 1 <= a + b  BY <1>2 DEF P, a, b
<1> HIDE DEF a, b
<1>4. P * (a + 1) <= P * p /\ P * (p + 1) <= P * (a + b)
  <2>1. ASSUME NEW x \in Int, NEW y \in Int, x <= y PROVE P * x <= P * y
    BY <1>1, <2>1
  <2>2. a + 1 \in Int /\ p + 1 \in Int /\ a + b \in Int  BY <1>2
  <2> QED BY <1>3, <2>1, <2>2
<1>5. P * (a + 1) = P * a + P /\ P * (a + b) = P * a + P * b  BY <1>1, <1>2
<1>6. P * p = p * P /\ P * (p + 1) = (p + 1) * P  BY <1>1
<1> HIDE DEF P
<1>7. start <= P * p
  <2>1. start <= P * a + P /\ P * a + P <= P * p  BY <1>1, <1>2, <1>4, <1>5
  <2> QED BY <1>1, <1>2, <2>1
<1>8. P * (p + 1) <= start + len
  <2>1. P * a <= start /\ P * b <= len  BY <1>1, <1>2
  <2> QED BY <1>1, <1>2, <1>4, <1>5, <2>1
<1> QED BY <1>6, <1>7, <1>8 DEF P

\* The region a frame lies in, from its first byte to its last.
Inside(m, i, p) ==
  /\ m[i].type = "available"
  /\ address(m[i]) <= p * PageSize /\ (p + 1) * PageSize <= address(m[i]) + length(m[i])

\* A region that starts below 4 GB starts at addr_low, and is at least len_low long.
LEMMA RealExtent ==
  ASSUME NEW r \in Region, r.addr_high = 0
  PROVE  address(r) = r.addr_low /\ length(r) \in Nat /\ r.len_low <= length(r)
<1>1. r.addr_low \in Nat /\ r.len_low \in Nat /\ r.len_high \in Nat  BY RegionFields
<1> DEFINE rest == r.len_high * Bytes
<1>2. rest \in Nat /\ 0 * Bytes = 0  BY <1>1, Fields
<1> HIDE DEF rest
<1>3. address(r) = 0 + r.addr_low /\ length(r) = rest + r.len_low
  BY <1>2 DEF address, length, rest
<1> QED BY <1>1, <1>2, <1>3

\* With all available regions below 4 GB, generate_map frees frames of one of them.
LEMMA UsableIsAvailable ==
  ASSUME NEW m \in MemoryMaps, NEW p \in usable_frames(m),
         \A i \in DOMAIN m : m[i].type = "available" => m[i].addr_high = 0
  PROVE  \E i \in DOMAIN m : Inside(m, i, p)
<1> DEFINE r == usable_region(m)
<1>1. m \in Seq(Region) /\ r.len >= PageSize /\ r.start \in Nat /\ r.len \in Nat
  BY MemoryAssumption, UsableRegion DEF WellFormed
<1>2. PICK i \in DOMAIN m : m[i].type = "available" /\ r = ExtentOf(m[i])
  <2>1. r # NoExtent  BY <1>1, MemoryAssumption DEF NoExtent
  <2> QED BY <1>1, <2>1, ScanTakes
<1>3. r.start = m[i].addr_low /\ r.len = m[i].len_low  BY <1>2 DEF ExtentOf
<1> HIDE DEF r
<1>4. r.start <= p * PageSize /\ (p + 1) * PageSize <= r.start + r.len
  <2> DEFINE a == r.start \div PageSize
             b == r.len \div PageSize
  <2>1. a \in Nat /\ b \in Nat  BY <1>1, Quotient
  <2>2. p \in a + 1 .. (a + 1) + (b - 1) - 1  BY DEF usable_frames, r
  <2> HIDE DEF a, b
  <2>3. p \in Int /\ a + 1 <= p /\ p <= a + (b - 1)  BY <2>1, <2>2
  <2> QED BY <1>1, <2>3, FrameInside DEF a, b
<1>5. m[i] \in Region /\ m[i].addr_high = 0  BY <1>1, <1>2
<1>6. address(m[i]) = r.start /\ length(m[i]) \in Nat /\ r.len <= length(m[i])
  BY <1>3, <1>5, RealExtent
<1>7. p * PageSize \in Int /\ (p + 1) * PageSize \in Int
  <2>1. p \in Int /\ p + 1 \in Int /\ PageSize \in Int
    <3>1. r.start \div PageSize \in Nat /\ r.len \div PageSize \in Nat  BY <1>1, Quotient
    <3> QED BY <3>1, MemoryAssumption DEF usable_frames, r
  <2> QED BY <2>1
<1>8. (p + 1) * PageSize <= address(m[i]) + length(m[i])
  BY <1>1, <1>4, <1>6, <1>7
<1> QED BY <1>2, <1>4, <1>6, <1>8 DEF Inside

\* Callers only ever move frames of that region.
InRegion == With(PAGE_FREE) \cup held \cup withdrawn \subseteq usable_frames(mmap)

LEMMA NextInRegion == IInv /\ InRegion /\ [Next]_vars => InRegion'
<1> SUFFICES ASSUME IInv, InRegion, [Next]_vars PROVE InRegion'  OBVIOUS
<1>1. CASE page_frame_allocator_init
  <2>1. mmap' = mmap /\ held' = held /\ withdrawn' = withdrawn
    BY <1>1 DEF page_frame_allocator_init, callers
  <2>2. With(PAGE_FREE)' \subseteq usable_frames(mmap)
    BY <1>1 DEF page_frame_allocator_init, With, Frames, PAGE_FREE, PAGE_LOCKED, PAGE_RESERVED
  <2> QED BY <2>1, <2>2 DEF InRegion
<1>2. ASSUME NEW pages \in SUBSET usable_frames(mmap), NEW status, set_status(pages, status),
             mmap' = mmap, held' \subseteq held \cup pages, withdrawn' \subseteq withdrawn \cup pages
      PROVE  InRegion'
  <2>1. With(PAGE_FREE)' \subseteq With(PAGE_FREE) \cup pages
    BY <1>2 DEF set_status, With, Frames
  <2> QED BY <1>2, <2>1 DEF InRegion
<1>3. CASE UNCHANGED <<mmap, map, held, withdrawn>>  BY <1>3 DEF InRegion, With, Frames
<1>4. CASE Caller
  <2>1. ready  BY <1>4 DEF Caller
  <2>2. CASE request_page
    <3>1. CASE With(PAGE_FREE) # {}
      <4>1. With(PAGE_FREE) \subseteq Nat  BY <2>1, FramesOfMap, FreeFrames DEF IInv
      <4>2. {lowest(With(PAGE_FREE))} \in SUBSET usable_frames(mmap)
        BY <3>1, <4>1, LowestExists DEF InRegion
      <4> QED BY <1>2, <2>2, <3>1, <4>2 DEF request_page, lock_pages, unchanged_heap
    <3>2. CASE With(PAGE_FREE) = {}
      BY <1>3, <2>2, <3>2 DEF request_page, unchanged_heap, callers
    <3> QED BY <3>1, <3>2
  <2>3. ASSUME NEW pages \in Runs(With(PAGE_FREE)), Lock(pages) \/ Reserve(pages) PROVE InRegion'
    <3>1. pages \in SUBSET usable_frames(mmap)  BY DEF Runs, InRegion
    <3> QED BY <1>2, <2>3, <3>1 DEF Lock, Reserve, lock_pages, reserve_pages, unchanged_heap
  <2>4. ASSUME NEW pages \in Runs(held), Free(pages) PROVE InRegion'
    <3>1. pages \in SUBSET usable_frames(mmap)  BY DEF Runs, InRegion
    <3> QED BY <1>2, <2>4, <3>1 DEF Free, free_pages, unchanged_heap
  <2>5. ASSUME NEW size, NEW align, Kmalloc(size, align) PROVE InRegion'
    BY <1>3, <2>5 DEF Kmalloc, callers
  <2> QED BY <1>4, <2>2, <2>3, <2>4, <2>5 DEF Caller
<1>5. CASE UNCHANGED vars  BY <1>3, <1>5 DEF vars, callers
<1> QED BY <1>1, <1>4, <1>5 DEF Next

\* With every available region below 4 GB, a frame that is free, held or withdrawn lies
\* in one of them, wherever the map has its holes, however a region is aligned, and
\* whatever lies above.
THEOREM FramesAreMemory == Spec => []FreeIsAvailable
<1>1. Init => InRegion  BY DEF Init, InRegion, With, Frames
<1>2. IInv /\ InRegion => FreeIsAvailable
  <2>1. IInv => mmap \in MemoryMaps  BY DEF IInv, TypeOK
  <2> QED BY <2>1, UsableIsAvailable
    DEF InRegion, Inside, FreeIsAvailable, AvailableBelow4G
<1> QED BY Invariance, NextInRegion, <1>1, <1>2, PTL DEF Spec
-----------------------------------------------------------------------------
(***************************************************************************)
(* The counters.  They are kept modulo Word, apart from the map.           *)
(***************************************************************************)
\* Division with a remainder.
LEMMA Division ==
  ASSUME NEW z \in Int
  PROVE  /\ z \div Word \in Int /\ z % Word \in 0 .. Word - 1
         /\ z = Word * (z \div Word) + (z % Word)
<1>1. Word \in Nat /\ Word > 0  BY MemoryAssumption
<1>2. z \div Word \in Int /\ z = Word * (z \div Word) + (z % Word)  BY <1>1
<1> QED BY <1>2, Remainder, Zenon

\* A quotient and a remainder are unique.
LEMMA RemainderIs ==
  ASSUME NEW z \in Int, NEW q \in Int, NEW r \in 0 .. Word - 1, z = Word * q + r
  PROVE  z % Word = r
<1>1. Word \in Nat /\ Word > 0  BY MemoryAssumption
<1> DEFINE p == z \div Word
           s == z % Word
<1>2. p \in Int /\ s \in Int /\ 0 <= s /\ s < Word /\ z = Word * p + s  BY <1>1
<1> HIDE DEF p, s
<1>3. Word * (p - q) = r - s  BY <1>1, <1>2
<1>4. ~(p - q >= 1)
  <2> SUFFICES ASSUME p - q >= 1 PROVE FALSE  OBVIOUS
  <2>1. Word * (p - q) >= Word  BY <1>1, <1>2
  <2> QED BY <1>1, <1>2, <1>3, <2>1
<1>5. ~(q - p >= 1)
  <2> SUFFICES ASSUME q - p >= 1 PROVE FALSE  OBVIOUS
  <2>1. Word * (q - p) >= Word  BY <1>1, <1>2
  <2>2. Word * (q - p) = s - r  BY <1>1, <1>2, <1>3
  <2> QED BY <1>1, <1>2, <2>1, <2>2
<1>6. p = q  BY <1>2, <1>4, <1>5
<1>7. s = r  BY <1>1, <1>2, <1>6
<1> QED BY <1>7 DEF s

\* Counting on from a count that has wrapped.
LEMMA CountOn ==
  ASSUME NEW a \in Int, NEW b \in Int
  PROVE  ((a % Word) + b) % Word = (a + b) % Word
<1>1. Word \in Nat /\ Word > 0  BY MemoryAssumption
<1> DEFINE q == a \div Word
           x == (a % Word) + b
           p == x \div Word
           r == x % Word
           m == a % Word
<1>2. q \in Int /\ m \in 0 .. Word - 1 /\ a = Word * q + m  BY Division, Zenon
<1> HIDE DEF q, m
<1>3. x \in Int /\ x = m + b  BY <1>2, <1>1 DEF m
<1> HIDE DEF x
<1>4. p \in Int /\ r \in 0 .. Word - 1 /\ x = Word * p + r  BY <1>3, Division, Zenon
<1> HIDE DEF p, r
<1>5. a + b = Word * q + x
  <2> DEFINE u == Word * q
  <2>1. u \in Int /\ a = u + m /\ m \in Int  BY <1>1, <1>2
  <2> HIDE DEF u
  <2>2. a + b = u + x  BY <1>3, <2>1
  <2> QED BY <2>2 DEF u
<1>6. Word * q + Word * p = Word * (q + p)  BY <1>1, <1>2, <1>4
<1>7. a + b = Word * (q + p) + r
  <2> DEFINE u == Word * q
             v == Word * p
             w == Word * (q + p)
  <2>1. u \in Int /\ v \in Int /\ w \in Int  BY <1>1, <1>2, <1>4
  <2> HIDE DEF u, v, w
  <2>2. a + b = u + x /\ x = v + r /\ u + v = w  BY <1>4, <1>5, <1>6 DEF u, v, w
  <2>3. a + b = w + r  BY <1>3, <1>4, <2>1, <2>2
  <2> QED BY <2>3 DEF w
<1>8. (a + b) % Word = r
  <2>1. a + b \in Int /\ q + p \in Int  BY <1>2, <1>4
  <2> QED BY <1>4, <1>7, <2>1, RemainderIs
<1> QED BY <1>8 DEF r, x

\* What the counters of a set of frames say, and how many of the kernel's frames lie
\* outside the free range.
FreeCount == Cardinality(With(PAGE_FREE))
LockedCount == Cardinality(With(PAGE_LOCKED))
Outside == Cardinality(KernelPages \ usable_frames(mmap))

CountInv == UsedIsLocked /\ FreeDrift

\* Sets of frames have sizes.
LEMMA FrameSets ==
  ASSUME TypeOK, ready
  PROVE  \A S \in SUBSET Frames : IsFiniteSet(S) /\ Cardinality(S) \in Nat
BY FramesOfMap, FramesFinite

\* Moving a run of frames from one status to another moves its length.
LEMMA Joined ==
  ASSUME NEW S, NEW pages, IsFiniteSet(S), IsFiniteSet(pages), S \cap pages = {}
  PROVE  Cardinality(S \cup pages) = Cardinality(S) + Cardinality(pages)
<1>1. Cardinality(S \cup pages) = Cardinality(S) + Cardinality(pages) - Cardinality(S \cap pages)
  BY FS_Union
<1>2. Cardinality(S \cap pages) = 0  BY FS_EmptySet
<1>3. Cardinality(S) \in Nat /\ Cardinality(pages) \in Nat  BY FS_CardinalityType
<1> QED BY <1>1, <1>2, <1>3

LEMMA Parted ==
  ASSUME NEW S, NEW pages \in SUBSET S, IsFiniteSet(S)
  PROVE  Cardinality(S \ pages) = Cardinality(S) - Cardinality(pages)
<1>1. Cardinality(S \ pages) = Cardinality(S) - Cardinality(S \cap pages)  BY FS_Difference
<1>2. S \cap pages = pages  OBVIOUS
<1> QED BY <1>1, <1>2

\* Which frames have which status after a change.
LEMMA StatusMoved ==
  ASSUME TypeOK, ready, NEW pages \in SUBSET Frames, NEW status \in Statuses,
         set_status(pages, status)
  PROVE  /\ With(status)' = With(status) \cup pages
         /\ \A other \in Statuses : other # status => With(other)' = With(other) \ pages
<1>1. map' = [p \in Frames |-> IF p \in pages THEN status ELSE map[p]]  BY DEF set_status
<1>2. Frames' = Frames  BY <1>1 DEF Frames
<1> QED BY <1>1, <1>2 DEF With

\* The counters after a change of the map, if they count it.
LEMMA Counted ==
  ASSUME IInv, IInv', CountInv, ready, UNCHANGED <<mmap, ready>>, NEW n \in Int,
         NEW l \in Int, l = LockedCount, LockedCount' = l + n,
         used_memory' = (used_memory + n) % Word, NEW d \in Int,
         NEW f \in Int, f = FreeCount, NEW w \in Int, w = Cardinality(withdrawn),
         NEW f2 \in Int, f2 = FreeCount', NEW w2 \in Int, w2 = Cardinality(withdrawn)',
         f2 + w2 = f + w + d, free_memory' = (free_memory + d) % Word
  PROVE  CountInv'
<1>1. UsedIsLocked'
  <2>1. used_memory' = ((l % Word) + n) % Word
    BY DEF CountInv, UsedIsLocked, LockedCount
  <2>2. used_memory' = (l + n) % Word  BY <2>1, CountOn
  <2> QED BY <2>2 DEF UsedIsLocked, LockedCount
<1>2. FreeDrift'
  <2>1. Outside \in Int /\ Outside' = Outside
    <3>1. KernelPages \ usable_frames(mmap) \subseteq Frames  BY FramesOfMap DEF IInv
    <3>2. Outside \in Nat  BY <3>1, FrameSets DEF IInv, Outside
    <3> QED BY <3>2 DEF Outside
  <2> DEFINE a == f + (w - Outside)
  <2>2. a \in Int  BY <2>1
  <2>3. free_memory = (f + (w - Outside)) % Word
    BY DEF CountInv, FreeDrift, FreeCount, Outside
  <2>4. free_memory' = ((a % Word) + d) % Word  BY <2>3
  <2>5. free_memory' = (a + d) % Word  BY <2>2, <2>4, CountOn, Zenon
  <2>6. a + d = f2 + (w2 - Outside)  BY <2>1
  <2>7. free_memory' = (f2 + (w2 - Outside')) % Word  BY <2>1, <2>5, <2>6, Zenon
  <2> QED BY <2>7 DEF FreeDrift, FreeCount, Outside
<1> QED BY <1>1, <1>2 DEF CountInv

\* Before the set-up nothing is counted.
LEMMA InitCountInv == Init => CountInv
<1> SUFFICES ASSUME Init PROVE CountInv  OBVIOUS
<1>1. With(PAGE_LOCKED) = {}  BY DEF Init, With, Frames
<1>2. 0 % Word = 0
  <2>1. 0 \in 0 .. Word - 1 /\ 0 = Word * 0 + 0  BY MemoryAssumption
  <2> QED BY <2>1, RemainderIs
<1> QED BY <1>1, <1>2, FS_EmptySet DEF Init, CountInv, UsedIsLocked, FreeDrift

\* After the set-up the kernel's frames are locked, and the free range is free but
\* for them.
LEMMA CountSetUp == IInv /\ IInv' /\ page_frame_allocator_init => CountInv'
<1> SUFFICES ASSUME IInv, IInv', page_frame_allocator_init PROVE CountInv'  OBVIOUS
<1> DEFINE frames == 0 .. map_size(mmap) - 1
           usable == usable_frames(mmap) \cap frames
<1>1. ~ready /\ mmap' = mmap /\ mmap \in MemoryMaps /\ withdrawn' = {}
  BY DEF page_frame_allocator_init, callers, IInv, TypeOK, Frames
<1>2. /\ map' = [p \in frames |-> IF p \in KernelPages THEN PAGE_LOCKED
                                  ELSE IF p \in usable THEN PAGE_FREE ELSE PAGE_RESERVED]
      /\ free_memory' = (Cardinality(usable) - Cardinality(KernelPages)) % Word
      /\ used_memory' = Cardinality(KernelPages) % Word
  BY DEF page_frame_allocator_init
<1>3. map_size(mmap) \in Nat /\ KernelPages \subseteq frames
  BY <1>1, MapSize, MemoryAssumption DEF WellFormed
<1>4. With(PAGE_LOCKED)' = KernelPages /\ With(PAGE_FREE)' = usable \ KernelPages
  <2>1. Frames' = frames  BY <1>2 DEF Frames
  <2>2. usable \subseteq frames  OBVIOUS
  <2> HIDE DEF usable, frames
  <2> QED BY <1>2, <1>3, <2>1, <2>2 DEF With, PAGE_FREE, PAGE_LOCKED, PAGE_RESERVED
<1>5. /\ IsFiniteSet(usable) /\ Cardinality(usable) \in Nat
      /\ IsFiniteSet(KernelPages) /\ Cardinality(KernelPages) \in Nat
  BY <1>3, FramesFinite
<1>6. UsedIsLocked'  BY <1>2, <1>4 DEF UsedIsLocked
<1>7. KernelPages \ usable_frames(mmap') = KernelPages \ usable  BY <1>1, <1>3
<1> HIDE DEF usable, frames
<1> DEFINE u == Cardinality(usable)
           k == Cardinality(KernelPages)
           c == Cardinality(KernelPages \cap usable)
           free == Cardinality(usable \ KernelPages)
           outside == Cardinality(KernelPages \ usable)
<1>8. free = u - c /\ outside = k - c
  <2>1. usable \cap KernelPages = KernelPages \cap usable  OBVIOUS
  <2> QED BY <1>5, <2>1, FS_Difference, Zenon
<1>9. u \in Nat /\ k \in Nat /\ c \in Nat
  <2>1. IsFiniteSet(KernelPages \cap usable)  BY <1>5, FS_Intersection
  <2> QED BY <1>5, <2>1, FS_CardinalityType
<1>10. FreeDrift'
  <2>1. Cardinality(withdrawn') = 0  BY <1>1, FS_EmptySet
  <2>2. u - k = free + 0 - outside
    <3> HIDE DEF u, k, c, free, outside
    <3> QED BY <1>8, <1>9
  <2> QED BY <1>2, <1>4, <1>7, <2>1, <2>2, Zenon DEF FreeDrift
<1> QED BY <1>6, <1>10 DEF CountInv

\* The sizes the counters stand for, before and after a call on some frames.
LEMMA CountsBefore ==
  ASSUME IInv, ready
  PROVE  /\ IsFiniteSet(With(PAGE_LOCKED)) /\ LockedCount \in Nat
         /\ IsFiniteSet(With(PAGE_FREE)) /\ FreeCount \in Nat
         /\ IsFiniteSet(withdrawn) /\ Cardinality(withdrawn) \in Nat
         /\ \A pages \in SUBSET Frames : IsFiniteSet(pages) /\ Cardinality(pages) \in Nat
BY FrameSets DEF IInv, TypeOK, With, FreeCount, LockedCount

\* Locking free frames takes them off the free count and adds them to the used one.
LEMMA CountLock ==
  ASSUME IInv, IInv', CountInv, ready, NEW pages \in SUBSET With(PAGE_FREE), lock_pages(pages),
         UNCHANGED <<mmap, ready, withdrawn>>
  PROVE  CountInv'
<1> DEFINE n == Cardinality(pages)
<1>1. pages \in SUBSET Frames /\ With(PAGE_LOCKED) \cap pages = {}
  BY DEF With, PAGE_FREE, PAGE_LOCKED
<1>2. With(PAGE_LOCKED)' = With(PAGE_LOCKED) \cup pages /\ With(PAGE_FREE)' = With(PAGE_FREE) \ pages
  BY <1>1, StatusMoved DEF lock_pages, IInv, Statuses, PAGE_FREE, PAGE_LOCKED
<1>3. IsFiniteSet(pages) /\ n \in Nat  BY <1>1, CountsBefore
<1>4. LockedCount' = LockedCount + n  BY <1>1, <1>2, <1>3, CountsBefore, Joined DEF LockedCount
<1>5. FreeCount' = FreeCount - n  BY <1>2, CountsBefore, Parted DEF FreeCount
<1>6. used_memory' = (used_memory + n) % Word /\ free_memory' = (free_memory - n) % Word
  BY DEF lock_pages
<1> HIDE DEF n
<1> DEFINE d == -n
           w == Cardinality(withdrawn)
<1>7. free_memory' = (free_memory + d) % Word
  <2>1. free_memory - n = free_memory + d  BY <1>3 DEF IInv, TypeOK
  <2> QED BY <1>6, <2>1
<1>8. /\ LockedCount \in Int /\ n \in Int /\ d \in Int /\ FreeCount \in Int /\ w \in Int
      /\ FreeCount' \in Int /\ w' = w /\ FreeCount' + w' = FreeCount + w + d
  <2>1. LockedCount \in Int /\ FreeCount \in Int /\ w \in Int  BY CountsBefore
  <2> HIDE DEF w
  <2>2. w' = w  BY DEF w
  <2> QED BY <1>3, <1>5, <2>1, <2>2
<1> HIDE DEF d
<1> QED BY <1>4, <1>6, <1>7, <1>8, Counted, Zenon

\* Freeing held frames does the reverse.
LEMMA CountFree ==
  ASSUME IInv, IInv', CountInv, ready, NEW pages \in SUBSET held, free_pages(pages),
         UNCHANGED <<mmap, ready, withdrawn>>
  PROVE  CountInv'
<1> DEFINE n == Cardinality(pages)
<1>1. /\ pages \in SUBSET Frames /\ With(PAGE_FREE) \cap pages = {}
      /\ pages \in SUBSET With(PAGE_LOCKED)
  BY DEF IInv, TypeOK, HeldIsLocked, With, PAGE_FREE, PAGE_LOCKED
<1>2. With(PAGE_FREE)' = With(PAGE_FREE) \cup pages /\ With(PAGE_LOCKED)' = With(PAGE_LOCKED) \ pages
  BY <1>1, StatusMoved DEF free_pages, IInv, Statuses, PAGE_FREE, PAGE_LOCKED
<1>3. IsFiniteSet(pages) /\ n \in Nat  BY <1>1, CountsBefore
<1>4. FreeCount' = FreeCount + n  BY <1>1, <1>2, <1>3, CountsBefore, Joined DEF FreeCount
<1>5. LockedCount' = LockedCount - n  BY <1>1, <1>2, CountsBefore, Parted DEF LockedCount
<1>6. used_memory' = (used_memory - n) % Word /\ free_memory' = (free_memory + n) % Word
  BY DEF free_pages
<1> HIDE DEF n
<1> DEFINE d == -n
           w == Cardinality(withdrawn)
<1>7. used_memory' = (used_memory + d) % Word
  <2>1. used_memory - n = used_memory + d  BY <1>3 DEF IInv, TypeOK
  <2> QED BY <1>6, <2>1
<1>8. /\ LockedCount \in Int /\ n \in Int /\ d \in Int /\ FreeCount \in Int /\ w \in Int
      /\ LockedCount' = LockedCount + d
      /\ FreeCount' \in Int /\ w' = w /\ FreeCount' + w' = FreeCount + w + n
  <2>1. LockedCount \in Int /\ FreeCount \in Int /\ w \in Int  BY CountsBefore
  <2> HIDE DEF w
  <2>2. w' = w  BY DEF w
  <2> QED BY <1>3, <1>4, <1>5, <2>1, <2>2
<1> HIDE DEF d
<1> QED BY <1>4, <1>6, <1>7, <1>8, Counted, Zenon

\* Reserving free frames leaves both counts alone, and is remembered in withdrawn.
LEMMA CountReserve ==
  ASSUME IInv, IInv', CountInv, ready, NEW pages \in SUBSET With(PAGE_FREE), reserve_pages(pages),
         UNCHANGED <<mmap, ready>>, withdrawn' = withdrawn \cup pages
  PROVE  CountInv'
<1> DEFINE n == Cardinality(pages)
<1>1. /\ pages \in SUBSET Frames /\ With(PAGE_LOCKED) \cap pages = {} /\ withdrawn \cap pages = {}
  BY FreeFrames DEF With, PAGE_FREE, PAGE_LOCKED
<1>2. With(PAGE_FREE)' = With(PAGE_FREE) \ pages /\ With(PAGE_LOCKED)' = With(PAGE_LOCKED)
  <2>1. With(PAGE_LOCKED) \ pages = With(PAGE_LOCKED)  BY <1>1
  <2> QED BY <1>1, <2>1, StatusMoved
    DEF reserve_pages, IInv, Statuses, PAGE_FREE, PAGE_LOCKED, PAGE_RESERVED
<1>3. IsFiniteSet(pages) /\ n \in Nat  BY <1>1, CountsBefore
<1>4. FreeCount' = FreeCount - n  BY <1>2, CountsBefore, Parted DEF FreeCount
<1>5. Cardinality(withdrawn)' = Cardinality(withdrawn) + n  BY <1>1, <1>3, CountsBefore, Joined
<1>6. LockedCount' = LockedCount  BY <1>2 DEF LockedCount
<1> HIDE DEF n
<1> DEFINE w == Cardinality(withdrawn)
<1>7. used_memory' = (used_memory + 0) % Word /\ free_memory' = (free_memory + 0) % Word
  <2>1. ASSUME NEW x \in 0 .. Word - 1 PROVE (x + 0) % Word = x
    <3>1. x \in Int /\ x + 0 = x /\ x = Word * 0 + x  BY MemoryAssumption
    <3> QED BY <3>1, RemainderIs
  <2> QED BY <2>1 DEF reserve_pages, IInv, TypeOK
<1>8. /\ LockedCount \in Int /\ FreeCount \in Int /\ w \in Int
      /\ LockedCount' = LockedCount + 0
      /\ FreeCount' \in Int /\ w' \in Int /\ FreeCount' + w' = FreeCount + w + 0
  <2>1. LockedCount \in Int /\ FreeCount \in Int /\ w \in Int  BY CountsBefore
  <2>2. w' = w + n  BY <1>5
  <2> HIDE DEF w
  <2> QED BY <1>3, <1>4, <1>6, <2>1, <2>2
<1>9. 0 \in Int  OBVIOUS
<1> QED BY <1>7, <1>8, <1>9, Counted, Zenon

\* Every call keeps the counters in step with the map.
LEMMA NextCountInv == IInv /\ IInv' /\ CountInv /\ [Next]_vars => CountInv'
<1> SUFFICES ASSUME IInv, IInv', CountInv, [Next]_vars PROVE CountInv'  OBVIOUS
<1>1. CASE page_frame_allocator_init  BY <1>1, CountSetUp
<1>2. CASE UNCHANGED <<mmap, ready, map, counters, withdrawn>>
  BY <1>2 DEF counters, CountInv, UsedIsLocked, FreeDrift, With, Frames
<1>3. CASE Caller
  <2>1. ready  BY <1>3 DEF Caller
  <2>2. CASE request_page
    <3>1. CASE With(PAGE_FREE) # {}
      <4>1. With(PAGE_FREE) \subseteq Nat  BY <2>1, FramesOfMap, FreeFrames DEF IInv
      <4>2. {lowest(With(PAGE_FREE))} \in SUBSET With(PAGE_FREE)  BY <3>1, <4>1, LowestExists
      <4> QED BY <2>1, <2>2, <3>1, <4>2, CountLock DEF request_page, unchanged_heap
    <3>2. CASE With(PAGE_FREE) = {}
      BY <1>2, <2>2, <3>2 DEF request_page, unchanged_heap, callers
    <3> QED BY <3>1, <3>2
  <2>3. ASSUME NEW pages \in Runs(With(PAGE_FREE)), Lock(pages) PROVE CountInv'
    BY <2>1, <2>3, CountLock DEF Runs, Lock, unchanged_heap
  <2>4. ASSUME NEW pages \in Runs(With(PAGE_FREE)), Reserve(pages) PROVE CountInv'
    BY <2>1, <2>4, CountReserve DEF Runs, Reserve, unchanged_heap
  <2>5. ASSUME NEW pages \in Runs(held), Free(pages) PROVE CountInv'
    BY <2>1, <2>5, CountFree DEF Runs, Free, unchanged_heap
  <2>6. ASSUME NEW size, NEW align, Kmalloc(size, align) PROVE CountInv'
    BY <1>2, <2>6 DEF Kmalloc, callers
  <2> QED BY <1>3, <2>2, <2>3, <2>4, <2>5, <2>6 DEF Caller
<1>4. CASE UNCHANGED vars  BY <1>2, <1>4 DEF vars, callers
<1> QED BY <1>1, <1>3, <1>4 DEF Next

\* Both invariants hold in every run.
LEMMA CountInvariance == Spec => []CountInv
BY Invariance, InitCountInv, NextCountInv, PTL DEF Spec

\* The used count is the number of locked frames, whatever is requested, locked,
\* freed and reserved, as far as a size_t counts.
THEOREM UsedCountIsExact == Spec => []UsedIsLocked
<1>1. CountInv => UsedIsLocked  BY DEF CountInv
<1> QED BY CountInvariance, <1>1, PTL

\* The free count is off by the frames reserved since boot and those of the kernel
\* that were never free, and by nothing else.
THEOREM FreeCountDrifts == Spec => []FreeDrift
<1>1. CountInv => FreeDrift  BY DEF CountInv
<1> QED BY CountInvariance, <1>1, PTL
-----------------------------------------------------------------------------
(***************************************************************************)
(* The allocator implements what FrameAllocator promises its callers.      *)
(***************************************************************************)
\* Frames of the pool that are locked or reserved are the pool's no more.
LEMMA PoolShrinks ==
  ASSUME IInv, ready, NEW pages \in SUBSET With(PAGE_FREE), NEW status \in Statuses,
         status # PAGE_FREE, set_status(pages, status)
  PROVE  With(PAGE_FREE)' = With(PAGE_FREE) \ pages
<1>1. pages \subseteq Frames  BY DEF With
<1> QED BY <1>1, StatusMoved DEF IInv, Statuses, PAGE_FREE

\* The set-up fills the pool; every call of a caller changes hands as promised.
LEMMA PromisedStep == IInv /\ IInv' /\ [Next]_vars => [Promise!Next]_(Promise!vars)
<1> SUFFICES ASSUME IInv, IInv', [Next]_vars PROVE [Promise!Next]_(Promise!vars)  OBVIOUS
<1> USE DEF Promise!Next, Promise!vars
<1>1. CASE page_frame_allocator_init
  <2>1. ~ready /\ ready' = TRUE /\ UNCHANGED <<held, answer>>
    BY <1>1 DEF page_frame_allocator_init, callers
  <2>2. /\ With(PAGE_FREE)' \subseteq Frames' /\ 0 \notin With(PAGE_FREE)'
        /\ With(PAGE_FREE)' \cap KernelPages = {}
    BY <2>1 DEF IInv, PageZeroNotFree, KernelLocked, With, PAGE_FREE, PAGE_LOCKED
  <2>3. Frames' \subseteq Nat
    <3>1. mmap' \in MemoryMaps /\ Frames' = 0 .. map_size(mmap') - 1
      BY <2>1 DEF IInv, TypeOK, Frames
    <3>2. map_size(mmap') \in Nat  BY <3>1, MapSize
    <3> QED BY <3>1, <3>2
  <2> QED BY <2>1, <2>2, <2>3 DEF Promise!Fill
<1>2. CASE Caller
  <2>1. ready  BY <1>2 DEF Caller
  <2>2. CASE request_page
    <3>1. ready' = ready  BY <2>2 DEF request_page, unchanged_heap
    <3>2. CASE With(PAGE_FREE) # {}
      <4> DEFINE p == lowest(With(PAGE_FREE))
      <4>1. With(PAGE_FREE) \subseteq Nat  BY <2>1, FramesOfMap, FreeFrames DEF IInv
      <4>2. p \in With(PAGE_FREE)  BY <3>2, <4>1, LowestExists
      <4>3. /\ set_status({p}, PAGE_LOCKED) /\ held' = held \cup {p}
            /\ answer' = p * PageSize
        BY <2>2, <3>2 DEF request_page, lock_pages
      <4> HIDE DEF p
      <4>4. With(PAGE_FREE)' = With(PAGE_FREE) \ {p}
        <5>1. {p} \in SUBSET With(PAGE_FREE) /\ PAGE_LOCKED \in Statuses /\ PAGE_LOCKED # PAGE_FREE
          BY <4>2 DEF Statuses, PAGE_LOCKED, PAGE_FREE
        <5> QED BY <2>1, <4>3, <5>1, PoolShrinks
      <4> QED BY <2>1, <3>1, <4>2, <4>3, <4>4 DEF Promise!Request
    <3>3. CASE With(PAGE_FREE) = {}
      <4>1. answer' = 0 /\ UNCHANGED <<map, held>>
        BY <2>2, <3>3 DEF request_page, callers, NULL
      <4>2. With(PAGE_FREE)' = With(PAGE_FREE)  BY <4>1 DEF With, Frames
      <4> QED BY <2>1, <3>1, <3>3, <4>1, <4>2 DEF Promise!Request
    <3> QED BY <3>2, <3>3
  <2>3. ASSUME NEW pages \in Runs(With(PAGE_FREE)), Lock(pages) PROVE Promise!Next
    <3>1. pages \in SUBSET With(PAGE_FREE)  BY DEF Runs
    <3>2. ready' = ready /\ answer' = answer /\ held' = held \cup pages
      BY <2>3 DEF Lock, unchanged_heap
    <3>3. With(PAGE_FREE)' = With(PAGE_FREE) \ pages
      BY <2>1, <2>3, <3>1, PoolShrinks DEF Lock, lock_pages, Statuses, PAGE_LOCKED, PAGE_FREE
    <3> QED BY <2>1, <3>1, <3>2, <3>3 DEF Promise!Take
  <2>4. ASSUME NEW pages \in Runs(With(PAGE_FREE)), Reserve(pages) PROVE Promise!Next
    <3>1. pages \in SUBSET With(PAGE_FREE)  BY DEF Runs
    <3>2. ready' = ready /\ answer' = answer /\ held' = held
      BY <2>4 DEF Reserve, unchanged_heap
    <3>3. With(PAGE_FREE)' = With(PAGE_FREE) \ pages
      BY <2>1, <2>4, <3>1, PoolShrinks DEF Reserve, reserve_pages, Statuses, PAGE_RESERVED, PAGE_FREE
    <3> QED BY <2>1, <3>2, <3>3 DEF Promise!Withdraw
  <2>5. ASSUME NEW pages \in Runs(held), Free(pages) PROVE Promise!Next
    <3>1. pages \in SUBSET held /\ pages \subseteq Frames
      <4>1. held \subseteq Frames  BY DEF IInv, TypeOK
      <4> QED BY <4>1 DEF Runs
    <3>2. ready' = ready /\ answer' = answer /\ held' = held \ pages
      BY <2>5 DEF Free, unchanged_heap
    <3>3. With(PAGE_FREE)' = With(PAGE_FREE) \cup pages
      BY <2>1, <2>5, <3>1, StatusMoved DEF Free, free_pages, IInv, Statuses, PAGE_FREE
    <3> QED BY <2>1, <3>1, <3>2, <3>3 DEF Promise!Give
  <2>6. ASSUME NEW size, NEW align, Kmalloc(size, align) PROVE UNCHANGED Promise!vars
    BY <2>6 DEF Kmalloc, callers, With, Frames
  <2> QED BY <1>2, <2>2, <2>3, <2>4, <2>5, <2>6 DEF Caller
<1>3. CASE UNCHANGED vars  BY <1>3 DEF vars, callers, With, Frames
<1> QED BY <1>1, <1>2, <1>3 DEF Next

\* request_page, lock_pages, free_pages and reserve_pages implement the pool of
\* FrameAllocator, whatever the memory map: no frame is in two hands, and NULL means
\* that the pool is empty.
THEOREM ImplementsFrameAllocator == Spec => AllocatesAsPromised
<1>1. Init => Promise!Init  BY DEF Init, Promise!Init, With, Frames, NULL
<1> QED BY Invariance, PromisedStep, <1>1, PTL DEF Spec, AllocatesAsPromised, Promise!Spec
=============================================================================
