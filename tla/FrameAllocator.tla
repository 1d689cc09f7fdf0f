--------------------------- MODULE FrameAllocator ---------------------------
(***************************************************************************)
(* What page_frame_allocator.h promises the kernel's code, without its map *)
(* and its counters: a pool of frames that is filled once.  A request is   *)
(* answered with the address of a frame of the pool, which is its caller's *)
(* from then on, and with NULL only when the pool is empty; frames change  *)
(* hands, but none is ever in two of them.                                 *)
(***************************************************************************)
EXTENDS Naturals

CONSTANTS
  PageSize,
  Forbidden    \* the frames that are never anybody's

VARIABLES
  open,        \* the pool has been filled
  pool,        \* the frames nobody has
  taken,       \* the frames callers have
  answer       \* the last request's

vars == <<open, pool, taken, answer>>

Init == open = FALSE /\ pool = {} /\ taken = {} /\ answer = 0

Fill ==
  /\ ~open /\ open' = TRUE
  /\ pool' \subseteq Nat \ Forbidden
  /\ UNCHANGED <<taken, answer>>

Request ==
  \/ \E p \in pool : pool' = pool \ {p} /\ taken' = taken \cup {p} /\ answer' = p * PageSize
  \/ pool = {} /\ answer' = 0 /\ UNCHANGED <<pool, taken>>

\* Frames go from the pool to a caller, back to the pool, or out of use.
Take == pool' \subseteq pool /\ taken' = taken \cup (pool \ pool') /\ UNCHANGED answer
Give == taken' \subseteq taken /\ pool' = pool \cup (taken \ taken') /\ UNCHANGED answer
Withdraw == pool' \subseteq pool /\ UNCHANGED <<taken, answer>>

Next ==
  \/ Fill
  \/ open /\ UNCHANGED open /\ (Request \/ Take \/ Give \/ Withdraw)

Spec == Init /\ [][Next]_vars
=============================================================================
