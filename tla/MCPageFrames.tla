---------------------------- MODULE MCPageFrames ----------------------------
(* Ten frames of four bytes; a word holds 64.  Low is laid out like the map of an  *)
(* emulator: a low and a high available region, each followed by a reserved one.   *)
(* Split has a second, smaller available region behind the one the kernel is       *)
(* loaded to.  High has memory above 4 GB: the region at 80, whose low half is 16, *)
(* is taken, and installed_memory wraps.                                           *)
EXTENDS PageFrames

region(t, a, l) == [type |-> t, addr_low |-> a % Bytes, addr_high |-> a \div Bytes,
                    len_low |-> l % Bytes, len_high |-> l \div Bytes]
Low == <<region("available", 0, 6), region("reserved", 6, 2),
         region("available", 8, 28), region("reserved", 36, 4)>>
Split == <<region("available", 0, 8), region("available", 8, 16),
           region("reserved", 24, 4), region("available", 28, 12)>>
High == <<region("available", 0, 6), region("available", 8, 12), region("reserved", 20, 44),
          region("reserved", 64, 16), region("available", 80, 76), region("reserved", 156, 14)>>

BothMaps == {Low, Split}
AllMaps == {Low, Split, High}
=============================================================================
