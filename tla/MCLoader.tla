------------------------------ MODULE MCLoader ------------------------------
(* Memory maps and program images for Loader: pages of two units, a window *)
(* of six pages with two of stack, 1 MB and 2 MB at units 4 and 8, files   *)
(* of 4 units and 2^32 at 16.                                              *)
EXTENDS Loader

Region(t, b, l) == [type |-> t, base |-> b, length |-> l]
MCMaps == {
  <<Region(1, 0, 3), Region(1, 4, 65)>>,                     \* one region from 1 MB
  <<Region(1, 9, 33), Region(2, 50, 60)>>,                   \* unaligned; a larger one reserved
  <<Region(1, 4, 6), Region(1, 12, 14), Region(1, 30, 12)>>, \* the largest is in the middle
  <<Region(1, 0, 60)>> }                                     \* nothing above 1 MB

Seg(t, v, o, f, m) == [type |-> t, vaddr |-> v, offset |-> o, filesz |-> f, memsz |-> m]
Image(e, segs, calls) ==
  [valid |-> TRUE, entry |-> e, size |-> 4, segs |-> segs, calls |-> calls]
B == 108
MCImages == {
  Image(B, <<Seg(1, B, 0, 2, 2)>>, <<1, 1, 3>>),             \* /bin/ring3demo as seeded
  Image(B + 1, <<Seg(1, B + 1, 1, 2, 5)>>, <<3>>),           \* bss, across pages
  Image(B + 1, <<Seg(4, B, 3, 1, 1), Seg(1, B + 2, 2, 1, 3), Seg(1, B, 0, 2, 2)>>, <<2, 9, 3>>),
  Image(B + 7, <<Seg(1, B + 7, 0, 2, 4)>>, <<3>>),           \* runs into the stack
  Image(B + 10, <<Seg(1, B + 10, 0, 3, 3)>>, <<3>>),           \* leaves the window
  Image(B, <<Seg(1, 0, 0, 1, 1), Seg(1, B, 1, 1, 1)>>, <<3>>), \* a segment at 0
  Image(B, <<Seg(1, B + 3, 2, 0, 3)>>, <<3>>),               \* only bss, entered below it
  Image(B + 2, <<>>, <<3>>),                                 \* nothing to load
  Image(B, <<Seg(1, B, 2, 4, 6)>>, <<3>>),                   \* longer than the file
  Image(B + 1, <<Seg(1, B + 1, 0, 18, 18)>>, <<3>>),         \* filesz above 2^32
  Image(B, <<Seg(1, B, 0, 2, 19)>>, <<3>>),                  \* only the bss above 2^32
  [valid |-> FALSE, entry |-> 0, size |-> 1, segs |-> <<>>, calls |-> <<>>] }
=============================================================================
