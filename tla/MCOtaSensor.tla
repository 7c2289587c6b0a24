----------------------------- MODULE MCOtaSensor -----------------------------
(* Instances of OtaSensor: two firmware files of three pages of two chunks, *)
(* the last page half full.                                                 *)
EXTENDS SensorReceives

MCBit == {1, 2}
MCHeaderSecVer == [c \in SUBSET MCBit |-> IF c = {1} THEN 2 ELSE IF c = {2} THEN 3 ELSE 0]

\* An image given by the cells of its pages.
File(pages, last, cells) ==
  [size |-> [pages |-> pages, last |-> last],
   data |-> [p \in Page |-> [c \in Chunk |->
               IF p < pages THEN cells[p + 1][c + 1] ELSE ErasedCell]]]

\* A newer image, and an older one that shares pages with it and has an all-ones chunk.
New == File(3, 1, << <<{1}, {2}>>, <<{2}, {1, 2}>>, <<{1}, {}>> >>)
Padded == File(2, 1, << <<{2}, {1}>>, <<{2}, {}>> >>)
MCImages == {New, Padded}

\* A file that fills both sectors of the slot, sent again over its own copy.
Long == File(4, 1, << <<{1}, {2}>>, <<{2}, {1, 2}>>, <<{1}, {}>>, <<{2}, {}>> >>)
MCLongImages == {Long}
MCLongFlash == {[s \in Slots |-> Long.data]}

MCSlotPages == [s \in Slots |-> 4]
MCInitialFlash == {[s \in Slots |-> New.data]}
=============================================================================
