---------------------------- MODULE MCLegacySystem ----------------------------
(* An instance of LegacySystem: two pages of two chunks, the last page half    *)
(* full, over the copy of another file.  No page is a part of another's, and   *)
(* no chunk is all ones.                                                       *)
EXTENDS LegacySystem

CONSTANTS n1, n2, n3

MCBit == {1, 2}
MCLastByte == {2}

File(pages, last, cells) ==
  [size |-> [pages |-> pages, last |-> last],
   data |-> [p \in Page |-> [c \in Chunk |->
               IF p < pages THEN cells[p + 1][c + 1] ELSE ErasedCell]]]

MCImages == {File(2, 1, << <<{1}, {2}>>, <<{2}, {}>> >>)}
MCOldFlash == [p \in Page |-> [c \in Chunk |-> {1}]]

MCRouteTables == {Line}
MCLine3 == <<n1, n2, n3>>
=============================================================================
