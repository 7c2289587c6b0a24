------------------------------ MODULE MCOtaUart ------------------------------
(* Instances of OtaUart: a firmware file of two pages of two chunks, the last *)
(* page half full, and two routed nodes.                                      *)
EXTENDS OtaUart

CONSTANTS n1, n2

MCBit == {1, 2}

File(pages, last, cells) ==
  [size |-> [pages |-> pages, last |-> last],
   data |-> [p \in Page |-> [c \in Chunk |->
               IF p < pages THEN cells[p + 1][c + 1] ELSE ErasedCell]]]

MCImages == {File(2, 1, << <<{1}, {2}>>, <<{1, 2}, {}>> >>)}

MCRouteTables == {<<n1, n2>>}
=============================================================================
