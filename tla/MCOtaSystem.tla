----------------------------- MODULE MCOtaSystem -----------------------------
(* Instances of OtaSystem: off-chip nodes.  Chunks are distinct within a page; *)
(* the header is in the first.                                                 *)
EXTENDS OtaSystem

CONSTANTS n1, n2, n3

MCBit == {1, 2}

File(pages, last, cells) ==
  [size |-> [pages |-> pages, last |-> last],
   data |-> [p \in Page |-> [c \in Chunk |->
               IF p < pages THEN cells[p + 1][c + 1] ELSE ErasedCell]]]

MCImages == {File(2, 3, << <<{1}, {2}, {}>>, <<{1, 2}, {2}, {1}>> >>)}
MCShortImages == {File(1, 1, << <<{1}, {}>> >>)}

MCRouteTables == {Line}
MCLine1 == <<n1>>
MCLine3 == <<n1, n2, n3>>
MCSecVer == [node \in Nodes |-> IF node = n2 THEN 2 ELSE 1]
MCHeaderSecVer == [cell \in Cell |-> IF cell = {1} THEN 2 ELSE 0]
MCSlotPages == [s \in Slots |-> MaxPages]
=============================================================================
