------------------------------- MODULE OtaWire -------------------------------
(***************************************************************************)
(* The vocabulary the coordinator and the sensor nodes share (src/ota.h):  *)
(* pages, 64-byte chunks, file sizes, flash cells, and the CRC-16 values   *)
(* that PAGE_END and VERIFY carry.                                         *)
(*                                                                         *)
(* An offset is a pair (page, chunk).  A chunk of data is one Cell, a set  *)
(* of bits: erased NOR flash has every bit set and programming can only    *)
(* clear bits.  A CRC-16 is modelled as collision-free: the CRC of a page  *)
(* is the page's content, the running CRC of an image is the sequence of   *)
(* the page contents it was accumulated over.                              *)
(***************************************************************************)
EXTENDS Integers, Sequences

CONSTANTS PageChunks,   \* 64-byte chunks in a page (64 in the code)
          MaxPages,     \* bound: pages 0 .. MaxPages-1 are modelled
          Bit           \* the bits of one chunk

ASSUME WireAssumption == /\ PageChunks \in Nat \ {0}
                         /\ MaxPages \in Nat \ {0}

Chunk == 0 .. PageChunks - 1
Page  == 0 .. MaxPages - 1
NoPage == -1                       \* 0xFFFFFFFF, "no page"

Cell == SUBSET Bit
ErasedCell == Bit                  \* 0xff..ff
ErasedPage == [c \in Chunk |-> ErasedCell]

\* The chunks of a page of some length.
PageContent == UNION {[0 .. len - 1 -> Cell] : len \in 0 .. PageChunks}

Target == {"A", "B", "offchip"}
NoTarget == "invalid"

\* A file of `pages` pages whose last page holds `last` chunks.
Size == [pages : 0 .. MaxPages, last : 0 .. PageChunks]
NoFile == [pages |-> 0, last |-> 0]
FileSize == {s \in Size : s.pages > 0 /\ s.last > 0}

\* Chunks of page p of a file, the clipping every page_len/expected_page_size
\* computation of the code repeats.
PageLen(size, p) == IF p + 1 < size.pages THEN PageChunks
                    ELSE IF p + 1 = size.pages THEN size.last
                    ELSE 0

\* The first len chunks of a page, which is what its CRC-16 is taken over.
Prefix(page, len) == [c \in 0 .. len - 1 |-> page[c]]

\* A firmware file.
Image == [size : FileSize, data : [Page -> [Chunk -> Cell]]]
ImagePage(img, p) == Prefix(img.data[p], PageLen(img.size, p))
ImageCrc(img) == [i \in 1 .. img.size.pages |-> ImagePage(img, i - 1)]

\* UNKNOWN: a START without a declared secVer.
OTA_START_SEC_VER_UNKNOWN == 0

\* The downstream packets.
StartPkt(size, sec_ver, target) ==
  [type |-> "START", size |-> size, sec_ver |-> sec_ver, target |-> target]
DataPkt(page, chunk, data, target) ==
  [type |-> "DATA", page |-> page, chunk |-> chunk, data |-> data, target |-> target]
PageEndPkt(page, crc, target) ==
  [type |-> "PAGE_END", page |-> page, crc |-> crc, target |-> target]
VerifyPkt(crc, target) == [type |-> "VERIFY", crc |-> crc, target |-> target]
=============================================================================
