---------------------------- MODULE PageReceiver ----------------------------
(***************************************************************************)
(* What a sensor node promises about the image it receives, without        *)
(* chunks, CRCs, sectors or timers: it counts pages it holds, each at most *)
(* once and in order, a START forgets the count, and what the boot manager *)
(* will read changes only when every page has been counted.                *)
(*                                                                         *)
(* A node that misses a START keeps its session open and receives the      *)
(* pages of another stream into it: that session is stray, and nothing is  *)
(* promised of it but that a START or a VERIFY ends it.                    *)
(***************************************************************************)
EXTENDS Integers

CONSTANTS MaxPages,  \* bound: the largest file
          Stages     \* what the boot metadata may say

VARIABLES session,    \* "closed", "open" or "stray"
          pages,      \* the pages of the image of an open session
          stored,     \* those of them the download area holds
          committed,  \* how many pages were counted
          last,       \* the last page counted, -1 before the first
          staged      \* the boot metadata

vars == <<session, pages, stored, committed, last, staged>>

\* No page of the session is known any more.
Forget(next) ==
  /\ session' = next
  /\ pages' = 0 /\ stored' = {} /\ committed' = 0 /\ last' = -1

Init ==
  /\ session = "closed"
  /\ pages = 0 /\ stored = {} /\ committed = 0 /\ last = -1
  /\ staged \in Stages

\* A START that is accepted: the area may still hold pages of an earlier copy.
Open(size) ==
  /\ session' = "open"
  /\ pages' = size
  /\ stored' \in SUBSET (0 .. size - 1)
  /\ committed' = 0 /\ last' = -1
  /\ UNCHANGED staged

\* A START that is refused, a reset.
Close == Forget("closed") /\ UNCHANGED staged

\* The host starts a stream the node does not hear of.
Miss == session = "open" /\ Forget("stray") /\ UNCHANGED staged

Stray == /\ session = "stray"
         /\ session' \in {"stray", "closed"}
         /\ staged' \in Stages
         /\ UNCHANGED <<pages, stored, committed, last>>

\* Writing and erasing; the counted pages survive while none was skipped.
Store ==
  /\ session = "open"
  /\ stored' \in SUBSET (0 .. pages - 1)
  /\ committed = last + 1 => 0 .. last \subseteq stored'
  /\ UNCHANGED <<session, pages, committed, last, staged>>

\* A PAGE_END that finds the page in place.
Count(p) ==
  /\ session = "open"
  /\ p \in stored /\ p > last
  /\ committed' = committed + 1
  /\ last' = p
  /\ UNCHANGED <<session, pages, stored, staged>>

\* A VERIFY that succeeds.
StageImage ==
  /\ session = "open"
  /\ committed = pages
  /\ staged' \in Stages
  /\ Forget("closed")

Next ==
  \/ \E size \in 1 .. MaxPages : Open(size)
  \/ Close \/ Miss \/ Stray \/ Store
  \/ \E p \in 0 .. MaxPages - 1 : Count(p)
  \/ StageImage

Spec == Init /\ [][Next]_vars

-----------------------------------------------------------------------------
TypeOK ==
  /\ session \in {"closed", "open", "stray"}
  /\ pages \in Nat
  /\ session = "open" => pages > 0
  /\ stored \subseteq 0 .. pages - 1
  /\ committed \in Nat
  /\ last \in -1 .. pages - 1

\* Counting may skip a page; if it did not, the area still holds every page that
\* was counted.
CountedPagesStored ==
  /\ committed <= last + 1
  /\ committed = last + 1 => 0 .. last \subseteq stored

\* The boot manager is pointed at another image only by a node that holds all the
\* pages of the one it was sent, or that missed the START of it.
StagesOnlyWhole ==
  [][staged' # staged => session = "stray" \/ (pages > 0 /\ stored = 0 .. pages - 1)]_vars
=============================================================================
