-------------------------- MODULE MCGuestHeapStale --------------------------
(***************************************************************************)
(* A program that keeps the handles of blocks that are gone.               *)
(***************************************************************************)
EXTENDS GuestHeap

VARIABLE stale      \* handles whose block was freed or whose heap was destroyed

\* The number that Alloc returned for the live block i.
Handle(i) == <<i, heap.block[i].generation>>

StaleInit == Init /\ stale = {}

StaleNext ==
    /\ Next
    /\ stale' = stale \cup {Handle(i) : i \in Live(heap) \ Live(heap')}

StaleSpec == StaleInit /\ [][StaleNext]_<<vars, stale>>

\* "Freed/stale handles return 0" (src/sdk/include/modloader/guest/heap.h, Address and
\* Size), and after Create or Destroy "Handles/references into the old heap become
\* invalid": Record finds no block for a handle whose block is gone.
StaleReturnsNothing == \A h \in stale : \A i \in Live(heap) : Handle(i) # h
=============================================================================
