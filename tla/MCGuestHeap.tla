---------------------------- MODULE MCGuestHeap ----------------------------
(***************************************************************************)
(* Nothing in the heap depends on which record an extent has, so TLC may   *)
(* take states that differ in the names of the records for one.            *)
(***************************************************************************)
EXTENDS GuestHeap

Renamed ==
    LET \* the records in address order, then the reserved ones, then the unused ones
        line == Extents \o Reserve \o heap.unused
        named == [i \in 0 .. MaxIndex |-> SelectInSeq(line, LAMBDA j : j = i)]
    IN  <<[k \in DOMAIN line |->
              <<[heap.block[line[k]] EXCEPT !.previous = named[@], !.next = named[@]],
                cached[line[k]]>>],
          heap.capacity, named[heap.first], Len(heap.unused), heap.used, heap.count,
          [c \in Classes |-> [k \in DOMAIN heap.bins[c] |-> named[heap.bins[c][k]]]],
          [o \in Offsets |-> <<named[memory[o][1]], memory[o][2]>>],
          IF move = NoMove THEN NoMove
          ELSE [move EXCEPT !.block = named[@], !.spare = named[@],
                            !.saved = [o \in Offsets |-> <<named[@[o][1]], @[o][2]>>]],
          IF sweep = NoSweep THEN <<>>
          ELSE <<named[sweep.index], sweep.cursor, Len(sweep.gaps)>>>>
=============================================================================
