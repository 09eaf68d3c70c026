----------------------------- MODULE GuestHeap -----------------------------
(***************************************************************************)
(* ModLoader::Guest::Heap (src/sdk/src/guest/heap.cpp): an allocator of    *)
(* guest memory whose bookkeeping is in the module.  Extents are records   *)
(* linked in address order; free ones are also in the bin of their size    *)
(* class; handles are a record's index and generation.  Realloc and        *)
(* Compact may move a block, after asking its owner: Prepare, then Commit  *)
(* or Rollback, in callbacks that run while the heap is half changed.      *)
(*                                                                         *)
(* Sizes, offsets and alignments count granules of 16 bytes.  The owner of *)
(* a block writes to all of it as soon as it has it, a different value to  *)
(* every granule; the owner of a block with a callback keeps its address   *)
(* and believes what the callback tells it.                                *)
(***************************************************************************)
EXTENDS Integers, Sequences, FiniteSets, SequencesExt, FiniteSetsExt

CONSTANTS
    Extent,         \* granules of the region
    Base,           \* the address of its first granule
    Alignments,     \* the alignments that Alloc is asked for
    FirstCapacity,  \* records of the first allocation of blocks: 64
    MaxIndex,       \* gIndexMask, the greatest capacity
    GenerationMod   \* gGenerationMask + 1

ASSUME HeapAssumption ==
    /\ Extent \in Nat \ {0} /\ Base \in Nat \ {0}
    /\ FirstCapacity \in 1 .. MaxIndex
    /\ Alignments \subseteq Nat \ {0} /\ Alignments # {}
    /\ GenerationMod \in Nat \ {0}

VARIABLES
    heap,       \* the records and the lists that they are in
    memory,     \* what the guest memory of each granule holds
    move,       \* the Move of a Move_Block that has not returned, or NoMove
    sweep,      \* the progress of Compact, or NoSweep
    cached      \* where the owner of a block with a callback believes it is

vars == <<heap, memory, move, sweep, cached>>

Indices == 1 .. MaxIndex
Offsets == 0 .. Extent - 1
Junk == <<0, 0>>
NoSave == [o \in Offsets |-> Junk]
NoMove == [phase |-> "none"]
NoSweep == [index |-> -1]

\* The bin of a size, the integer part of its logarithm.
Size_Class(n) == CHOOSE c \in 0 .. n : 2 ^ c <= n /\ n < 2 ^ (c + 1)
Classes == 0 .. Size_Class(Extent)

Blank == [offset |-> 0, size |-> 0, generation |-> 0, previous |-> 0, next |-> 0,
          used |-> FALSE, pinned |-> FALSE, alignment |-> 0, callback |-> FALSE]

\* No heap: before Create and after Destroy.
Empty == [capacity |-> 0, unused |-> <<>>, block |-> [i \in Indices |-> Blank],
          first |-> 0, bins |-> [c \in Classes |-> <<>>], used |-> 0, count |-> 0]

Init ==
    /\ heap = Empty
    /\ memory = [o \in Offsets |-> Junk]
    /\ move = NoMove
    /\ sweep = NoSweep
    /\ cached = [i \in Indices |-> 0]

-----------------------------------------------------------------------------
(* The records: pure operators on the value h of heap.                      *)

\* New_Record until n records are unused, or none can be added: the capacity
\* doubles while it is below MaxIndex and the module's malloc has memory.
Grown(h, n, malloc) ==
    LET Capacities == {FirstCapacity * 2 ^ k : k \in 0 .. MaxIndex} \cap Indices
        Within == {h.capacity} \cup {c \in Capacities : malloc /\ c > h.capacity}
        Enough == {c \in Within : Len(h.unused) + c - h.capacity >= n}
        reached == IF Enough # {} THEN Min(Enough) ELSE Max(Within)
    IN  [h EXCEPT !.capacity = reached,
                  !.unused = @ \o [k \in 1 .. reached - h.capacity |-> h.capacity + k]]

Reserved(h, n) == [h EXCEPT !.unused = SubSeq(@, n + 1, Len(@))]

\* What a released record still holds is never read: New_Record clears it.
Release_Record(h, i) ==
    [h EXCEPT !.unused = <<i>> \o @,
              !.block[i] = [Blank EXCEPT !.generation = h.block[i].generation]]

Bin_Insert(h, i) == [h EXCEPT !.bins[Size_Class(h.block[i].size)] = <<i>> \o @]
Bin_Remove(h, i) ==
    [h EXCEPT !.bins[Size_Class(h.block[i].size)] = SelectSeq(@, LAMBDA j : j # i)]

\* n follows p in address order; 0 is no block.
Join(h, p, n) ==
    LET after == IF p = 0 THEN [h EXCEPT !.first = n] ELSE [h EXCEPT !.block[p].next = n]
    IN  IF n = 0 THEN after ELSE [after EXCEPT !.block[n].previous = p]

\* Record i becomes an extent between p and n.
Insert(h, i, p, n, offset, size) ==
    Join(Join([h EXCEPT !.block[i].offset = offset, !.block[i].size = size], p, i), i, n)

IsFree(h, i) == i # 0 /\ ~h.block[i].used

\* The extent after i is free: i takes its bytes and its place.
MergedNext(h, i) ==
    LET n == h.block[i].next
        taken == [Bin_Remove(h, n) EXCEPT !.block[i].size = @ + h.block[n].size]
    IN  IF IsFree(h, n) THEN Release_Record(Join(taken, i, h.block[n].next), n) ELSE h

\* The extent before i is free: it takes those of i.
MergedPrevious(h, i) ==
    LET p == h.block[i].previous
        taken == [Bin_Remove(h, p) EXCEPT !.block[p].size = @ + h.block[i].size]
    IN  IF IsFree(h, p)
        THEN Bin_Insert(Release_Record(Join(taken, p, h.block[i].next), i), p)
        ELSE Bin_Insert(h, i)

Merge_Free(h, i) == MergedPrevious(MergedNext(h, i), i)

Freed(h, i) ==
    Merge_Free([h EXCEPT !.used = @ - h.block[i].size, !.count = @ - 1,
                         !.block[i].used = FALSE, !.block[i].pinned = FALSE,
                         !.block[i].callback = FALSE, !.block[i].alignment = 0,
                         !.block[i].generation = (@ + 1) % GenerationMod], i)

\* Granules to skip from the offset to the next multiple of the alignment.
Padding(offset, alignment) == (alignment - ((Base + offset) % alignment)) % alignment

\* The free extents that hold the request, in the order in which Alloc meets
\* them: from the bin of its size up.
Holding(h, needed, alignment) ==
    LET Bins == [k \in 1 .. Cardinality(Classes) |->
                    IF k - 1 >= Size_Class(needed) THEN h.bins[k - 1] ELSE <<>>]
        Holds(i) == needed + Padding(h.block[i].offset, alignment) <= h.block[i].size
    IN  SelectSeq(FlattenSeq(Bins), Holds)

\* Alloc: the heap after it and the index of the block, 0 if it failed.
Allocated(h, needed, alignment, malloc) ==
    LET grown == Grown(h, 2, malloc)
        before == grown.unused[1]
        after == grown.unused[2]
        spared == Reserved(grown, 2)
        found == Head(Holding(spared, needed, alignment))
        extent == spared.block[found]
        pad == Padding(extent.offset, alignment)
        cut == LET h1 == Bin_Remove(spared, found) IN
               IF pad = 0 THEN Release_Record(h1, before)
               ELSE Bin_Insert(Insert([h1 EXCEPT !.block[found].offset = @ + pad,
                                                 !.block[found].size = @ - pad],
                                      before, extent.previous, found, extent.offset, pad),
                               before)
        rest == cut.block[found].size - needed
        trimmed ==
               IF rest = 0 THEN Release_Record(cut, after)
               ELSE Bin_Insert(Insert([cut EXCEPT !.block[found].size = needed],
                                      after, found, cut.block[found].next,
                                      cut.block[found].offset + needed, rest),
                               after)
    IN  IF Len(grown.unused) < 2 THEN [heap |-> grown, index |-> 0]
        ELSE IF Holding(spared, needed, alignment) = <<>>
        THEN [heap |-> Release_Record(Release_Record(spared, before), after), index |-> 0]
        ELSE [heap |-> [trimmed EXCEPT !.block[found].used = TRUE,
                                       !.block[found].alignment = alignment,
                                       !.used = @ + needed, !.count = @ + 1],
              index |-> found]

\* What a link to i means once left and right have exchanged their places.
Remapped(i, left, right) == IF i = left THEN right ELSE IF i = right THEN left ELSE i

\* Two blocks exchange their places, whether they are neighbours or not.
Swap_Locations(h, left, right) ==
    LET At(i, o) == [h.block[i] EXCEPT
                        !.offset = h.block[o].offset, !.size = h.block[o].size,
                        !.previous = Remapped(h.block[o].previous, left, right),
                        !.next = Remapped(h.block[o].next, left, right)]
        swapped == [h EXCEPT !.block[left] = At(left, right), !.block[right] = At(right, left)]
        Placed(g, i) == Join(Join(g, g.block[i].previous, i), i, g.block[i].next)
    IN  Placed(Placed(swapped, left), right)

\* The extents in address order.
Order(h) ==
    LET at[k \in 0 .. MaxIndex] ==
            IF k = 0 THEN h.first ELSE IF at[k - 1] = 0 THEN 0 ELSE h.block[at[k - 1]].next
    IN  SelectSeq([k \in 1 .. MaxIndex |-> at[k - 1]], LAMBDA i : i # 0)

\* The end of Compact: the list again, from the used blocks where they are now
\* and the gaps between them, which are the records that it reserved.
Rebuilt(h, gaps) ==
    LET Gap(s, to) ==
            IF s.end >= to THEN s
            ELSE LET g == Last(s.gaps)
                     placed == Insert(s.heap, g, s.previous, 0, s.end, to - s.end)
                 IN  [s EXCEPT !.heap = Bin_Insert(placed, g), !.gaps = Front(@), !.previous = g]
        Used(s, i) ==
            LET b == h.block[i]
                placed == Join(Join(s.heap, s.previous, i), i, 0)
            IN  [s EXCEPT !.heap = placed, !.previous = i, !.end = b.offset + b.size]
        Next(s, i) ==
            IF h.block[i].used THEN Used(Gap(s, h.block[i].offset), i)
            ELSE [s EXCEPT !.heap = Release_Record(@, i)]
        start == [heap |-> [h EXCEPT !.first = 0, !.bins = Empty.bins],
                  end |-> 0, previous |-> 0, gaps |-> gaps]
        all == Gap(FoldLeft(Next, start, Order(h)), Extent)
    IN  FoldLeft(Release_Record, all.heap, Reverse(all.gaps))

-----------------------------------------------------------------------------
(* What the owners of the blocks write and believe.                         *)

Live(h) == {i \in Indices : h.block[i].used}
Covers(b, o) == b.offset <= o /\ o < b.offset + b.size

\* No one reads what free memory holds.
Cleared(h, m) ==
    [o \in Offsets |-> IF \E i \in Live(h) : Covers(h.block[i], o) THEN m[o] ELSE Junk]

\* The owner of i writes to its granules, those that it already had excepted.
Written(h, m, i, had) ==
    [o \in Offsets |-> LET k == o - h.block[i].offset IN
        IF had <= k /\ k < h.block[i].size THEN <<i, k>> ELSE m[o]]

\* The bytes of m at from, in the place of those at to.
Copied(m, from, to, count) ==
    [o \in Offsets |-> IF to <= o /\ o < to + count THEN m[from + o - to] ELSE m[o]]

-----------------------------------------------------------------------------
(* The calls.  A callback that the heap calls may call the heap: each call  *)
(* that would change it returns at once.                                    *)

Idle == move = NoMove /\ sweep = NoSweep

Notifying ==
    /\ move.phase \in {"prepare", "commit", "rollback"}
    /\ heap.block[move.block].callback

\* The module runs between the calls, and in the callbacks; there, `notifying` makes
\* every call that would change the heap return at once.
AcceptedAlways == Idle \/ Notifying
Accepted == (Idle \/ Notifying) /\ ~Notifying

\* A move begins: of a block without a callback at once, if it stays where it is
\* or the two places are apart; otherwise the owner is asked.
StartMove(i, to, new, kind, spare) ==
    LET b == heap.block[i]
        copied == Min({b.size, new})
        apart == b.offset + b.size <= to \/ to + copied <= b.offset
    IN  move' = [phase |-> IF ~b.callback /\ (to = b.offset \/ apart) THEN "direct" ELSE "prepare",
                 block |-> i, from |-> b.offset, to |-> to, old |-> b.size, new |-> new,
                 kind |-> kind, spare |-> spare, saved |-> NoSave]

Create(malloc) ==
    LET h == Grown(Empty, 1, malloc)
        first == h.unused[1]
    IN  /\ Accepted
        /\ heap' = IF h.unused = <<>> THEN Empty
                   ELSE Bin_Insert([Reserved(h, 1) EXCEPT !.first = first,
                                                          !.block[first].size = Extent], first)
        /\ memory' = [o \in Offsets |-> Junk]
        /\ cached' = [i \in Indices |-> 0]
        /\ UNCHANGED <<move, sweep>>

Destroy ==
    /\ Accepted
    /\ heap' = Empty
    /\ memory' = [o \in Offsets |-> Junk]
    /\ cached' = [i \in Indices |-> 0]
    /\ UNCHANGED <<move, sweep>>

Alloc(n, alignment, malloc) ==
    LET done == Allocated(heap, n, alignment, malloc) IN
    /\ Accepted
    /\ heap.capacity # 0
    /\ heap' = done.heap
    /\ memory' = IF done.index = 0 THEN memory ELSE Written(heap', memory, done.index, 0)
    /\ UNCHANGED <<move, sweep, cached>>

Free(i) ==
    /\ Accepted
    /\ i \in Live(heap)
    /\ heap' = Freed(heap, i)
    /\ memory' = Cleared(heap', memory)
    /\ cached' = [cached EXCEPT ![i] = 0]
    /\ UNCHANGED <<move, sweep>>

Pin(i, pinned) ==
    /\ Accepted
    /\ i \in Live(heap)
    /\ heap' = [heap EXCEPT !.block[i].pinned = pinned]
    /\ UNCHANGED <<memory, move, sweep, cached>>

\* The owner that sets a callback looks the address up.
Set_Move_Callback(i, callback) ==
    /\ Accepted
    /\ i \in Live(heap)
    /\ heap' = [heap EXCEPT !.block[i].callback = callback]
    /\ cached' = [cached EXCEPT ![i] = IF callback THEN heap.block[i].offset ELSE 0]
    /\ UNCHANGED <<memory, move, sweep>>

\* Realloc to a smaller size: the rest goes to the free extent after the block,
\* or to a record reserved for it.
Shrink(i, n, malloc) ==
    LET b == heap.block[i]
        h == Grown(heap, 1, malloc)
    IN  /\ Accepted
        /\ i \in Live(heap)
        /\ n < b.size
        /\ \/ /\ IsFree(heap, b.next)
              /\ StartMove(i, b.offset, n, "shrink", b.next)
              /\ UNCHANGED heap
           \/ /\ ~IsFree(heap, b.next)
              /\ h.unused # <<>>
              /\ StartMove(i, b.offset, n, "shrink", h.unused[1])
              /\ heap' = Reserved(h, 1)
        /\ UNCHANGED <<memory, sweep, cached>>

Fits(b, n) == IsFree(heap, b.next) /\ n - b.size <= heap.block[b.next].size

\* Realloc to a greater size that the free extent after the block has.
Extend(i, n) ==
    LET b == heap.block[i] IN
    /\ Accepted
    /\ i \in Live(heap)
    /\ n > b.size
    /\ Fits(b, n)
    /\ StartMove(i, b.offset, n, "extend", b.next)
    /\ UNCHANGED <<heap, memory, sweep, cached>>

\* Otherwise a replacement is allocated, and the two exchange their places.
Relocate(i, n, malloc) ==
    LET b == heap.block[i]
        done == Allocated(heap, n, b.alignment, malloc)
    IN  /\ Accepted
        /\ i \in Live(heap)
        /\ n > b.size
        /\ ~Fits(b, n)
        /\ ~b.pinned
        /\ heap' = done.heap
        /\ IF done.index = 0 THEN UNCHANGED move
           ELSE StartMove(i, heap'.block[done.index].offset, n, "relocate", done.index)
        /\ UNCHANGED <<memory, sweep, cached>>

-----------------------------------------------------------------------------
(* Move_Block, and what its caller does when it returns.                    *)

Shrunk(h) ==
    LET i == move.block
        b == h.block[i]
        to == b.offset + move.new
        less == move.old - move.new
        rest == IF move.spare = b.next
                THEN [Bin_Remove(h, move.spare) EXCEPT !.block[move.spare].offset = to,
                                                       !.block[move.spare].size = @ + less]
                ELSE Insert(h, move.spare, i, b.next, to, less)
    IN  Bin_Insert([rest EXCEPT !.block[i].size = move.new, !.used = @ - less], move.spare)

Extended(h) ==
    LET i == move.block
        n == move.spare
        more == move.new - move.old
        taken == [Bin_Remove(h, n) EXCEPT !.block[i].size = move.new, !.used = @ + more]
    IN  IF more = h.block[n].size
        THEN Release_Record(Join(taken, i, h.block[n].next), n)
        ELSE Bin_Insert([taken EXCEPT !.block[n].offset = @ + more,
                                      !.block[n].size = @ - more], n)

\* A record reserved for the rest goes back.
Unshrunk(h) ==
    IF move.spare = h.block[move.block].next THEN h ELSE Release_Record(h, move.spare)

\* The record follows the bytes.
Moved(h) == [h EXCEPT !.block[move.block].offset = move.to]

After(h, ok) ==
    CASE move.kind = "shrink" ->
            IF ok THEN Shrunk(h) ELSE Unshrunk(h)
      [] move.kind = "extend" -> IF ok THEN Extended(h) ELSE h
      [] move.kind = "relocate" ->
            Freed(IF ok THEN Swap_Locations(h, move.block, move.spare) ELSE h, move.spare)
      [] OTHER -> IF ok THEN Moved(h) ELSE h

\* Compact goes on after record i of h.
Past(h, i) ==
    [sweep EXCEPT !.index = h.block[i].next,
                  !.cursor = IF h.block[i].used THEN h.block[i].offset + h.block[i].size ELSE @]

\* m is what the memory holds when Move_Block returns.
Return(ok, m) ==
    /\ heap' = After(heap, ok)
    /\ memory' = LET kept == Cleared(heap', m) IN
                 IF ok THEN Written(heap', kept, move.block, move.old) ELSE kept
    /\ sweep' = IF sweep = NoSweep THEN NoSweep ELSE Past(heap', move.block)
    /\ move' = NoMove

Asked == heap.block[move.block].callback
Count == Min({move.old, move.new})
Believes(o) == cached' = IF Asked THEN [cached EXCEPT ![move.block] = o] ELSE cached
RestoredNot(m) == m
Restored(m) ==
    [o \in Offsets |-> IF move.from <= o /\ o < move.from + move.old
                       THEN move.saved[o] ELSE m[o]]

\* No callback and nothing to save: the host copies, or fails to.
MoveDirectly(ok) ==
    /\ move.phase = "direct"
    /\ ok \/ move.from # move.to
    /\ Return(ok, IF ok THEN Copied(memory, move.from, move.to, Count) ELSE memory)
    /\ UNCHANGED cached

Prepare(accepts) ==
    /\ move.phase = "prepare"
    /\ accepts \/ Asked
    /\ move' = [move EXCEPT !.phase = IF accepts THEN "copy" ELSE "rollback"]
    /\ UNCHANGED <<heap, memory, sweep, cached>>

\* The module has no memory for a copy of the bytes, or the host cannot read them.
SaveFails ==
    /\ move.phase = "copy"
    /\ move' = [move EXCEPT !.phase = "rollback"]
    /\ UNCHANGED <<heap, memory, sweep, cached>>

\* The host writes only some of the bytes; the originals are written back.
CopyFails(some) ==
    /\ move.phase = "copy"
    /\ move.from # move.to
    /\ some < Count
    /\ memory' = [o \in Offsets |->
           IF move.from <= o /\ o < move.from + move.old THEN memory[o]
           ELSE Copied(memory, move.from, move.to, some)[o]]
    /\ move' = [move EXCEPT !.phase = "rollback"]
    /\ UNCHANGED <<heap, sweep, cached>>

Copy ==
    /\ move.phase = "copy"
    /\ memory' = Copied(memory, move.from, move.to, Count)
    /\ move' = [move EXCEPT !.phase = "commit", !.saved = memory]
    /\ UNCHANGED <<heap, sweep, cached>>

\* The owner updates its references, and may refuse even then.
Commit(accepts) ==
    /\ move.phase = "commit"
    /\ accepts \/ Asked
    /\ Believes(move.to)
    /\ IF accepts THEN Return(TRUE, memory)
       ELSE /\ memory' = Restored(memory)
            /\ move' = [move EXCEPT !.phase = "rollback", !.saved = NoSave]
            /\ UNCHANGED <<heap, sweep>>

Rollback ==
    /\ move.phase = "rollback"
    /\ Believes(move.from)
    /\ Return(FALSE, memory)

-----------------------------------------------------------------------------
(* Compact.                                                                 *)

\* A record for every gap there can be is reserved before anything moves.
Compact(malloc) ==
    LET gaps == heap.count + 1
        h == Grown(heap, gaps, malloc)
        enough == Len(h.unused) >= gaps
    IN  /\ Accepted
        /\ heap.used \notin {0, Extent}
        /\ heap' = IF enough THEN Reserved(h, gaps) ELSE h
        /\ sweep' = IF ~enough THEN NoSweep
                    ELSE [index |-> heap.first, cursor |-> 0, gaps |-> SubSeq(h.unused, 1, gaps)]
        /\ UNCHANGED <<memory, move, cached>>

Sweeping == sweep # NoSweep /\ move = NoMove

Target(b) == sweep.cursor + Padding(sweep.cursor, b.alignment)
MovablePinned(b) == b.used /\ Target(b) < b.offset
Movable(b) == b.used /\ ~b.pinned /\ Target(b) < b.offset

SweepPast ==
    /\ Sweeping
    /\ sweep.index # 0
    /\ ~Movable(heap.block[sweep.index])
    /\ sweep' = Past(heap, sweep.index)
    /\ UNCHANGED <<heap, memory, move, cached>>

SweepMove ==
    LET b == heap.block[sweep.index] IN
    /\ Sweeping
    /\ sweep.index # 0
    /\ Movable(b)
    /\ StartMove(sweep.index, Target(b), b.size, "compact", 0)
    /\ UNCHANGED <<heap, memory, sweep, cached>>

SweepEnd ==
    /\ Sweeping
    /\ sweep.index = 0
    /\ heap' = Rebuilt(heap, sweep.gaps)
    /\ sweep' = NoSweep
    /\ UNCHANGED <<memory, move, cached>>

Next ==
    \/ \E malloc \in BOOLEAN : Create(malloc)
    \/ Destroy
    \/ \E n \in 1 .. Extent, a \in Alignments, malloc \in BOOLEAN : Alloc(n, a, malloc)
    \/ \E i \in Indices : Free(i)
    \/ \E i \in Indices, pinned \in BOOLEAN : Pin(i, pinned)
    \/ \E i \in Indices, callback \in BOOLEAN : Set_Move_Callback(i, callback)
    \/ \E i \in Indices, n \in 1 .. Extent, malloc \in BOOLEAN : Shrink(i, n, malloc)
    \/ \E i \in Indices, n \in 1 .. Extent : Extend(i, n)
    \/ \E i \in Indices, n \in 1 .. Extent, malloc \in BOOLEAN : Relocate(i, n, malloc)
    \/ \E ok \in BOOLEAN : MoveDirectly(ok)
    \/ \E accepts \in BOOLEAN : Prepare(accepts)
    \/ SaveFails
    \/ \E some \in 1 .. Extent : CopyFails(some)
    \/ Copy
    \/ \E accepts \in BOOLEAN : Commit(accepts)
    \/ Rollback
    \/ \E malloc \in BOOLEAN : Compact(malloc)
    \/ SweepPast
    \/ SweepMove
    \/ SweepEnd

Spec == Init /\ [][Next]_vars

-----------------------------------------------------------------------------
(* Properties.                                                              *)

Records ==
    [offset : Offsets, size : 0 .. Extent, generation : 0 .. GenerationMod - 1,
     previous : 0 .. MaxIndex, next : 0 .. MaxIndex, used : BOOLEAN, pinned : BOOLEAN,
     alignment : Alignments \cup {0}, callback : BOOLEAN]

Contents == [Offsets -> (0 .. MaxIndex) \X (0 .. Extent)]

TypeOK ==
    /\ heap.capacity \in 0 .. MaxIndex
    /\ heap.unused \in Seq(Indices)
    /\ heap.block \in [Indices -> Records]
    /\ heap.first \in 0 .. MaxIndex
    /\ heap.bins \in [Classes -> Seq(Indices)]
    /\ heap.used \in 0 .. Extent /\ heap.count \in 0 .. Extent
    /\ memory \in Contents
    /\ cached \in [Indices -> Offsets]
    /\ \/ move = NoMove
       \/ /\ move.phase \in {"direct", "prepare", "copy", "commit", "rollback"}
          /\ move.block \in Live(heap)
          /\ move.saved \in Contents
    /\ sweep = NoSweep \/ sweep.index \in 0 .. MaxIndex

Extents == Order(heap)
Listed == ToSet(Extents)

\* From the first extent on, each begins where the one before it ends, and points
\* back at it; the last one ends with the region; no two free ones are neighbours.
Tiled ==
    sweep = NoSweep =>
    /\ Len(Extents) = Cardinality(Listed)
    /\ \A k \in 1 .. Len(Extents) :
          LET b == heap.block[Extents[k]]
              before == IF k = 1 THEN 0 ELSE Extents[k - 1]
          IN  /\ b.previous = before
              /\ b.offset = IF k = 1 THEN 0
                            ELSE heap.block[before].offset + heap.block[before].size
              /\ b.size > 0
              /\ k = Len(Extents) => b.offset + b.size = Extent
              /\ b.used \/ k = 1 \/ heap.block[before].used

\* A bin holds the free extents of its class, each once; between two calls that is
\* all of them.
Binned ==
    /\ \A c \in Classes :
          /\ IsInjective(heap.bins[c])
          /\ ToSet(heap.bins[c]) =
                {i \in Listed : ~heap.block[i].used /\ Size_Class(heap.block[i].size) = c}
    /\ heap.used = Cardinality({o \in Offsets : \E i \in Live(heap) : Covers(heap.block[i], o)})
    /\ heap.count = Cardinality(Live(heap))

\* The records that the call in progress keeps for itself.
Reserve ==
    IF sweep # NoSweep THEN sweep.gaps
    ELSE IF move = NoMove \/ move.spare \in Listed THEN <<>>
    ELSE <<move.spare>>

\* Each record is an extent, or unused, or reserved by the call in progress, and
\* none of them twice.
RecordsAccounted ==
    LET others == heap.unused \o Reserve
    IN  /\ IsInjective(others)
        /\ ToSet(others) \cap Listed = {}
        /\ ToSet(others) \cup Listed = 1 .. heap.capacity

\* No granule belongs to two blocks, and every block is aligned as it was asked for.
BlocksApart ==
    \A i \in Live(heap) :
        LET b == heap.block[i] IN
        /\ b.offset + b.size <= Extent
        /\ Padding(b.offset, b.alignment) = 0
        /\ \A j \in Live(heap) \ {i} :
              \A o \in Offsets : ~(Covers(b, o) /\ Covers(heap.block[j], o))

\* The bookkeeping of the heap (New_Record to Swap_Locations, and Compact): the
\* extents tile the region, the bins and the totals are exact, no record is lost or
\* in two places, and blocks never overlap, in the middle of a Compact neither.
HeapSound == TypeOK /\ Tiled /\ Binned /\ RecordsAccounted /\ BlocksApart

Holds(i, o, count) == \A k \in 0 .. count - 1 : memory[o + k] = <<i, k>>

\* Realloc and Compact lose no byte of any block, whatever fails on the way: between
\* calls every block holds what its owner wrote, and in the callbacks the bytes of
\* the moving one are where heap.h says, at Move::to in Commit, else at Move::from.
BytesKept ==
    /\ \A i \in Live(heap) :
          LET b == heap.block[i]
              away == move # NoMove /\ i \in {move.block, move.spare}
          IN  ~away => Holds(i, b.offset, b.size)
    /\ move.phase \in {"prepare", "rollback"} => Holds(move.block, move.from, move.old)
    /\ move.phase = "commit" => Holds(move.block, move.to, Count)

\* An owner that keeps its address up to date from the callbacks alone has the right
\* one whenever none of its blocks is moving.
OwnersTold ==
    \A i \in Live(heap) :
        heap.block[i].callback /\ (move = NoMove \/ move.block # i)
            => cached[i] = heap.block[i].offset

\* A block that moves keeps its bytes, and its owner knows where they are.
MovesSound == BytesKept /\ OwnersTold

\* No step takes a block from under its owner: a place changes only if the block is
\* not pinned and its callback, if it has one, has just accepted Commit; and never
\* while another block's callback runs.
MovesAgreed ==
    [][\A i \in Live(heap) :
          /\ i \in Live(heap')
          /\ heap'.block[i].offset # heap.block[i].offset
          => /\ ~heap.block[i].pinned
             /\ move # NoMove /\ move.block = i
             /\ heap.block[i].callback => move.phase = "commit"]_vars

=============================================================================
