------------------------------ MODULE LibcHeap ------------------------------
(***************************************************************************)
(* malloc and its family: sdk/libc/src/heap.cpp.  Blocks are cut from the  *)
(* end of the memory of the module, never split nor joined, and recycled   *)
(* through lists linked in their headers.  Everything is counted in units  *)
(* of 16 bytes, the size of a header and the least alignment, and pages    *)
(* of the memory are left out; a call works on the heap under its lock and *)
(* is a step.                                                              *)
(***************************************************************************)
EXTENDS Integers, FiniteSets

CONSTANTS
    Classes,            \* how many small sizes there are, 8 in the code
    Smallest,           \* the least of them, 2 in the code; each is twice the one before
    MaxTop,             \* units of memory of the checked instance
    Sizes, Alignments,  \* what the module asks for; alignments are powers of two above 1
    MaxLive             \* pointers that it holds at a time

\* The module that instantiates this one assumes it of its constants.
LibcHeapAssumption ==
    /\ Classes \in Nat \ {0} /\ Smallest \in Nat \ {0}
    /\ MaxTop \in Nat /\ MaxLive \in Nat
    /\ Sizes \subseteq Nat \ {0}
    /\ Alignments \subseteq {2, 4, 8, 16}

Null == 0
Base == 1               \* __heap_base
Header == 1             \* gHeaderSize
Mark == MaxTop + 1      \* gAlignedMark
Places == Base..(MaxTop - 1)

VARIABLES
    top,                \* sHeap.top
    headers,            \* address -> Block_Header
    smallFree, largeFree,
    live                \* history: pointer -> units asked for, of what the module holds

vars == <<top, headers, smallFree, largeFree, live>>

Unwritten == [size |-> 0, next |-> Null]

Init ==
    /\ top = Base
    /\ headers = [a \in Places |-> Unwritten]
    /\ smallFree = [c \in 1..Classes |-> Null]
    /\ largeFree = Null
    /\ live = [p \in {} |-> 0]

-----------------------------------------------------------------------------
LeastOf(S) == CHOOSE x \in S : \A y \in S : x <= y
Align_Up(value, alignment) == ((value + alignment - 1) \div alignment) * alignment

Small_Class_Size(c) == Smallest * 2 ^ (c - 1)

\* Small_Class: the least class that holds the size, or 0.
Fits(size, c) == size <= Small_Class_Size(c)

Small_Class(size) ==
    LET fitting == {c \in 1..Classes : Fits(size, c)} IN
    IF fitting = {} THEN 0 ELSE LeastOf(fitting)

\* No list is longer than the number of blocks.
Positions == 0..(MaxTop \div (Smallest + Header))

\* A list by its first header: its blocks by position, then Null.
Linked(first) ==
    LET item[n \in Positions] ==
        IF n = 0 THEN first
        ELSE LET previous == item[n - 1] IN IF previous = Null THEN Null ELSE headers[previous].next
    IN item

LargeList == Linked(largeFree)

\* Heap_Take: the memory ends with MaxTop, or grows no more.
Room(size) == top + Header + size <= MaxTop

\* Allocate: the block for a payload of size units, and the heap without it.
Cut(size) ==
    [block |-> top, top |-> top + Header + size,
     headers |-> [headers EXCEPT ![top] = [size |-> size, next |-> Null]],
     smallFree |-> smallFree, largeFree |-> largeFree]

TakeSmall(c) ==
    [block |-> smallFree[c], top |-> top,
     headers |-> [headers EXCEPT ![smallFree[c]].next = Null],
     smallFree |-> [smallFree EXCEPT ![c] = headers[smallFree[c]].next],
     largeFree |-> largeFree]

TakeLarge(n) ==
    LET taken == LargeList[n]
        after == headers[taken].next
        unlinked == [headers EXCEPT ![taken].next = Null]
    IN
    [block |-> taken, top |-> top,
     headers |-> IF n = 0 THEN unlinked ELSE [unlinked EXCEPT ![LargeList[n - 1]].next = after],
     smallFree |-> smallFree,
     largeFree |-> IF n = 0 THEN after ELSE largeFree]

\* Of the large list the first that is large enough.
Fitting(size) ==
    LET list == LargeList IN {n \in Positions : list[n] # Null /\ headers[list[n]].size >= size}

Allocate(size) ==
    LET c == Small_Class(size) IN
    IF c # 0
    THEN IF smallFree[c] # Null THEN TakeSmall(c) ELSE Cut(Small_Class_Size(c))
    ELSE IF Fitting(size) # {} THEN TakeLarge(LeastOf(Fitting(size))) ELSE Cut(size)

Allocates(size) ==
    LET c == Small_Class(size) IN
    IF c # 0 THEN smallFree[c] # Null \/ Room(Small_Class_Size(c))
    ELSE Fitting(size) # {} \/ Room(size)

\* The block that a pointer lives in.
Outer(p) == IF headers[p - Header].next = Mark THEN headers[p - Header].size - Header ELSE p - Header

\* Release: to the list of its class only what has exactly the size of the class.
Release(block) ==
    LET size == headers[block].size
        c == Small_Class(size)
    IN
    IF c # 0 /\ Small_Class_Size(c) = size
    THEN /\ headers' = [headers EXCEPT ![block].next = smallFree[c]]
         /\ smallFree' = [smallFree EXCEPT ![c] = block]
         /\ UNCHANGED <<top, largeFree>>
    ELSE /\ headers' = [headers EXCEPT ![block].next = largeFree]
         /\ largeFree' = block
         /\ UNCHANGED <<top, smallFree>>

\* Usable: an aligned pointer has what is left of its block.
UsableOfBlock(p) == headers[Outer(p)].size
Usable(p) == headers[Outer(p)].size - (p - Header - Outer(p))

-----------------------------------------------------------------------------
Holding(p, size) == [q \in DOMAIN live \union {p} |-> IF q = p THEN size ELSE live[q]]
Without(p) == [q \in DOMAIN live \ {p} |-> live[q]]

\* malloc: a failure changes nothing.
malloc(size) ==
    LET heap == Allocate(size) IN
    /\ Cardinality(DOMAIN live) < MaxLive /\ Allocates(size)
    /\ top' = heap.top /\ headers' = heap.headers
    /\ smallFree' = heap.smallFree /\ largeFree' = heap.largeFree
    /\ live' = Holding(heap.block + Header, size)

free(p) ==
    /\ p \in DOMAIN live
    /\ Release(Outer(p))
    /\ live' = Without(p)

\* realloc in place: the block is large enough.  Otherwise it is a malloc and a free,
\* which other threads may come between.
realloc(p, size) ==
    /\ p \in DOMAIN live /\ size <= Usable(p)
    /\ live' = [live EXCEPT ![p] = size]
    /\ UNCHANGED <<top, headers, smallFree, largeFree>>

\* aligned_alloc: room for the alignment and for a header of its own in front of the
\* aligned pointer, which names the pointer of the block that it lives in.
Aligned(outer, alignment) == Align_Up(outer + Header, alignment)

aligned_alloc(alignment, size) ==
    LET room == size + Header + alignment
        heap == Allocate(room)
        outer == heap.block + Header
        p == Aligned(outer, alignment)
    IN
    /\ Cardinality(DOMAIN live) < MaxLive /\ Allocates(room)
    /\ top' = heap.top
    /\ headers' = [heap.headers EXCEPT ![p - Header] = [size |-> outer, next |-> Mark]]
    /\ smallFree' = heap.smallFree /\ largeFree' = heap.largeFree
    /\ live' = Holding(p, size)

Next ==
    \/ \E size \in Sizes : malloc(size)
    \/ \E p \in DOMAIN live : free(p)
    \/ \E p \in DOMAIN live, size \in Sizes : realloc(p, size)
    \/ \E alignment \in Alignments, size \in Sizes : aligned_alloc(alignment, size)

Spec == Init /\ [][Next]_vars

-----------------------------------------------------------------------------
\* The blocks, as the addresses of their headers: each begins where the one before
\* ends.
Blocks ==
    LET at[n \in Positions] ==
        IF n = 0 THEN Base
        ELSE LET previous == at[n - 1] IN
             IF previous = top THEN top ELSE previous + Header + headers[previous].size
    IN {at[n] : n \in Positions} \ {top}

Chain(first) == LET item == Linked(first) IN {item[n] : n \in Positions} \ {Null}

TypeOK ==
    /\ top \in Base..MaxTop
    /\ headers \in [Places -> [size : 0..MaxTop, next : 0..Mark]]
    /\ smallFree \in [1..Classes -> 0..MaxTop] /\ largeFree \in 0..MaxTop
    /\ DOMAIN live \subseteq Places

\* Every block is in the hands of the module once, or once in the list where its size
\* is looked for: none is lost and none is given out twice.
BlocksAccounted ==
    LET held(b) == Cardinality({p \in DOMAIN live : Outer(p) = b})
        small(b) == Cardinality({c \in 1..Classes : b \in Chain(smallFree[c])})
        large(b) == IF b \in Chain(largeFree) THEN 1 ELSE 0
    IN
    /\ \A b \in Blocks : held(b) + small(b) + large(b) = 1
    /\ \A c \in 1..Classes :
          \A b \in Chain(smallFree[c]) : headers[b].size = Small_Class_Size(c)
    /\ \A p \in DOMAIN live : Outer(p) \in Blocks

\* What the module asked for it has, aligned or not, inside its block and outside of
\* every header that the heap still reads.
PayloadsDisjoint ==
    LET payload(p) == p..(p + live[p] - 1)
        ownHeader(p) == p - Header
    IN
    \A p \in DOMAIN live :
        /\ live[p] <= Usable(p)
        /\ p + Usable(p) = Outer(p) + Header + headers[Outer(p)].size
        /\ payload(p) \intersect (Blocks \union {ownHeader(q) : q \in DOMAIN live}) = {}
        /\ \A q \in DOMAIN live \ {p} : payload(p) \intersect payload(q) = {}

LibcHeapSound == TypeOK /\ BlocksAccounted /\ PayloadsDisjoint
=============================================================================
