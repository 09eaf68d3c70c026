----------------------------- MODULE Coroutine -----------------------------
(***************************************************************************)
(* Coroutines on promises: sdk/src/async/coroutine.cpp over the promises   *)
(* of promise.cpp, of which this module keeps the state, the continuations *)
(* and the queue of settled promises.  A suspended frame waits for what it *)
(* awaits and for its own result, which others may settle first.  Frames   *)
(* run on the main thread; promises are settled from any.                  *)
(***************************************************************************)
EXTENDS SequencesExt, Vectors

CONSTANTS
    Coroutines,         \* each with its frame; its result promise has the same name
    Promises,           \* the other promises
    MaxWaits,           \* suspensions of the checked instance
    MaxDepth            \* frames that run inside each other

\* The module that instantiates this one assumes it of its constants.
CoroutineAssumption ==
    /\ Coroutines \intersect Promises = {}
    /\ IsFiniteSet(Coroutines) /\ IsFiniteSet(Promises)
    /\ MaxWaits \in Nat /\ MaxDepth \in Nat \ {0}

Handles == Coroutines \union Promises

VARIABLES
    state,              \* of every promise
    conts,              \* promise -> waits with a continuation in it, in order
    ready,              \* the queue of settled promises with continuations
    frame,              \* of every coroutine
    waits,              \* the Wait records, in the order of their creation
    running,            \* the frames that run, the innermost last
    stopping            \* sStopping

vars == <<state, conts, ready, frame, waits, running, stopping>>

Init ==
    /\ state = [h \in Handles |-> "pending"]
    /\ conts = [h \in Handles |-> <<>>]
    /\ ready = <<>>
    /\ frame = [c \in Coroutines |-> "none"]
    /\ waits = <<>> /\ running = <<>> /\ stopping = FALSE

-----------------------------------------------------------------------------
(* What the promises do, as functions of their state                        *)

\* Make_Ready for promise h, when its continuations are cs and its state is s.
Readied(queue, h, cs, s) ==
    IF s = "pending" \/ cs = <<>> \/ h \in ToSet(queue) THEN queue ELSE Append(queue, h)

\* Settle: the first answer counts.
Settled(h, s) ==
    /\ state' = [state EXCEPT ![h] = IF @ = "pending" THEN s ELSE @]
    /\ ready' = Readied(ready, h, conts[h], "settled")

Settle(h, s) ==
    /\ state[h] = "pending"
    /\ h \in Coroutines => frame[h] # "none"
    /\ Settled(h, s)
    /\ UNCHANGED <<conts, frame, waits, running, stopping>>

-----------------------------------------------------------------------------
(* Finish                                                                   *)

\* Taking the frame out of the record, so that whoever comes second finds none.
Kept(w) == waits
Emptied(w) == [waits EXCEPT ![w].holds = FALSE]

\* Wait record w is over, with continuations cs, queue q and states st: the frame runs
\* on, unless its result was settled or takes over the rejection.
Finish(w, cs, q, st) ==
    LET wait == waits[w]
        owner == wait.owner
        left == [h \in Handles |-> IF h \in {owner, wait.awaited}
                                    THEN Filter(cs[h], LAMBDA d : d # w) ELSE cs[h]]
        overtaken == st[owner] # "pending"
        propagates == wait.propagate /\ st[wait.awaited] = "rejected"
    IN
    IF ~wait.holds
    THEN /\ conts' = cs /\ ready' = q /\ state' = st
         /\ UNCHANGED <<frame, waits, running>>
    ELSE /\ conts' = left
         /\ waits' = Emptied(w)
         /\ IF overtaken \/ propagates
            THEN /\ frame' = [frame EXCEPT ![owner] = "destroyed"]
                 /\ state' = IF overtaken THEN st ELSE [st EXCEPT ![owner] = "rejected"]
                 /\ ready' = IF overtaken THEN q ELSE Readied(q, owner, left[owner], "rejected")
                 /\ UNCHANGED running
            ELSE /\ frame' = [frame EXCEPT ![owner] = "running"]
                 /\ running' = Append(running, owner)
                 /\ state' = st /\ ready' = q

\* Runtime::Dispatch, one round: the first continuation of the first promise of the
\* queue, which goes back to the end while it has others.  Events nest, so this may
\* happen while a frame runs.
Dispatch ==
    /\ ready # <<>> /\ Len(running) < MaxDepth
    /\ LET h == ready[1]
           cs == [conts EXCEPT ![h] = IF @ = <<>> THEN @ ELSE Tail(@)]
           q == Readied(Tail(ready), h, cs[h], state[h])
       IN
       IF conts[h] = <<>>
       THEN ready' = q /\ UNCHANGED <<state, conts, frame, waits, running>>
       ELSE Finish(conts[h][1], cs, q, state)
    /\ UNCHANGED stopping

-----------------------------------------------------------------------------
(* The coroutines                                                           *)

\* The first part runs in the call that makes the coroutine.
Start(c) ==
    /\ frame[c] = "none" /\ Len(running) < MaxDepth
    /\ frame' = [frame EXCEPT ![c] = "running"]
    /\ running' = Append(running, c)
    /\ UNCHANGED <<state, conts, ready, waits, stopping>>

\* await_ready is false.
Suspends(h, propagate) ==
    IF propagate THEN state[h] # "fulfilled" ELSE state[h] = "pending"

\* What can be awaited by the innermost frame.
Awaits(c, h, propagate) ==
    /\ running # <<>> /\ h # c
    /\ h \in Coroutines => frame[h] # "none"
    /\ Suspends(h, propagate)

\* The queue after the calls of Finally that gave the promises the continuations cs.
Registered(cs, c, h) ==
    Readied(Readied(ready, h, cs[h], state[h]), c, cs[c], state[c])

\* Suspend_On.
Await(h, propagate) ==
    LET c == Last(running)
        w == Len(waits) + 1
        cs == [p \in Handles |-> IF p \in {h, c} THEN Append(conts[p], w) ELSE conts[p]]
    IN
    /\ Awaits(c, h, propagate) /\ w <= MaxWaits /\ ~stopping
    /\ waits' = Append(waits, [awaited |-> h, owner |-> c, propagate |-> propagate, holds |-> TRUE])
    /\ conts' = cs
    /\ ready' = Registered(cs, c, h)
    /\ frame' = [frame EXCEPT ![c] = "suspended"]
    /\ running' = Front(running)
    /\ UNCHANGED <<state, stopping>>

\* Suspend_On with no memory for one of the two, or with promises that stop: the
\* result is rejected, the other continuation removed and the frame destroyed.  A
\* promise that was queued for it stays queued.
AwaitFails(h, propagate, registered) ==
    LET c == Last(running)
        w == Len(waits) + 1
        cs == [p \in Handles |-> IF p \in registered THEN Append(conts[p], w) ELSE conts[p]]
    IN
    /\ Awaits(c, h, propagate)
    /\ registered \subseteq {h, c} /\ registered # {h, c}
    /\ stopping => registered = {}
    /\ state' = [state EXCEPT ![c] = IF @ = "pending" THEN "rejected" ELSE @]
    /\ ready' = Readied(Registered(cs, c, h), c, cs[c], "rejected")
    /\ frame' = [frame EXCEPT ![c] = "destroyed"]
    /\ running' = Front(running)
    /\ UNCHANGED <<conts, waits, stopping>>

\* return_value: the result is fulfilled, unless it was settled, and the frame ends.
Return ==
    LET c == Last(running) IN
    /\ running # <<>>
    /\ Settled(c, "fulfilled")
    /\ frame' = [frame EXCEPT ![c] = "ended"]
    /\ running' = Front(running)
    /\ UNCHANGED <<conts, waits, stopping>>

\* Promises_Shutdown, outside of every frame: whatever is pending is rejected, then the
\* queue is served to its end.
Promises_Shutdown ==
    LET late == SetToSeq({h \in Handles : conts[h] # <<>> /\ h \notin ToSet(ready)}) IN
    /\ ~stopping /\ running = <<>>
    /\ stopping' = TRUE
    /\ state' = [h \in Handles |-> IF state[h] = "pending" THEN "rejected" ELSE state[h]]
    /\ ready' = ready \o late
    /\ UNCHANGED <<conts, frame, waits, running>>

Next ==
    \/ \E h \in Handles, s \in {"fulfilled", "rejected"} : Settle(h, s)
    \/ \E c \in Coroutines : Start(c)
    \/ \E h \in Handles, propagate \in BOOLEAN : Await(h, propagate)
    \/ \E h \in Handles, propagate \in BOOLEAN, registered \in SUBSET Handles :
          AwaitFails(h, propagate, registered)
    \/ Return
    \/ Dispatch
    \/ Promises_Shutdown

Spec == Init /\ [][Next]_vars

-----------------------------------------------------------------------------
TypeOK ==
    /\ state \in [Handles -> {"pending", "fulfilled", "rejected"}]
    /\ \A h \in Handles : ToSet(conts[h]) \subseteq 1..Len(waits)
    /\ ToSet(ready) \subseteq Handles
    /\ frame \in [Coroutines -> {"none", "running", "suspended", "ended", "destroyed"}]
    /\ \A w \in DOMAIN waits :
          waits[w] \in [awaited : Handles, owner : Coroutines, propagate : BOOLEAN, holds : BOOLEAN]
    /\ running \in Seq(Coroutines) /\ stopping \in BOOLEAN

\* One record holds a suspended frame and no record any other: whichever promise
\* settles second finds none to resume or destroy again, and no frame is inside itself.
EachFrameHeldOnce ==
    /\ \A c \in Coroutines :
          Cardinality({w \in DOMAIN waits : waits[w].owner = c /\ waits[w].holds})
             = IF frame[c] = "suspended" THEN 1 ELSE 0
    /\ IsInjective(running)
    /\ ToSet(running) = {c \in Coroutines : frame[c] = "running"}

\* A record that holds a frame is reached from both promises, and one of them that is
\* settled is in the queue; nothing is left of the others.
NoFrameForgotten ==
    /\ \A w \in DOMAIN waits, h \in Handles :
          waits[w].holds /\ h \in {waits[w].awaited, waits[w].owner} <=> w \in ToSet(conts[h])
    /\ \A h \in Handles : state[h] # "pending" /\ conts[h] # <<>> => h \in ToSet(ready)

\* A frame that is gone has answered, and the shutdown leaves none suspended.
GoneMeansAnswered ==
    /\ \A c \in Coroutines : frame[c] \in {"ended", "destroyed"} => state[c] # "pending"
    /\ stopping /\ ready = <<>> => \A c \in Coroutines : frame[c] # "suspended"

CoroutinesSound == TypeOK /\ EachFrameHeldOnce /\ NoFrameForgotten /\ GoneMeansAnswered
=============================================================================
