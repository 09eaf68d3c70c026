------------------------------- MODULE Promise -------------------------------
(***************************************************************************)
(* The promise core of a module (src/sdk/src/async/promise.cpp): a table   *)
(* of reference-counted records behind one lock, the queue of settled      *)
(* records that still have continuations, and Runtime::Dispatch, which the *)
(* main thread runs at the end of every event, when the host answers a     *)
(* request for it (Runtime::Request_Dispatch and Dispatch_Pending of       *)
(* src/client/src/runtime.cpp), and at shutdown.                           *)
(*                                                                         *)
(* Every critical section under sLock is one step. A reference is held by  *)
(* a thread, by the closure of a continuation, by the ready queue or by a  *)
(* round of Dispatch; a closure or a last reference is destroyed after the *)
(* lock is dropped, so what it held is released by later steps.            *)
(***************************************************************************)
EXTENDS SequencesExt, Vectors

CONSTANTS
    Main,               \* the main thread: it alone runs Dispatch
    Workers,            \* the module's other threads
    MaxRecords,         \* gIndexMask: indexes a handle can name
    Generations,        \* gGenerationMask + 1: generations a handle can tell
    DispatchLimits,     \* values of gDispatchLimit to check
    MaxCreates,         \* bound: promises the module creates
    Outcomes,           \* the states the module settles with
    MaxContinuations,   \* bound: continuations it registers
    MaxCaptures,        \* bound: those whose closure holds a reference
    MaxHeld,            \* bound: references of a thread to one promise
    MaxDepth            \* bound: Dispatch nested in a continuation

ASSUME PromiseAssumption ==
    /\ Main \notin Workers
    /\ Outcomes \subseteq {"Fulfilled", "Rejected"}
    /\ DispatchLimits \subseteq Nat \ {0}
    /\ {MaxRecords, Generations, MaxCreates, MaxContinuations, MaxCaptures, MaxHeld,
        MaxDepth} \subseteq Nat \ {0}

Threads == {Main} \cup Workers
Slots == 1 .. MaxRecords
Ids == 1 .. MaxContinuations
Handles == [slot : Slots, generation : 1 .. MaxCreates]
Nothing == [slot |-> 0, generation |-> 0]       \* the empty handle

VARIABLES
    limit,              \* gDispatchLimit: rounds of one Dispatch, never changed
    records,            \* sRecords: the first size of them exist
    size,
    free,               \* sFreeFirst, nextFree
    ready,              \* sReadyFirst, nextReady, sReadyLast
    stopping,           \* sStopping
    requested,          \* host: module.dispatchPending
    released,           \* host: module.stopping
    shutdown,           \* how far ModLoader_Event_Shutdown has come
    frames,             \* the calls of Dispatch on the main thread's stack
    held,               \* references each thread holds
    dropping,           \* references it is about to release, in order
    continuations,      \* each registered continuation: its promise, what it captured
    fate                \* history: what became of it

tables == <<records, size, free, ready, stopping>>
host == <<limit, requested, released>>
vars == <<limit, records, size, free, ready, stopping, requested, released, shutdown,
          frames, held, dropping, continuations, fate>>

Blank == [generation |-> 0, references |-> 0, state |-> "Pending", first |-> <<>>,
          ready |-> FALSE]

Init ==
    /\ limit \in DispatchLimits
    /\ records = [s \in Slots |-> Blank]
    /\ size = 0
    /\ free = <<>>
    /\ ready = <<>>
    /\ stopping = FALSE
    /\ requested = FALSE
    /\ released = FALSE
    /\ shutdown = "up"
    /\ frames = <<>>
    /\ held = [t \in Threads |-> [h \in Handles |-> 0]]
    /\ dropping = [t \in Threads |-> <<>>]
    /\ continuations = <<>>
    /\ fate = <<>>

-----------------------------------------------------------------------------

\* The main thread runs the module's code in an event, in a continuation, and
\* when its shutdown listeners run after the promises are gone.
InModule(t) ==
    /\ dropping[t] = <<>>
    /\ t = Main => IF frames = <<>> THEN shutdown \in {"up", "down"}
                                    ELSE Last(frames).calling # 0

\* Find: a handle names a record that is referenced and of its generation.
Same(h) == records[h.slot].generation % Generations = h.generation % Generations
Find(h) == h.slot \in 1 .. size /\ records[h.slot].references # 0 /\ Same(h)

HandleOf(s) == [slot |-> s, generation |-> records[s].generation]

\* Make_Ready queues a settled record that has continuations, with a reference.
NewlyReady(r) == ~r.ready /\ r.state # "Pending" /\ r.first # <<>>
QueuedBorrowed(r) == [r EXCEPT !.ready = TRUE]
Queued(r) == [r EXCEPT !.ready = TRUE, !.references = @ + 1]

\* Request_Dispatch: the host takes one request until it answers it.
AcceptsNever == FALSE
Accepts == ~released
Request == requested' = (requested \/ Accepts)

\* The first of an empty queue asks the host for a Dispatch.
MakeReady(s, r, queue) ==
    IF NewlyReady(r)
    THEN /\ records' = [records EXCEPT ![s] = Queued(r)]
         /\ ready' = Append(queue, s)
         /\ IF queue = <<>> THEN Request ELSE UNCHANGED requested
    ELSE /\ records' = [records EXCEPT ![s] = r]
         /\ ready' = queue
         /\ UNCHANGED requested

-----------------------------------------------------------------------------
(* What any thread may call.                                               *)

\* The bound: each record was created once for every generation it has had.
Creations == {c \in Slots \X (1 .. MaxCreates) : c[2] <= records[c[1]].generation}

\* Create reuses the record freed last, or adds one.
Reusable == IF free # <<>> THEN Head(free) ELSE size + 1
Created(s) == [Blank EXCEPT !.generation = records[s].generation + 1, !.references = 1]

Create(t) ==
    /\ InModule(t)
    /\ ~stopping
    /\ \E s \in Slots :
        /\ s = Reusable
        /\ Cardinality(Creations) < MaxCreates
        /\ records' = [records EXCEPT ![s] = Created(s)]
        /\ size' = IF free # <<>> THEN size ELSE s
        /\ free' = IF free # <<>> THEN Tail(free) ELSE free
        /\ held' = [held EXCEPT ![t][HandleOf(s)'] = @ + 1]
    /\ UNCHANGED <<ready, stopping, host, shutdown, frames, dropping, continuations, fate>>

\* A copy of a reference, kept or given to another thread.
Retain(t) ==
    /\ InModule(t)
    /\ \E h \in Handles, u \in Threads :
        /\ held[t][h] > 0
        /\ held[u][h] < MaxHeld
        /\ records' = IF Find(h) THEN [records EXCEPT ![h.slot].references = @ + 1] ELSE records
        /\ held' = [held EXCEPT ![u][h] = @ + 1]
    /\ UNCHANGED <<size, free, ready, stopping, host, shutdown, frames, dropping,
                   continuations, fate>>

\* What a destroyed closure held, as a sequence of handles.
Captured(c) ==
    IF continuations[c].captured = Nothing THEN <<>> ELSE <<continuations[c].captured>>
CapturedBy(cs) ==
    Filter([i \in DOMAIN cs |-> continuations[cs[i]].captured], LAMBDA h : h # Nothing)

\* Release frees the record with its last reference; the continuations it
\* orphans are destroyed, first to last, before the releases of later.
FreedByEarly(r) == r.references <= 2
FreedBy(r) == r.references = 1
Release(t, h, later) ==
    LET s == h.slot
    IN  IF ~Find(h)
        THEN /\ dropping' = [dropping EXCEPT ![t] = later]
             /\ UNCHANGED <<records, free, fate>>
        ELSE IF FreedBy(records[s])
        THEN LET orphans == records[s].first
             IN  /\ records' = [records EXCEPT ![s].references = 0, ![s].first = <<>>]
                 /\ free' = <<s>> \o free
                 /\ dropping' = [dropping EXCEPT ![t] = CapturedBy(orphans) \o later]
                 /\ fate' = [c \in DOMAIN fate |->
                                 IF c \in Range(orphans) THEN "orphaned" ELSE fate[c]]
        ELSE /\ records' = [records EXCEPT ![s].references = @ - 1]
             /\ dropping' = [dropping EXCEPT ![t] = later]
             /\ UNCHANGED <<free, fate>>

\* A thread lets a reference go.
Forget(t) ==
    /\ InModule(t)
    /\ \E h \in Handles :
        /\ held[t][h] > 0
        /\ held' = [held EXCEPT ![t][h] = @ - 1]
        /\ Release(t, h, <<>>)
    /\ UNCHANGED <<size, ready, stopping, host, shutdown, frames, continuations>>

\* A closure or a round that ended lets its references go.
Drop(t) ==
    /\ dropping[t] # <<>>
    /\ Release(t, Head(dropping[t]), Tail(dropping[t]))
    /\ UNCHANGED <<size, ready, stopping, host, shutdown, frames, held, continuations>>

\* Resolve, Reject and Cancel: the first wins.
Settles(r) == r.state = "Pending"
Settle(t) ==
    /\ InModule(t)
    /\ \E h \in Handles, result \in Outcomes :
        /\ held[t][h] > 0
        /\ Find(h)
        /\ Settles(records[h.slot])
        /\ MakeReady(h.slot, [records[h.slot] EXCEPT !.state = result], ready)
    /\ UNCHANGED <<limit, size, free, stopping, released, shutdown, frames, held, dropping,
                   continuations, fate>>

\* Then, Catch and Finally; the closure may take a reference of the thread's.
Added(r, c) == [r EXCEPT !.first = Append(@, c)]
Add(t) ==
    /\ InModule(t)
    /\ Len(continuations) < MaxContinuations
    /\ \E h \in Handles, captured \in Handles \cup {Nothing} :
        /\ held[t][h] > 0
        /\ captured # Nothing => held[t][captured] > (IF captured = h THEN 1 ELSE 0)
        /\ captured # Nothing =>
            Cardinality({c \in DOMAIN continuations : Captured(c) # <<>>}) < MaxCaptures
        /\ held' = IF captured = Nothing THEN held ELSE [held EXCEPT ![t][captured] = @ - 1]
        /\ IF Find(h) /\ ~stopping
           THEN /\ MakeReady(h.slot, Added(records[h.slot], Len(continuations) + 1), ready)
                /\ continuations' = Append(continuations, [promise |-> h, captured |-> captured])
                /\ fate' = Append(fate, "waiting")
                /\ UNCHANGED dropping
           ELSE /\ dropping' = [dropping EXCEPT
                        ![t] = IF captured = Nothing THEN <<>> ELSE <<captured>>]
                /\ UNCHANGED <<records, ready, requested, continuations, fate>>
    /\ UNCHANGED <<limit, size, free, stopping, released, shutdown, frames>>

\* Remove_Continuation leaves a record in the queue even if it empties it.
Detach(t) ==
    /\ InModule(t)
    /\ \E h \in Handles, c \in Ids :
        /\ held[t][h] > 0
        /\ Find(h)
        /\ c \in Range(records[h.slot].first)
        /\ records' = [records EXCEPT ![h.slot].first = Filter(@, LAMBDA d : d # c)]
        /\ fate' = [fate EXCEPT ![c] = "removed"]
        /\ dropping' = [dropping EXCEPT ![t] = Captured(c)]
    /\ UNCHANGED <<size, free, ready, stopping, host, shutdown, frames, held, continuations>>

-----------------------------------------------------------------------------
(* Dispatch, on the main thread.                                           *)

\* A round that has begun to call a continuation remembers its record.
Loop == [round |-> 0, calling |-> 0, handle |-> Nothing, state |-> "Pending"]
Top == frames[Len(frames)]
SetTop(frame) == frames' = [frames EXCEPT ![Len(frames)] = frame]

\* Dispatch is between two rounds.
Looping == frames # <<>> /\ Top.calling = 0 /\ dropping[Main] = <<>>

\* Finish_Event: every event ends with a Dispatch, also one the module is given
\* while a continuation runs.
Event ==
    /\ shutdown = "up"
    /\ InModule(Main)
    /\ Len(frames) < MaxDepth
    /\ frames' = Append(frames, Loop)
    /\ UNCHANGED <<tables, host, shutdown, held, dropping, continuations, fate>>

\* Dispatch_Pending forgets the request before it calls the module.
HostDispatch ==
    /\ requested
    /\ ~released
    /\ InModule(Main)
    /\ frames = <<>>
    /\ requested' = FALSE
    /\ frames' = <<Loop>>
    /\ UNCHANGED <<limit, tables, released, shutdown, held, dropping, continuations, fate>>

\* A round takes one continuation of the first record and queues the record
\* again behind the others if it has more; a record that Remove_Continuation
\* emptied only loses the queue's reference.
Round ==
    /\ Looping
    /\ Top.round < limit
    /\ ready # <<>>
    /\ LET s == Head(ready)
           r == records[s]
           rest == IF r.first = <<>> THEN <<>> ELSE Tail(r.first)
       IN  /\ MakeReady(s, [r EXCEPT !.ready = FALSE, !.first = rest], Tail(ready))
           /\ IF r.first = <<>>
              THEN /\ SetTop([Top EXCEPT !.round = @ + 1])
                   /\ dropping' = [dropping EXCEPT ![Main] = <<HandleOf(s)>>]
                   /\ UNCHANGED fate
              ELSE /\ SetTop([Top EXCEPT !.calling = Head(r.first), !.handle = HandleOf(s),
                                         !.state = r.state])
                   /\ fate' = [fate EXCEPT ![Head(r.first)] = "called"]
                   /\ UNCHANGED dropping
    /\ UNCHANGED <<limit, size, free, stopping, released, shutdown, held, continuations>>

\* The continuation returns: its closure is destroyed, then the round's
\* reference is released.
Return ==
    /\ frames # <<>>
    /\ Top.calling # 0
    /\ dropping[Main] = <<>>
    /\ dropping' = [dropping EXCEPT ![Main] = Captured(Top.calling) \o <<Top.handle>>]
    /\ SetTop([Loop EXCEPT !.round = Top.round + 1])
    /\ UNCHANGED <<tables, host, shutdown, held, continuations, fate>>

\* Dispatch returns when the queue is empty ...
Finished ==
    /\ Looping
    /\ Top.round < limit
    /\ ready = <<>>
    /\ frames' = Front(frames)
    /\ UNCHANGED <<tables, host, shutdown, held, dropping, continuations, fate>>

\* ... or asks to be called again after too many rounds.
AskNever == UNCHANGED requested
AskAgain == Request
Limited ==
    /\ Looping
    /\ Top.round = limit
    /\ AskAgain
    /\ frames' = Front(frames)
    /\ UNCHANGED <<limit, tables, released, shutdown, held, dropping, continuations, fate>>

-----------------------------------------------------------------------------
(* Shutdown: the host stops sending, the module ends its event and then    *)
(* its promises.                                                           *)

\* Shutdown_Modules flags the module; ModLoader_Event_Shutdown drains its tasks
\* and finishes the event.
Shutdown ==
    /\ shutdown = "up"
    /\ InModule(Main)
    /\ frames = <<>>
    /\ released' = TRUE
    /\ shutdown' = "flush"
    /\ frames' = <<Loop>>
    /\ UNCHANGED <<limit, tables, requested, held, dropping, continuations, fate>>

\* The pending promises that Promises_Shutdown rejects.
Abandoned(s) == s <= size /\ records[s].references # 0 /\ records[s].state = "Pending"

RejectAll ==
    /\ shutdown = "flush"
    /\ frames = <<>>
    /\ stopping' = TRUE
    /\ shutdown' = "drain"
    /\ frames' = <<Loop>>
    /\ LET Rejected(s) == [records[s] EXCEPT !.state = "Rejected"]
           Wakes(s) == Abandoned(s) /\ NewlyReady(Rejected(s))
       IN  /\ records' = [s \in Slots |-> IF Wakes(s) THEN Queued(Rejected(s))
                                          ELSE IF Abandoned(s) THEN Rejected(s)
                                          ELSE records[s]]
           /\ ready' = ready \o Filter([s \in Slots |-> s], Wakes)
    /\ UNCHANGED <<size, free, host, held, dropping, continuations, fate>>

\* Its loop dispatches until the queue is empty.
Drained == ready = <<>>
Drain ==
    /\ shutdown = "drain"
    /\ frames = <<>>
    /\ dropping[Main] = <<>>
    /\ IF Drained
       THEN shutdown' = "retire" /\ UNCHANGED frames
       ELSE frames' = <<Loop>> /\ UNCHANGED shutdown
    /\ UNCHANGED <<tables, host, held, dropping, continuations, fate>>

\* The table is taken away; continuations it still held are lost.
Retire ==
    /\ shutdown = "retire"
    /\ shutdown' = "down"
    /\ LET left == FlattenSeq([s \in Slots |-> records[s].first])
       IN  /\ dropping' = [dropping EXCEPT ![Main] = CapturedBy(left)]
           /\ fate' = [c \in DOMAIN fate |-> IF c \in Range(left) THEN "lost" ELSE fate[c]]
    /\ records' = [s \in Slots |-> Blank]
    /\ size' = 0
    /\ free' = <<>>
    /\ ready' = <<>>
    /\ UNCHANGED <<stopping, host, frames, held, continuations>>

-----------------------------------------------------------------------------

Call(t) == Create(t) \/ Retain(t) \/ Forget(t) \/ Settle(t) \/ Add(t) \/ Detach(t)

Next ==
    \/ \E t \in Threads : Call(t) \/ Drop(t)
    \/ Event \/ HostDispatch \/ Round \/ Return \/ Finished \/ Limited
    \/ Shutdown \/ RejectAll \/ Drain \/ Retire

Spec == Init /\ [][Next]_vars

\* The host calls Dispatch_Pending every frame, the main thread runs on, and a
\* continuation the module registered returns after finitely many calls.
Fairness ==
    /\ \A t \in Threads : WF_vars(Drop(t))
    /\ SF_vars(HostDispatch) /\ SF_vars(Return)
    /\ WF_vars(Round) /\ WF_vars(Finished) /\ WF_vars(Limited)
    /\ WF_vars(RejectAll) /\ WF_vars(Drain) /\ WF_vars(Retire)

FairSpec == Spec /\ Fairness

-----------------------------------------------------------------------------
(* Properties.                                                             *)

Fates == {"waiting", "called", "removed", "orphaned", "lost"}
HandlesOrNothing == Handles \cup {Nothing}

\* Every variable of the promise core keeps its type.
TypeOK ==
    /\ records \in [Slots -> [generation : 0 .. MaxCreates, references : Nat,
                              state : {"Pending", "Fulfilled", "Rejected"},
                              first : Seq(Ids), ready : BOOLEAN]]
    /\ limit \in DispatchLimits
    /\ size \in 0 .. MaxRecords
    /\ free \in Seq(Slots)
    /\ ready \in Seq(Slots)
    /\ stopping \in BOOLEAN /\ requested \in BOOLEAN /\ released \in BOOLEAN
    /\ shutdown \in {"up", "flush", "drain", "retire", "down"}
    /\ frames \in Seq([round : 0 .. limit, calling : 0 .. MaxContinuations,
                       handle : HandlesOrNothing,
                       state : {"Pending", "Fulfilled", "Rejected"}])
    /\ held \in [Threads -> [Handles -> 0 .. MaxHeld]]
    /\ dropping \in [Threads -> Seq(Handles)]
    /\ continuations \in Seq([promise : Handles, captured : HandlesOrNothing])
    /\ fate \in [DOMAIN continuations -> Fates]

Live(s) == s <= size /\ records[s].references # 0

\* The intrusive queue holds each record at most once, and exactly the flagged
\* ones; it never holds one that is freed or pending, and it holds every settled
\* record that still has continuations.
QueueSound ==
    /\ IsInjective(ready)
    /\ \A s \in Slots :
        /\ records[s].ready <=> s \in Range(ready)
        /\ records[s].ready => Live(s) /\ records[s].state # "Pending"
        /\ Live(s) /\ records[s].state # "Pending" /\ records[s].first # <<>>
            => records[s].ready

\* Everything that can still use a handle: threads, destructors, closures that
\* have not been destroyed, the queue and the rounds of Dispatch.
Pairs(F) == UNION {{<<t, i>> : i \in F[t]} : t \in Threads}
HeldBy(h) == Pairs([t \in Threads |-> 1 .. held[t][h]])
DroppedBy(h) == Pairs([t \in Threads |-> {i \in DOMAIN dropping[t] : dropping[t][i] = h}])
Alive(c) == fate[c] = "waiting" \/ \E i \in DOMAIN frames : frames[i].calling = c
CapturedIn(h) == {c \in DOMAIN continuations : Alive(c) /\ continuations[c].captured = h}
QueuedAs(h) == {s \in Range(ready) : h = HandleOf(s)}
RoundsOf(h) == {i \in DOMAIN frames : frames[i].calling # 0 /\ frames[i].handle = h}
Users(h) ==
    Cardinality(HeldBy(h)) + Cardinality(DroppedBy(h)) + Cardinality(CapturedIn(h))
    + Cardinality(QueuedAs(h)) + Cardinality(RoundsOf(h))

\* The count of a record is exactly the number of its users, so no record is
\* freed, and no generation of it passes, under a thread that holds its handle,
\* across settling, queueing, nested dispatch and closures that own promises.
ReferencesAccounted ==
    shutdown # "down" =>
        \A h \in Handles :
            Users(h) = IF Live(h.slot) /\ h = HandleOf(h.slot)
                       THEN records[h.slot].references ELSE 0

\* No wakeup is lost: whenever a settled promise has continuations queued, the
\* host owes the module a Dispatch or the main thread is inside one. The request
\* is made only by the first of an empty queue, and the host forgets it before
\* it calls.
NoLostDispatch ==
    ready # <<>> /\ ~released => requested \/ frames # <<>>

\* The queue is sound and somebody will serve it.
QueueServed == TypeOK /\ QueueSound /\ NoLostDispatch

\* Continuations of one promise are called in the order they were registered,
\* whatever is removed or dispatched in between.
CalledInOrder ==
    \A c, d \in DOMAIN continuations :
        c < d /\ continuations[c].promise = continuations[d].promise
            /\ fate[d] = "called" => fate[c] # "waiting"

\* While a continuation runs, its promise exists and keeps the result the
\* continuation was given, also when the callback or another thread releases
\* every other reference.
CallbackSeesResult ==
    shutdown # "down" =>
        \A i \in DOMAIN frames : frames[i].calling # 0 =>
            LET h == frames[i].handle
            IN  /\ Live(h.slot) /\ h = HandleOf(h.slot)
                /\ frames[i].state # "Pending"
                /\ frames[i].state = records[h.slot].state

\* Shutdown rejects what is pending and calls what waits on it: it never throws
\* away a continuation, and after it none waits.
ShutdownCallsAll ==
    /\ \A c \in DOMAIN fate : fate[c] # "lost"
    /\ shutdown = "down" => \A c \in DOMAIN fate : fate[c] # "waiting"

\* Continuations are called in order, with the result of their promise, and the
\* shutdown forgets none.
CallbacksSound == CalledInOrder /\ CallbackSeesResult /\ ShutdownCallsAll

\* A continuation of a settled promise is eventually called, removed or
\* destroyed with its promise; none is starved by others or forgotten.
Due(c) ==
    /\ c \in DOMAIN fate
    /\ fate[c] = "waiting"
    /\ records[continuations[c].promise.slot].state # "Pending"
Done(c) == c \in DOMAIN fate /\ fate[c] # "waiting"
EveryContinuationEnds == \A c \in Ids : Due(c) ~> Done(c)

\* Promises_Shutdown returns: continuations that register or settle more while
\* it drains the queue cannot keep it going for ever.
ShutdownEnds == shutdown = "flush" ~> shutdown = "down"

\* Continuations end while the module runs, and when it shuts down.
ContinuationsEnd == EveryContinuationEnds /\ ShutdownEnds

=============================================================================
