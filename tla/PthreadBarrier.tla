--------------------------- MODULE PthreadBarrier ---------------------------
(***************************************************************************)
(* pthread_barrier_t of the module libc (src/sdk/libc/src/pthread.cpp):    *)
(* arrivals counted under a mutex, a generation that the last arrival      *)
(* advances, and a broadcast after the mutex is dropped.                   *)
(*                                                                         *)
(* Any number of threads may use a barrier of Count; the program is any    *)
(* one in which each thread waits at most MaxCalls times.                  *)
(***************************************************************************)
EXTENDS PthreadCondition

CONSTANTS
    Count,          \* barrier->count, not 0: pthread_barrier_init refuses 0
    MaxCalls,       \* calls of pthread_barrier_wait a thread makes
    GenerationMod   \* 2^32, the values of the 32-bit generation

VARIABLES
    arrived,        \* barrier->arrived
    generation,     \* barrier->generation
    joined,         \* the local generation of a call
    calls,          \* calls a thread made
    entered,        \* history: arrivals so far
    left,           \* history: calls that returned
    serials         \* history: calls that returned PTHREAD_BARRIER_SERIAL_THREAD

barrierVars == <<arrived, generation, joined, calls, entered, left, serials>>
vars == <<condVars, timed, pc, barrierVars>>

Init ==
    /\ CondInit
    /\ arrived = 0
    /\ generation = 0
    /\ joined = [t \in Threads |-> 0]
    /\ calls = [t \in Threads |-> 0]
    /\ entered = 0
    /\ left = 0
    /\ serials = 0

-----------------------------------------------------------------------------

\* pthread_barrier_wait takes the mutex.
Call(t) ==
    /\ pc[t] = "idle"
    /\ calls[t] < MaxCalls
    /\ Take(t)
    /\ calls' = [calls EXCEPT ![t] = @ + 1]
    /\ Goto(t, "arrive")
    /\ UNCHANGED <<sequence, asleep, seen, expired, timed, arrived, generation,
                   joined, entered, left, serials>>

\* Not the last of its generation: it waits.
Last == arrived + 1 = Count
Arrive(t) ==
    /\ pc[t] = "arrive"
    /\ ~Last
    /\ arrived' = arrived + 1
    /\ joined' = [joined EXCEPT ![t] = generation]
    /\ entered' = entered + 1
    /\ Goto(t, "wait")
    /\ UNCHANGED <<condVars, timed, generation, calls, left, serials>>

\* The last one opens the next generation and drops the mutex; it broadcasts
\* and returns PTHREAD_BARRIER_SERIAL_THREAD.
NoArrivals == 0
NextGeneration == (generation + 1) % GenerationMod
Open(t) ==
    /\ pc[t] = "arrive"
    /\ Last
    /\ arrived' = NoArrivals
    /\ generation' = NextGeneration
    /\ entered' = entered + 1
    /\ Drop(t)
    /\ Goto(t, "bump")
    /\ UNCHANGED <<sequence, asleep, seen, expired, timed, joined, calls, left, serials>>

OpenEnds(t) ==
    /\ Broadcast(t, "idle")
    /\ serials' = serials + 1
    /\ left' = left + 1
    /\ UNCHANGED <<timed, arrived, generation, joined, calls, entered>>

\* A waiter that is back from Condition_Wait waits on in its own generation ...
WaitAgain(t) ==
    /\ pc[t] = "again"
    /\ generation = joined[t]
    /\ Goto(t, "wait")
    /\ UNCHANGED <<condVars, timed, barrierVars>>

\* ... and returns in a later one.
Pass(t) ==
    /\ pc[t] = "again"
    /\ generation # joined[t]
    /\ Drop(t)
    /\ seen' = [seen EXCEPT ![t] = 0]
    /\ joined' = [joined EXCEPT ![t] = 0]
    /\ left' = left + 1
    /\ Goto(t, "idle")
    /\ UNCHANGED <<sequence, asleep, expired, timed, arrived, generation, calls,
                   entered, serials>>

Continue(t) ==
    \/ Arrive(t) \/ Open(t) \/ OpenEnds(t) \/ WaitAgain(t) \/ Pass(t)
    \/ (CondStep(t) \/ Relock(t, "again") \/ Bump(t)) /\ UNCHANGED barrierVars

Next == \E t \in Threads : Call(t) \/ Continue(t)

Spec == Init /\ [][Next]_vars
FairSpec == Spec /\ \A t \in Threads : WF_vars(Continue(t))

-----------------------------------------------------------------------------

Waiting == {t \in Threads : pc[t] \in {"wait", "drop", "doze", "asleep", "relock", "again"}}

\* Every variable keeps its type; the arrivals stay below the count.
TypeOK ==
    /\ CondTypeOK
    /\ pc \in [Threads -> CondPlaces \cup {"idle", "arrive", "again"}]
    /\ arrived \in 0..(Count - 1)
    /\ generation \in 0..(GenerationMod - 1)
    /\ joined \in [Threads -> 0..(GenerationMod - 1)]
    /\ calls \in [Threads -> 0..MaxCalls]

\* The arrivals the barrier counts are exactly the threads that wait in the
\* current generation: a thread still on its way out of an earlier one is not
\* among them, however often the others come round again meanwhile.
ArrivalsAreWaiting == arrived = Cardinality({t \in Waiting : joined[t] = generation})

\* A barrier releases in groups: nobody returns before Count threads arrived,
\* every complete generation opens for Count threads in all, and one of each
\* group is told to be the serial thread.
ReleasesWholeGroups ==
    /\ left <= Count * (entered \div Count)
    /\ serials <= entered \div Count
    /\ (\A t \in Threads : pc[t] \in {"idle", "asleep"}) /\ arrived = 0
         => left = entered /\ serials * Count = left

\* Although the broadcast comes after the mutex is dropped, no thread sleeps
\* on in a generation that has passed without a broadcast under way.
NoStrandedWaiter ==
    \A t \in asleep : generation # joined[t] =>
        \E u \in Threads : pc[u] \in {"bump", "wake"}

\* A thread that waits in a generation that has passed returns.
Passed(t) == t \in Waiting /\ generation # joined[t]
PassedReturn == \A t \in Threads : Passed(t) ~> pc[t] = "idle"

=============================================================================
