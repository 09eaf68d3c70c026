----------------------------- MODULE MutexService -----------------------------
(***************************************************************************)
(* What a mutex of the module libc promises its callers, whatever its      *)
(* type: one thread holds it, possibly several times, and a call ends      *)
(* either with one more acquisition or with none.  PthreadMutex implements *)
(* it; the read-write lock and the barrier are built on it.                *)
(***************************************************************************)
EXTENDS Integers

CONSTANTS
    Threads,    \* guest threads
    Nobody      \* no thread

VARIABLES
    holder,     \* the thread that holds the mutex, or Nobody
    depth       \* how many acquisitions it has not released

vars == <<holder, depth>>

Init == holder = Nobody /\ depth = 0

\* A free mutex goes to one caller.
Acquire(t) ==
    /\ holder = Nobody
    /\ holder' = t
    /\ depth' = 1

\* A recursive mutex counts the further acquisitions of its holder.
Reacquire(t) ==
    /\ holder = t
    /\ depth' = depth + 1
    /\ UNCHANGED holder

\* An inner unlock keeps the mutex.
Unwind(t) ==
    /\ holder = t
    /\ depth > 1
    /\ depth' = depth - 1
    /\ UNCHANGED holder

\* The last unlock frees it.
Release(t) ==
    /\ holder = t
    /\ depth = 1
    /\ holder' = Nobody
    /\ depth' = 0

Next == \E t \in Threads : Acquire(t) \/ Reacquire(t) \/ Unwind(t) \/ Release(t)

Spec == Init /\ [][Next]_vars

===============================================================================
