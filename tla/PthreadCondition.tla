--------------------------- MODULE PthreadCondition ---------------------------
(***************************************************************************)
(* pthread_cond_t of the module libc (src/sdk/libc/src/pthread.cpp): a     *)
(* sequence number that a signal increments and a waiter sleeps on.  This  *)
(* module holds the state and the steps of Condition_Wait, pthread_cond_   *)
(* signal and pthread_cond_broadcast; PthreadRwlock and PthreadBarrier     *)
(* extend it with the code that calls them.                                *)
(*                                                                         *)
(* The mutex beside the condition is the abstract one of MutexService,     *)
(* which PthreadMutex is proved to implement: a thread that finds it taken *)
(* waits in its Lock step.  It is of the normal type there.                *)
(***************************************************************************)
EXTENDS Integers, FiniteSets

CONSTANTS
    Threads,        \* guest threads
    Nobody,         \* no thread
    SequenceMod     \* 2^32, the values of the 32-bit sequence

ASSUME ConditionAssumption ==
    /\ Nobody \notin Threads
    /\ SequenceMod \in Nat \ {0}

VARIABLES
    holder,         \* the thread that has the mutex
    sequence,       \* condition->sequence
    asleep,         \* threads in memory.atomic.wait32 on the sequence
    seen,           \* Condition_Wait's local sequence
    expired,        \* its result is ETIMEDOUT
    timed,          \* the call has a deadline
    pc              \* where each thread is in a call

condVars == <<holder, sequence, asleep, seen, expired>>

\* The places of Condition_Wait and of a signal.
CondPlaces == {"wait", "drop", "doze", "asleep", "relock", "bump", "wake"}

CondInit ==
    /\ holder = Nobody
    /\ sequence = 0
    /\ asleep = {}
    /\ seen = [t \in Threads |-> 0]
    /\ expired = [t \in Threads |-> FALSE]
    /\ timed = [t \in Threads |-> FALSE]
    /\ pc = [t \in Threads |-> "idle"]

Goto(t, place) == pc' = [pc EXCEPT ![t] = place]

\* Mutex_Lock and pthread_mutex_unlock, as the callers see them.
Take(t) == holder = Nobody /\ holder' = t
Drop(t) == holder = t /\ holder' = Nobody

-----------------------------------------------------------------------------

\* Condition_Wait first reads the sequence, with the mutex still held ...
ReadSequence(t) ==
    /\ pc[t] = "wait"
    /\ seen' = [seen EXCEPT ![t] = sequence]
    /\ Goto(t, "drop")
    /\ UNCHANGED <<holder, sequence, asleep, expired, timed>>

\* ... unlocks the mutex ...
Leave(t) ==
    /\ pc[t] = "drop"
    /\ Drop(t)
    /\ Goto(t, "doze")
    /\ UNCHANGED <<sequence, asleep, seen, expired, timed>>

\* ... does not sleep at all if the deadline passed by now ...
Late(t) ==
    /\ pc[t] = "doze"
    /\ timed[t]
    /\ expired' = [expired EXCEPT ![t] = TRUE]
    /\ Goto(t, "relock")
    /\ UNCHANGED <<holder, sequence, asleep, seen, timed>>

\* ... nor if the sequence moved; wait32 compares and sleeps in one step ...
NeverStale(t) == FALSE
Stale(t) == sequence # seen[t]
Doze(t) ==
    /\ pc[t] = "doze"
    /\ expired' = [expired EXCEPT ![t] = FALSE]
    /\ IF Stale(t)
         THEN Goto(t, "relock") /\ UNCHANGED asleep
         ELSE asleep' = asleep \cup {t} /\ Goto(t, "asleep")
    /\ UNCHANGED <<holder, sequence, seen, timed>>

\* ... sleeps until a wakeup or the deadline ...
Expire(t) ==
    /\ pc[t] = "asleep"
    /\ timed[t]
    /\ asleep' = asleep \ {t}
    /\ expired' = [expired EXCEPT ![t] = TRUE]
    /\ Goto(t, "relock")
    /\ UNCHANGED <<holder, sequence, seen, timed>>

\* ... and locks the mutex again, without a deadline, before it returns to
\* the loop that called it.
Relock(t, loop) ==
    /\ pc[t] = "relock"
    /\ Take(t)
    /\ Goto(t, loop)
    /\ UNCHANGED <<sequence, asleep, seen, expired, timed>>

\* A signal moves the sequence first ...
Bumped == (sequence + 1) % SequenceMod
Bump(t) ==
    /\ pc[t] = "bump"
    /\ sequence' = Bumped
    /\ Goto(t, "wake")
    /\ UNCHANGED <<holder, asleep, seen, expired, timed>>

\* ... and then wakes the sleepers; a broadcast wakes all of them.
Broadcast(t, place) ==
    /\ pc[t] = "wake"
    /\ asleep' = {}
    /\ pc' = [u \in Threads |-> IF u = t THEN place
                                ELSE IF u \in asleep THEN "relock" ELSE pc[u]]
    /\ UNCHANGED <<holder, sequence, seen, expired, timed>>

\* The steps a waiter takes by itself.
CondStep(t) == ReadSequence(t) \/ Leave(t) \/ Doze(t)

\* The steps its deadline takes.
CondDeadline(t) == Late(t) \/ Expire(t)

CondTypeOK ==
    /\ holder \in Threads \cup {Nobody}
    /\ sequence \in 0..(SequenceMod - 1)
    /\ asleep \subseteq Threads
    /\ seen \in [Threads -> 0..(SequenceMod - 1)]
    /\ expired \in [Threads -> BOOLEAN]
    /\ timed \in [Threads -> BOOLEAN]

===============================================================================
