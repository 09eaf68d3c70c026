---------------------------- MODULE PthreadRwlock ----------------------------
(***************************************************************************)
(* pthread_rwlock_t of the module libc (src/sdk/libc/src/pthread.cpp): two *)
(* counters under a mutex, and a condition that every unlock broadcasts    *)
(* after it has dropped the mutex.                                         *)
(*                                                                         *)
(* The program is any one in which a thread unlocks what it locked; it has *)
(* at most one lock at a time and makes at most MaxCalls lock calls.       *)
(***************************************************************************)
EXTENDS PthreadCondition

CONSTANT MaxCalls   \* lock calls of a thread

VARIABLES
    readers,        \* lock->readers
    writer,         \* lock->writer
    wants,          \* the call of a thread is for "read" or "write"
    mode,           \* history: what the program holds, or "none"
    calls           \* lock calls a thread made

vars == <<condVars, timed, pc, readers, writer, wants, mode, calls>>
lockVars == <<readers, writer, wants, mode, calls>>

Init ==
    /\ CondInit
    /\ readers = 0
    /\ writer = 0
    /\ wants = [t \in Threads |-> "read"]
    /\ mode = [t \in Threads |-> "none"]
    /\ calls = [t \in Threads |-> 0]

-----------------------------------------------------------------------------

\* The condition of the two loops; a mutant lets a writer in beside readers.
BlockedByWriter(t) == writer # 0
Blocked(t) == writer # 0 \/ (wants[t] = "write" /\ readers # 0)

\* pthread_rwlock_rdlock, _wrlock, their timed and their try forms take the
\* mutex first.
Call(t, what, place) ==
    /\ pc[t] = "idle"
    /\ mode[t] = "none"
    /\ calls[t] < MaxCalls
    /\ Take(t)
    /\ calls' = [calls EXCEPT ![t] = @ + 1]
    /\ wants' = [wants EXCEPT ![t] = what]
    /\ Goto(t, place)
    /\ UNCHANGED <<sequence, asleep, seen, expired, readers, writer, mode>>

Lock(t) ==
    \E what \in {"read", "write"}, deadline \in BOOLEAN :
        /\ timed' = [timed EXCEPT ![t] = deadline]
        /\ Call(t, what, "test")

TryLock(t) ==
    \E what \in {"read", "write"} : Call(t, what, "try") /\ UNCHANGED timed

\* A returning call forgets its locals.
Forget(t) ==
    /\ seen' = [seen EXCEPT ![t] = 0]
    /\ expired' = [expired EXCEPT ![t] = FALSE]
    /\ timed' = [timed EXCEPT ![t] = FALSE]
    /\ wants' = [wants EXCEPT ![t] = "read"]

\* The loop of Read_Lock and Write_Lock gives up with ETIMEDOUT when the wait
\* timed out and it is blocked still; a try gives up with EBUSY ...
GivesUp(t) == pc[t] = "try" \/ (pc[t] = "again" /\ expired[t])
GiveUp(t) ==
    /\ pc[t] \in {"again", "try"}
    /\ GivesUp(t)
    /\ Blocked(t)
    /\ Drop(t)
    /\ Forget(t)
    /\ Goto(t, "idle")
    /\ UNCHANGED <<sequence, asleep, readers, writer, mode, calls>>

\* ... and otherwise waits while blocked ...
Await(t) ==
    /\ pc[t] \in {"test", "again"}
    /\ ~GivesUp(t)
    /\ Blocked(t)
    /\ Goto(t, "wait")
    /\ UNCHANGED <<condVars, timed, lockVars>>

\* ... until it counts itself in and drops the mutex.
Enter(t) ==
    /\ pc[t] \in {"test", "again", "try"}
    /\ ~Blocked(t)
    /\ IF wants[t] = "read"
         THEN readers' = readers + 1 /\ UNCHANGED writer
         ELSE writer' = 1 /\ UNCHANGED readers
    /\ mode' = [mode EXCEPT ![t] = wants[t]]
    /\ Drop(t)
    /\ Forget(t)
    /\ Goto(t, "idle")
    /\ UNCHANGED <<sequence, asleep, calls>>

\* pthread_rwlock_unlock does not ask who calls: it ends the writer if there
\* is one and otherwise takes one reader off.
Unlock(t) ==
    /\ pc[t] = "idle"
    /\ mode[t] # "none"
    /\ Take(t)
    /\ Goto(t, "unlock")
    /\ UNCHANGED <<sequence, asleep, seen, expired, timed, lockVars>>

AfterUnlock == "bump"
CountedOut == readers - 1
CountOut(t) ==
    /\ pc[t] = "unlock"
    /\ writer' = 0
    /\ readers' = IF writer = 0 /\ readers # 0 THEN CountedOut ELSE readers
    /\ mode' = [mode EXCEPT ![t] = "none"]
    /\ Drop(t)
    /\ Goto(t, AfterUnlock)
    /\ UNCHANGED <<sequence, asleep, seen, expired, timed, wants, calls>>

\* Inside a call a thread goes on, and a holder goes on to unlock.
Continue(t) ==
    \/ Await(t) \/ GiveUp(t) \/ Enter(t)
    \/ Unlock(t) \/ CountOut(t)
    \/ (CondStep(t) \/ Relock(t, "again") \/ Bump(t) \/ Broadcast(t, "idle"))
         /\ UNCHANGED lockVars

Step(t) ==
    \/ Lock(t) \/ TryLock(t) \/ Continue(t)
    \/ CondDeadline(t) /\ UNCHANGED lockVars

Next == \E t \in Threads : Step(t)

Spec == Init /\ [][Next]_vars
FairSpec == Spec /\ \A t \in Threads : WF_vars(Continue(t))

-----------------------------------------------------------------------------

\* Every variable keeps its type; there are never more readers than threads.
TypeOK ==
    /\ CondTypeOK
    /\ pc \in [Threads -> CondPlaces \cup {"idle", "test", "again", "try", "unlock"}]
    /\ readers \in 0..Cardinality(Threads)
    /\ writer \in {0, 1}
    /\ wants \in [Threads -> {"read", "write"}]
    /\ mode \in [Threads -> {"none", "read", "write"}]
    /\ calls \in [Threads -> 0..MaxCalls]

\* The two counters, which an unlock adjusts without asking who calls, agree
\* with what the program holds, and a writer is alone.
Exclusion ==
    LET Having(m) == {t \in Threads : mode[t] = m} IN
    /\ readers = Cardinality(Having("read"))
    /\ writer = Cardinality(Having("write"))
    /\ writer # 0 => readers = 0

\* Although an unlock broadcasts only after it dropped the mutex, no thread
\* stays asleep on a lock it could have: someone is still on the way to move
\* the sequence or to wake the sleepers.
NoStrandedWaiter ==
    \A t \in asleep : ~Blocked(t) => \E u \in Threads : pc[u] \in {"bump", "wake"}

\* Every lock, try-lock and unlock call returns once the locks of the other
\* threads are given back.
EveryCallReturns == \A t \in Threads : pc[t] # "idle" ~> pc[t] = "idle"

=============================================================================
