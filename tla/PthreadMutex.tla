----------------------------- MODULE PthreadMutex -----------------------------
(***************************************************************************)
(* pthread_mutex_t of the module libc (src/sdk/libc/src/pthread.cpp): a    *)
(* three-state word, wasm atomic wait and notify, and an owner and a count *)
(* for the recursive and the error-checking type.  A step is one atomic    *)
(* access of the word, or thread-private work between two of them.  The    *)
(* lock of the libc itself, Libc::Spin_Lock (core.cpp), is the normal type *)
(* without deadlines.                                                      *)
(*                                                                         *)
(* The program under the mutex is any one that unlocks what it holds; each *)
(* thread makes at most MaxCalls successful or blocking lock calls, so     *)
(* that barging, which the code allows for ever, hides no lost wakeup.     *)
(***************************************************************************)
EXTENDS Integers, FiniteSets

CONSTANTS
    Threads,    \* guest threads
    Nobody,     \* owner = 0
    CountMax,   \* 0xFFFFFFFF, the largest value of the 32-bit count
    MaxCalls    \* lock calls a thread makes

ASSUME MutexAssumption ==
    /\ Nobody \notin Threads
    /\ CountMax \in Nat \ {0}
    /\ MaxCalls \in Nat

VARIABLES
    type,       \* mutex->type
    state,      \* mutex->state
    owner,      \* mutex->owner
    count,      \* mutex->count
    asleep,     \* threads in memory.atomic.wait32 on the state
    pc,         \* where each thread is in a call
    timed,      \* whether its lock call has a deadline
    calls,      \* lock calls it made
    held        \* history: acquisitions a thread was given and did not return

vars == <<type, state, owner, count, asleep, pc, timed, calls, held>>

-----------------------------------------------------------------------------

Types == {"normal", "recursive", "errorcheck"}

Init ==
    /\ type \in Types
    /\ state = "Unlocked"
    /\ owner = Nobody
    /\ count = 0
    /\ asleep = {}
    /\ pc = [t \in Threads |-> "idle"]
    /\ timed = [t \in Threads |-> FALSE]
    /\ calls = [t \in Threads |-> 0]
    /\ held = [t \in Threads |-> 0]

Goto(t, place) == pc' = [pc EXCEPT ![t] = place]

\* Only the thread itself ever stores its own name in owner, so the relaxed
\* load at the start of a call is exact.
SelfOwned(t) == type # "normal" /\ owner = t

\* A normal mutex locked again by its holder blocks for ever; programs do not.
MayCall(t) ==
    /\ pc[t] = "idle"
    /\ calls[t] < MaxCalls
    /\ type = "normal" => held[t] = 0

Call(t) == calls' = [calls EXCEPT ![t] = @ + 1]

\* pthread_mutex_lock and pthread_mutex_timedlock by the owner: one more
\* acquisition, or EDEADLK or EAGAIN, which change nothing.  The nested
\* pthread_mutex_trylock counts too; it has no check of CountMax, which the
\* program is taken not to reach with it.
Full == count = CountMax
Reenter(t) ==
    /\ MayCall(t)
    /\ SelfOwned(t)
    /\ type = "recursive"
    /\ ~Full
    /\ count' = count + 1
    /\ held' = [held EXCEPT ![t] = @ + 1]
    /\ Call(t)
    /\ UNCHANGED <<type, state, owner, asleep, pc, timed>>

\* The compare-and-exchange of a first lock, which finds the mutex free.
Acquire(t) ==
    /\ MayCall(t)
    /\ ~SelfOwned(t)
    /\ state = "Unlocked"
    /\ state' = "Locked"
    /\ Goto(t, "own")
    /\ Call(t)
    /\ UNCHANGED <<type, owner, count, asleep, timed, held>>

\* ... or finds it taken: a blocking call goes on to mark the contention
\* unless it is marked already, pthread_mutex_trylock returns EBUSY.
Contend(t) ==
    /\ MayCall(t)
    /\ ~SelfOwned(t)
    /\ state # "Unlocked"
    /\ Call(t)
    /\ \E deadline \in BOOLEAN : timed' = [timed EXCEPT ![t] = deadline]
    /\ Goto(t, IF state = "Contended" THEN "look" ELSE "mark")
    /\ UNCHANGED <<type, state, owner, count, asleep, held>>

\* The exchange that marks the contention.  It takes the mutex when the
\* holder left in the meantime.
TakenMarked(before) == before # "Locked"
Taken(before) == before = "Unlocked"
Mark(t) ==
    /\ pc[t] = "mark"
    /\ state' = "Contended"
    /\ Goto(t, IF Taken(state) THEN "own" ELSE "look")
    /\ UNCHANGED <<type, owner, count, asleep, timed, calls, held>>

\* The deadline may have passed: ETIMEDOUT.  The mark stays behind.
TimeOut(t) ==
    /\ pc[t] = "look"
    /\ timed[t]
    /\ Goto(t, "idle")
    /\ UNCHANGED <<type, state, owner, count, asleep, timed, calls, held>>

\* Wait: memory.atomic.wait32 compares and sleeps in one step.
Wait(t) ==
    /\ pc[t] = "look"
    /\ IF state = "Contended"
         THEN asleep' = asleep \cup {t} /\ Goto(t, "asleep")
         ELSE Goto(t, "mark") /\ UNCHANGED asleep
    /\ UNCHANGED <<type, state, owner, count, timed, calls, held>>

\* A sleep with a deadline ends by itself.
Expire(t) ==
    /\ pc[t] = "asleep"
    /\ timed[t]
    /\ asleep' = asleep \ {t}
    /\ Goto(t, "mark")
    /\ UNCHANGED <<type, state, owner, count, timed, calls, held>>

\* The winner writes the owner and the count, and the call returns 0.
Own(t) ==
    /\ pc[t] = "own"
    /\ owner' = t
    /\ count' = 1
    /\ held' = [held EXCEPT ![t] = 1]
    /\ Goto(t, "idle")
    /\ UNCHANGED <<type, state, asleep, timed, calls>>

\* pthread_mutex_unlock by a thread that does not hold the mutex is EPERM for
\* the checked types and is not made for the normal one; by the holder of a
\* recursive one it may only unwind the count.
MayUnlock(t) ==
    /\ pc[t] = "idle"
    /\ IF type = "normal" THEN held[t] > 0 ELSE owner = t

NeverUnwinds == FALSE
Unwinds == type # "normal" /\ count # 1
Unwind(t) ==
    /\ MayUnlock(t)
    /\ Unwinds
    /\ count' = count - 1
    /\ held' = [held EXCEPT ![t] = @ - 1]
    /\ UNCHANGED <<type, state, owner, asleep, pc, timed, calls>>

\* The last unlock clears the owner first, while it still has the word ...
ClearedOwner == Nobody
Disown(t) ==
    /\ MayUnlock(t)
    /\ ~Unwinds
    /\ owner' = ClearedOwner
    /\ count' = 0
    /\ Goto(t, "release")
    /\ UNCHANGED <<type, state, asleep, timed, calls, held>>

\* ... then frees it and learns whether someone marked it ...
RousesNobody(before) == before = "Locked"
Rouses(before) == before = "Contended"
Release(t) ==
    /\ pc[t] = "release"
    /\ state' = "Unlocked"
    /\ held' = [held EXCEPT ![t] = 0]
    /\ Goto(t, IF Rouses(state) THEN "wake" ELSE "idle")
    /\ UNCHANGED <<type, owner, count, asleep, timed, calls>>

\* ... and then wakes one sleeper, if there is one by now.
Wake(t) ==
    /\ pc[t] = "wake"
    /\ \/ /\ asleep = {}
          /\ Goto(t, "idle")
          /\ UNCHANGED asleep
       \/ \E s \in asleep :
             /\ asleep' = asleep \ {s}
             /\ pc' = [pc EXCEPT ![t] = "idle", ![s] = "mark"]
    /\ UNCHANGED <<type, state, owner, count, timed, calls, held>>

\* A thread inside a call, or with the mutex in hand, goes on.
Continue(t) ==
    \/ Mark(t) \/ Wait(t) \/ Own(t)
    \/ Unwind(t) \/ Disown(t) \/ Release(t) \/ Wake(t)

Step(t) ==
    \/ Reenter(t) \/ Acquire(t) \/ Contend(t)
    \/ TimeOut(t) \/ Expire(t) \/ Continue(t)

Next == \E t \in Threads : Step(t)

Spec == Init /\ [][Next]_vars

\* Threads run, and critical sections end: a holder goes on unlocking.
\* Nothing is assumed of a caller that found the mutex free or of a deadline.
FairSpec == Spec /\ \A t \in Threads : WF_vars(Continue(t))

-----------------------------------------------------------------------------

Places == {"idle", "mark", "look", "asleep", "own", "release", "wake"}

\* Every variable keeps its type: the word has three states, the count fits
\* its 32 bits, and the sleepers are threads.
TypeOK ==
    /\ type \in Types
    /\ state \in {"Unlocked", "Locked", "Contended"}
    /\ owner \in Threads \cup {Nobody}
    /\ count \in 0..CountMax
    /\ asleep \subseteq Threads
    /\ pc \in [Threads -> Places]
    /\ timed \in [Threads -> BOOLEAN]
    /\ calls \in [Threads -> 0..MaxCalls]
    /\ held \in [Threads -> 0..CountMax]

\* A thread has the mutex from the atomic access that took the word to the
\* one that frees it, which is longer than owner names it.
Holds(t) == pc[t] \in {"own", "release"} \/ held[t] > 0

\* Two threads never have the mutex at once, and the word is Unlocked exactly
\* while nobody has it, however deadlines, barging try-locks and late marks
\* interleave with the two halves of an unlock.
MutualExclusion ==
    /\ \A s, t \in Threads : Holds(s) /\ Holds(t) => s = t
    /\ state = "Unlocked" <=> \A t \in Threads : ~Holds(t)

\* The owner and the count, two plain fields beside the word, agree with it:
\* a thread named owner has the mutex and its count is the number of
\* acquisitions it must still return.
OwnerAgrees ==
    /\ \A t \in Threads : owner = t => held[t] > 0 /\ count = held[t]
    /\ \A t \in Threads : pc[t] \notin {"own", "release"} /\ held[t] > 0 => owner = t

\* What the mutex promises its holder, in its word and in the fields beside it.
MutexSafe == TypeOK /\ MutualExclusion /\ OwnerAgrees

\* No wakeup is lost: while a thread sleeps on the word, either the word says
\* so (then the next unlock wakes one), or someone is about to wake a sleeper
\* or to mark the word again.
NoLostWakeup ==
    asleep # {} =>
        \/ state = "Contended"
        \/ \E t \in Threads : pc[t] \in {"wake", "mark"}

\* Every call returns, with or without a deadline, once the critical sections
\* of the others end: no thread is left asleep beside a free mutex.
EveryCallReturns == \A t \in Threads : pc[t] # "idle" ~> pc[t] = "idle"

\* The three types implement the abstract mutex: it is acquired at the access
\* that changes the word, and released at the exchange, not when owner is
\* cleared.
Holder == IF \E t \in Threads : Holds(t) THEN CHOOSE t \in Threads : Holds(t) ELSE Nobody
Depth ==
    IF Holder = Nobody THEN 0
    ELSE IF pc[Holder] = "own" THEN 1 ELSE held[Holder]

Service == INSTANCE MutexService WITH holder <- Holder, depth <- Depth
ImplementsMutex == Service!Spec

=============================================================================
