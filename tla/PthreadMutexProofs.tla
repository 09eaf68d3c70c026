-------------------------- MODULE PthreadMutexProofs --------------------------
(***************************************************************************)
(* Machine-checked proofs about PthreadMutex, for every set of threads,    *)
(* every width of the count and every number of calls.                     *)
(*                                                                         *)
(* MutualExclusion is not inductive alone: that one thread at a time has   *)
(* the mutex rests on the owner fields agreeing with the word (an unlock   *)
(* is admitted by owner), and on where the pieces of a call may be.  IInv  *)
(* is the conjunction; NoLostWakeup needs in addition that exactly the     *)
(* threads in the wait are in the wait set.                                *)
(***************************************************************************)
EXTENDS PthreadMutex, TLAPS

\* The wait set holds the threads that are in the wait.
SleepersSound == asleep = {t \in Threads : pc[t] = "asleep"}

\* A caller on its way in has nothing, a thread on its way out has its last
\* acquisition and is not named owner any more; a normal mutex does not nest.
CallsSound ==
    \A t \in Threads :
        /\ pc[t] \in {"mark", "look", "asleep", "own", "wake"} => held[t] = 0
        /\ pc[t] = "release" => held[t] = 1 /\ owner # t
        /\ held[t] > 0 => pc[t] \in {"idle", "release"}
        /\ type = "normal" => held[t] \in {0, 1}

IInv ==
    /\ TypeOK
    /\ MutualExclusion
    /\ OwnerAgrees
    /\ SleepersSound
    /\ CallsSound
    /\ NoLostWakeup

-----------------------------------------------------------------------------

\* Nobody has a fresh mutex.
LEMMA InitInv == Init => IInv
BY MutexAssumption DEF Init, IInv, TypeOK, MutualExclusion, OwnerAgrees,
   SleepersSound, CallsSound, NoLostWakeup, Types, Places, Holds

\* A nested lock of a recursive mutex changes its holder's count only.
LEMMA ReenterKeeps ==
    ASSUME IInv, NEW t \in Threads, Reenter(t) PROVE IInv'
<1> USE MutexAssumption DEF IInv
<1>1. TypeOK'
  BY DEF TypeOK, Reenter, Full, SelfOwned, MayCall, Call, Types, Places, OwnerAgrees, CallsSound
<1>2. MutualExclusion'
  BY DEF MutualExclusion, Reenter, Full, SelfOwned, MayCall, Call, TypeOK, Holds, OwnerAgrees, CallsSound
<1>3. OwnerAgrees'
  BY DEF OwnerAgrees, Reenter, Full, SelfOwned, MayCall, Call, TypeOK, CallsSound, MutualExclusion, Holds
<1>4. SleepersSound'
  BY DEF SleepersSound, Reenter, Full, SelfOwned, MayCall, Call, TypeOK
<1>5. CallsSound'
  BY DEF CallsSound, Reenter, Full, SelfOwned, MayCall, Call, TypeOK, OwnerAgrees, MutualExclusion, Holds
<1>6. NoLostWakeup'
  BY DEF NoLostWakeup, Reenter, Full, SelfOwned, MayCall, Call, TypeOK
<1> QED  BY <1>1, <1>2, <1>3, <1>4, <1>5, <1>6

\* The compare-and-exchange found the word Unlocked, so nobody had it.
LEMMA AcquireKeeps ==
    ASSUME IInv, NEW t \in Threads, Acquire(t) PROVE IInv'
<1> USE MutexAssumption DEF IInv
<1>1. TypeOK'
  BY DEF TypeOK, Acquire, SelfOwned, MayCall, Call, Goto, Types, Places, OwnerAgrees, CallsSound
<1>2. MutualExclusion'
  BY DEF MutualExclusion, Acquire, SelfOwned, MayCall, Call, Goto, TypeOK, Holds, OwnerAgrees, CallsSound
<1>3. OwnerAgrees'
  BY DEF OwnerAgrees, Acquire, SelfOwned, MayCall, Call, Goto, TypeOK, CallsSound, MutualExclusion, Holds
<1>4. SleepersSound'
  BY DEF SleepersSound, Acquire, SelfOwned, MayCall, Call, Goto, TypeOK
<1>5. CallsSound'
  BY DEF CallsSound, Acquire, SelfOwned, MayCall, Call, Goto, TypeOK, OwnerAgrees, MutualExclusion, Holds
<1>6. NoLostWakeup'
  BY DEF NoLostWakeup, Acquire, SelfOwned, MayCall, Call, Goto, TypeOK
<1> QED  BY <1>1, <1>2, <1>3, <1>4, <1>5, <1>6

\* A call that found the word taken only moves its thread.
LEMMA ContendKeeps ==
    ASSUME IInv, NEW t \in Threads, Contend(t) PROVE IInv'
<1> USE MutexAssumption DEF IInv
<1>1. TypeOK'
  BY DEF TypeOK, Contend, SelfOwned, MayCall, Call, Goto, Types, Places, OwnerAgrees, CallsSound
<1>2. MutualExclusion'
  BY DEF MutualExclusion, Contend, SelfOwned, MayCall, Call, Goto, TypeOK, Holds, OwnerAgrees, CallsSound
<1>3. OwnerAgrees'
  BY DEF OwnerAgrees, Contend, SelfOwned, MayCall, Call, Goto, TypeOK, CallsSound, MutualExclusion, Holds
<1>4. SleepersSound'
  BY DEF SleepersSound, Contend, SelfOwned, MayCall, Call, Goto, TypeOK
<1>5. CallsSound'
  BY DEF CallsSound, Contend, SelfOwned, MayCall, Call, Goto, TypeOK, OwnerAgrees, MutualExclusion, Holds
<1>6. NoLostWakeup'
  BY DEF NoLostWakeup, Contend, SelfOwned, MayCall, Call, Goto, TypeOK
<1> QED  BY <1>1, <1>2, <1>3, <1>4, <1>5, <1>6

\* The exchange takes a word that was Unlocked, and marks it either way.
LEMMA MarkKeeps ==
    ASSUME IInv, NEW t \in Threads, Mark(t) PROVE IInv'
<1> USE MutexAssumption DEF IInv
<1>1. TypeOK'
  BY DEF TypeOK, Mark, Taken, Goto, Types, Places, OwnerAgrees, CallsSound
<1>2. MutualExclusion'
  BY DEF MutualExclusion, Mark, Taken, Goto, TypeOK, Holds, OwnerAgrees, CallsSound
<1>3. OwnerAgrees'
  BY DEF OwnerAgrees, Mark, Taken, Goto, TypeOK, CallsSound, MutualExclusion, Holds
<1>4. SleepersSound'
  BY DEF SleepersSound, Mark, Taken, Goto, TypeOK
<1>5. CallsSound'
  BY DEF CallsSound, Mark, Taken, Goto, TypeOK, OwnerAgrees, MutualExclusion, Holds
<1>6. NoLostWakeup'
  BY DEF NoLostWakeup, Mark, Taken, Goto, TypeOK
<1> QED  BY <1>1, <1>2, <1>3, <1>4, <1>5, <1>6

\* A call that gives up had nothing.
LEMMA TimeOutKeeps ==
    ASSUME IInv, NEW t \in Threads, TimeOut(t) PROVE IInv'
<1> USE MutexAssumption DEF IInv
<1>1. TypeOK'
  BY DEF TypeOK, TimeOut, Goto, Types, Places, OwnerAgrees, CallsSound
<1>2. MutualExclusion'
  BY DEF MutualExclusion, TimeOut, Goto, TypeOK, Holds, OwnerAgrees, CallsSound
<1>3. OwnerAgrees'
  BY DEF OwnerAgrees, TimeOut, Goto, TypeOK, CallsSound, MutualExclusion, Holds
<1>4. SleepersSound'
  BY DEF SleepersSound, TimeOut, Goto, TypeOK
<1>5. CallsSound'
  BY DEF CallsSound, TimeOut, Goto, TypeOK, OwnerAgrees, MutualExclusion, Holds
<1>6. NoLostWakeup'
  BY DEF NoLostWakeup, TimeOut, Goto, TypeOK
<1> QED  BY <1>1, <1>2, <1>3, <1>4, <1>5, <1>6

\* A thread that goes to sleep saw the mark in the same step.
LEMMA WaitKeeps ==
    ASSUME IInv, NEW t \in Threads, Wait(t) PROVE IInv'
<1> USE MutexAssumption DEF IInv
<1>1. TypeOK'
  BY DEF TypeOK, Wait, Goto, Types, Places, OwnerAgrees, CallsSound
<1>2. MutualExclusion'
  BY DEF MutualExclusion, Wait, Goto, TypeOK, Holds, OwnerAgrees, CallsSound
<1>3. OwnerAgrees'
  BY DEF OwnerAgrees, Wait, Goto, TypeOK, CallsSound, MutualExclusion, Holds
<1>4. SleepersSound'
  BY DEF SleepersSound, Wait, Goto, TypeOK
<1>5. CallsSound'
  BY DEF CallsSound, Wait, Goto, TypeOK, OwnerAgrees, MutualExclusion, Holds
<1>6. NoLostWakeup'
  BY DEF NoLostWakeup, Wait, Goto, TypeOK
<1> QED  BY <1>1, <1>2, <1>3, <1>4, <1>5, <1>6

\* A thread whose deadline ends its sleep marks the word again.
LEMMA ExpireKeeps ==
    ASSUME IInv, NEW t \in Threads, Expire(t) PROVE IInv'
<1> USE MutexAssumption DEF IInv
<1>1. TypeOK'
  BY DEF TypeOK, Expire, Goto, Types, Places, OwnerAgrees, CallsSound
<1>2. MutualExclusion'
  BY DEF MutualExclusion, Expire, Goto, TypeOK, Holds, OwnerAgrees, CallsSound
<1>3. OwnerAgrees'
  BY DEF OwnerAgrees, Expire, Goto, TypeOK, CallsSound, MutualExclusion, Holds
<1>4. SleepersSound'
  BY DEF SleepersSound, Expire, Goto, TypeOK
<1>5. CallsSound'
  BY DEF CallsSound, Expire, Goto, TypeOK, OwnerAgrees, MutualExclusion, Holds
<1>6. NoLostWakeup'
  BY DEF NoLostWakeup, Expire, Goto, TypeOK
<1> QED  BY <1>1, <1>2, <1>3, <1>4, <1>5, <1>6

\* The winner becomes owner; the owner before it cleared the field while it had the word.
LEMMA OwnKeeps ==
    ASSUME IInv, NEW t \in Threads, Own(t) PROVE IInv'
<1> USE MutexAssumption DEF IInv
<1>1. TypeOK'
  BY DEF TypeOK, Own, Goto, Types, Places, OwnerAgrees, CallsSound
<1>2. MutualExclusion'
  BY DEF MutualExclusion, Own, Goto, TypeOK, Holds, OwnerAgrees, CallsSound
<1>3. OwnerAgrees'
  BY DEF OwnerAgrees, Own, Goto, TypeOK, CallsSound, MutualExclusion, Holds
<1>4. SleepersSound'
  BY DEF SleepersSound, Own, Goto, TypeOK
<1>5. CallsSound'
  BY DEF CallsSound, Own, Goto, TypeOK, OwnerAgrees, MutualExclusion, Holds
<1>6. NoLostWakeup'
  BY DEF NoLostWakeup, Own, Goto, TypeOK
<1> QED  BY <1>1, <1>2, <1>3, <1>4, <1>5, <1>6

\* An inner unlock keeps the word.
LEMMA UnwindKeeps ==
    ASSUME IInv, NEW t \in Threads, Unwind(t) PROVE IInv'
<1> USE MutexAssumption DEF IInv
<1>1. TypeOK'
  BY DEF TypeOK, Unwind, MayUnlock, Unwinds, Types, Places, OwnerAgrees, CallsSound
<1>2. MutualExclusion'
  BY DEF MutualExclusion, Unwind, MayUnlock, Unwinds, TypeOK, Holds, OwnerAgrees, CallsSound
<1>3. OwnerAgrees'
  BY DEF OwnerAgrees, Unwind, MayUnlock, Unwinds, TypeOK, CallsSound, MutualExclusion, Holds
<1>4. SleepersSound'
  BY DEF SleepersSound, Unwind, MayUnlock, Unwinds, TypeOK
<1>5. CallsSound'
  BY DEF CallsSound, Unwind, MayUnlock, Unwinds, TypeOK, OwnerAgrees, MutualExclusion, Holds
<1>6. NoLostWakeup'
  BY DEF NoLostWakeup, Unwind, MayUnlock, Unwinds, TypeOK
<1> QED  BY <1>1, <1>2, <1>3, <1>4, <1>5, <1>6

\* The last unlock clears the owner while it has the word.
LEMMA DisownKeeps ==
    ASSUME IInv, NEW t \in Threads, Disown(t) PROVE IInv'
<1> USE MutexAssumption DEF IInv
<1>1. TypeOK'
  BY DEF TypeOK, Disown, MayUnlock, Unwinds, ClearedOwner, Goto, Types, Places, OwnerAgrees, CallsSound
<1>2. MutualExclusion'
  BY DEF MutualExclusion, Disown, MayUnlock, Unwinds, ClearedOwner, Goto, TypeOK, Holds, OwnerAgrees, CallsSound
<1>3. OwnerAgrees'
  BY DEF OwnerAgrees, Disown, MayUnlock, Unwinds, ClearedOwner, Goto, TypeOK, CallsSound, MutualExclusion, Holds
<1>4. SleepersSound'
  BY DEF SleepersSound, Disown, MayUnlock, Unwinds, ClearedOwner, Goto, TypeOK
<1>5. CallsSound'
  BY DEF CallsSound, Disown, MayUnlock, Unwinds, ClearedOwner, Goto, TypeOK, OwnerAgrees, MutualExclusion, Holds
<1>6. NoLostWakeup'
  BY DEF NoLostWakeup, Disown, MayUnlock, Unwinds, ClearedOwner, Goto, TypeOK
<1> QED  BY <1>1, <1>2, <1>3, <1>4, <1>5, <1>6

\* The exchange frees the word, and remembers whether to wake.
LEMMA ReleaseKeeps ==
    ASSUME IInv, NEW t \in Threads, Release(t) PROVE IInv'
<1> USE MutexAssumption DEF IInv
<1>1. TypeOK'
  BY DEF TypeOK, Release, Rouses, Goto, Types, Places, OwnerAgrees, CallsSound
<1>2. MutualExclusion'
  BY DEF MutualExclusion, Release, Rouses, Goto, TypeOK, Holds, OwnerAgrees, CallsSound
<1>3. OwnerAgrees'
  BY DEF OwnerAgrees, Release, Rouses, Goto, TypeOK, CallsSound, MutualExclusion, Holds
<1>4. SleepersSound'
  BY DEF SleepersSound, Release, Rouses, Goto, TypeOK
<1>5. CallsSound'
  BY DEF CallsSound, Release, Rouses, Goto, TypeOK, OwnerAgrees, MutualExclusion, Holds
<1>6. NoLostWakeup'
  BY DEF NoLostWakeup, Release, Rouses, Goto, TypeOK
<1> QED  BY <1>1, <1>2, <1>3, <1>4, <1>5, <1>6

\* A woken thread marks the word again.
LEMMA WakeKeeps ==
    ASSUME IInv, NEW t \in Threads, Wake(t) PROVE IInv'
<1> USE MutexAssumption DEF IInv
<1>1. TypeOK'
  BY DEF TypeOK, Wake, Goto, Types, Places, OwnerAgrees, CallsSound
<1>2. MutualExclusion'
  BY DEF MutualExclusion, Wake, Goto, SleepersSound, TypeOK, Holds, OwnerAgrees, CallsSound
<1>3. OwnerAgrees'
  BY DEF OwnerAgrees, Wake, Goto, SleepersSound, TypeOK, CallsSound, MutualExclusion, Holds
<1>4. SleepersSound'
  BY DEF SleepersSound, Wake, Goto, TypeOK
<1>5. CallsSound'
  BY DEF CallsSound, Wake, Goto, SleepersSound, TypeOK, OwnerAgrees, MutualExclusion, Holds
<1>6. NoLostWakeup'
  BY DEF NoLostWakeup, Wake, Goto, TypeOK
<1> QED  BY <1>1, <1>2, <1>3, <1>4, <1>5, <1>6

\* Every step keeps the invariant.
LEMMA StepKeeps == IInv /\ [Next]_vars => IInv'
<1>1. IInv /\ UNCHANGED vars => IInv'
  <2> SUFFICES ASSUME IInv, UNCHANGED vars PROVE IInv'
    OBVIOUS
  <2> USE DEF vars, IInv
  <2>1. TypeOK'
    BY DEF TypeOK
  <2>2. MutualExclusion'
    BY DEF MutualExclusion, Holds
  <2>3. OwnerAgrees'
    BY DEF OwnerAgrees
  <2>4. SleepersSound'
    BY DEF SleepersSound
  <2>5. CallsSound'
    BY DEF CallsSound
  <2>6. NoLostWakeup'
    BY DEF NoLostWakeup
  <2> QED  BY <2>1, <2>2, <2>3, <2>4, <2>5, <2>6
<1>2. ASSUME IInv, NEW t \in Threads, Step(t) PROVE IInv'
  BY <1>2, ReenterKeeps, AcquireKeeps, ContendKeeps, MarkKeeps, TimeOutKeeps,
     WaitKeeps, ExpireKeeps, OwnKeeps, UnwindKeeps, DisownKeeps, ReleaseKeeps,
     WakeKeeps DEF Step, Continue
<1> QED  BY <1>1, <1>2 DEF Next

\* The invariant holds in every reachable state.
THEOREM Invariance == Spec => []IInv
BY InitInv, StepKeeps, PTL DEF Spec

\* TypeOK for every instance: in particular the count never leaves its 32 bits.
THEOREM TypeCorrect == Spec => []TypeOK
BY Invariance, PTL DEF IInv

\* One thread at a time has the mutex, for every type of mutex.
THEOREM MutexExcludes == Spec => []MutualExclusion
BY Invariance, PTL DEF IInv

\* owner and count agree with the acquisitions the program was given.
THEOREM OwnersAgree == Spec => []OwnerAgrees
BY Invariance, PTL DEF IInv

\* The two together, with the types of the fields.
THEOREM MutexIsSafe == Spec => []MutexSafe
BY Invariance, PTL DEF IInv, MutexSafe

\* No thread sleeps on a word that nobody will look at again.
THEOREM WakeupsAreKept == Spec => []NoLostWakeup
BY Invariance, PTL DEF IInv

-----------------------------------------------------------------------------
(***************************************************************************)
(* The refinement.  Held names the depth of a holder; a step of the code   *)
(* that changes neither who holds the mutex nor the depth stutters.        *)
(***************************************************************************)

Held(t) == IF pc[t] = "own" THEN 1 ELSE held[t]

\* Mutual exclusion makes the CHOOSE of the mapping determinate.
MappingAgrees ==
    /\ (\A t \in Threads : ~Holds(t)) => Holder = Nobody /\ Depth = 0
    /\ \A t \in Threads : Holds(t) => Holder = t /\ Depth = Held(t)

LEMMA MappingIsDeterminate == IInv => MappingAgrees
<1> SUFFICES ASSUME IInv PROVE MappingAgrees
  OBVIOUS
<1> USE DEF IInv
<1>1. ASSUME \A t \in Threads : ~Holds(t) PROVE Holder = Nobody /\ Depth = 0
  BY <1>1 DEF Holder, Depth
<1>2. ASSUME NEW t \in Threads, Holds(t) PROVE Holder = t /\ Depth = Held(t)
  <2>1. \A s \in Threads : Holds(s) => s = t
    BY <1>2 DEF MutualExclusion
  <2>2. Holder = t
    BY <1>2, <2>1 DEF Holder
  <2>3. Depth = Held(t)
    BY <2>2, MutexAssumption DEF Depth, Held
  <2> QED  BY <2>2, <2>3
<1> QED  BY <1>1, <1>2 DEF MappingAgrees

\* A step that leaves every thread's hold and depth alone is a stutter.
Quiescent == \A t \in Threads : (Holds(t)' <=> Holds(t)) /\ (Holds(t) => Held(t)' = Held(t))

LEMMA QuiescentStutters ==
    MappingAgrees /\ MappingAgrees' /\ Quiescent => UNCHANGED <<Holder, Depth>>
<1> SUFFICES ASSUME MappingAgrees, MappingAgrees', Quiescent
             PROVE  UNCHANGED <<Holder, Depth>>
  OBVIOUS
<1>1. CASE \A t \in Threads : ~Holds(t)
  <2>1. \A t \in Threads : ~Holds(t)'
    BY <1>1 DEF Quiescent
  <2> QED  BY <1>1, <2>1 DEF MappingAgrees
<1>2. ASSUME NEW t \in Threads, Holds(t) PROVE UNCHANGED <<Holder, Depth>>
  BY <1>2 DEF MappingAgrees, Quiescent
<1> QED  BY <1>1, <1>2

\* Each step of a thread is a step of the abstract mutex or a stutter.
LEMMA StepRefines ==
    ASSUME IInv, IInv', MappingAgrees, MappingAgrees', NEW t \in Threads, Step(t)
    PROVE  Service!Next \/ UNCHANGED <<Holder, Depth>>
<1> USE DEF IInv, TypeOK, Goto
<1>1. CASE Reenter(t)
  <2>1. Holds(t) /\ Holds(t)' /\ Held(t)' = Held(t) + 1
    BY <1>1 DEF Reenter, MayCall, SelfOwned, OwnerAgrees, Holds, Held
  <2>2. Service!Reacquire(t)
    BY <2>1 DEF MappingAgrees, Service!Reacquire
  <2> QED  BY <2>2 DEF Service!Next
<1>2. CASE Acquire(t)
  <2>1. \A s \in Threads : ~Holds(s)
    BY <1>2 DEF Acquire, MutualExclusion
  <2>2. Holds(t)' /\ Held(t)' = 1
    BY <1>2 DEF Acquire, MayCall, Holds, Held
  <2>3. Service!Acquire(t)
    BY <2>1, <2>2 DEF MappingAgrees, Service!Acquire
  <2> QED  BY <2>3 DEF Service!Next
<1>3. CASE Contend(t)
  BY <1>3, QuiescentStutters DEF Contend, MayCall, Quiescent, Holds, Held
<1>4. CASE Mark(t) /\ Taken(state)
  <2>1. \A s \in Threads : ~Holds(s)
    BY <1>4 DEF Taken, MutualExclusion
  <2>2. Holds(t)' /\ Held(t)' = 1
    BY <1>4 DEF Mark, Holds, Held
  <2>3. Service!Acquire(t)
    BY <2>1, <2>2 DEF MappingAgrees, Service!Acquire
  <2> QED  BY <2>3 DEF Service!Next
<1>5. CASE Mark(t) /\ ~Taken(state)
  BY <1>5, QuiescentStutters DEF Mark, Quiescent, Holds, Held
<1>6. CASE TimeOut(t)
  BY <1>6, QuiescentStutters DEF TimeOut, Quiescent, Holds, Held
<1>7. CASE Wait(t)
  BY <1>7, QuiescentStutters DEF Wait, Quiescent, Holds, Held
<1>8. CASE Expire(t)
  BY <1>8, QuiescentStutters DEF Expire, Quiescent, Holds, Held
<1>9. CASE Own(t)
  BY <1>9, QuiescentStutters DEF Own, Quiescent, Holds, Held
<1>10. CASE Unwind(t)
  <2>1. Holds(t) /\ Held(t) = held[t] /\ held[t] > 1
    BY <1>10 DEF Unwind, MayUnlock, Unwinds, OwnerAgrees, Holds, Held
  <2>2. Holds(t)' /\ Held(t)' = Held(t) - 1
    BY <1>10, <2>1 DEF Unwind, MayUnlock, Holds, Held
  <2>3. Service!Unwind(t)
    BY <2>1, <2>2 DEF MappingAgrees, Service!Unwind
  <2> QED  BY <2>3 DEF Service!Next
<1>11. CASE Disown(t)
  BY <1>11, QuiescentStutters DEF Disown, MayUnlock, OwnerAgrees, Quiescent, Holds, Held
<1>12. CASE Release(t)
  <2>1. Holds(t) /\ Held(t) = 1
    BY <1>12 DEF Release, Holds, Held, CallsSound
  <2>2. \A s \in Threads : ~Holds(s)'
    BY <1>12, <2>1 DEF Release, MutualExclusion, Holds
  <2>3. Service!Release(t)
    BY <2>1, <2>2 DEF MappingAgrees, Service!Release
  <2> QED  BY <2>3 DEF Service!Next
<1>13. CASE Wake(t)
  BY <1>13, QuiescentStutters DEF Wake, SleepersSound, CallsSound, Quiescent, Holds, Held
<1> QED
  BY <1>1, <1>2, <1>3, <1>4, <1>5, <1>6, <1>7, <1>8, <1>9, <1>10, <1>11, <1>12,
     <1>13 DEF Step, Continue

\* All three types of pthread_mutex_t implement the abstract mutex.
THEOREM ImplementsTheMutex == Spec => ImplementsMutex
<1>1. Init => Service!Init
  <2> SUFFICES ASSUME Init PROVE Service!Init
    OBVIOUS
  <2>1. \A t \in Threads : ~Holds(t)
    BY DEF Init, Holds
  <2> QED  BY <2>1, InitInv, MappingIsDeterminate DEF MappingAgrees, Service!Init
<1>2. IInv /\ IInv' /\ MappingAgrees /\ MappingAgrees' /\ [Next]_vars
        => [Service!Next]_<<Holder, Depth>>
  <2> SUFFICES ASSUME IInv, IInv', MappingAgrees, MappingAgrees', [Next]_vars
               PROVE  Service!Next \/ UNCHANGED <<Holder, Depth>>
    OBVIOUS
  <2>1. CASE UNCHANGED vars
    BY <2>1, QuiescentStutters DEF vars, Quiescent, Holds, Held
  <2>2. CASE \E t \in Threads : Step(t)
    BY <2>2, StepRefines
  <2> QED  BY <2>1, <2>2 DEF Next
<1> QED
  BY <1>1, <1>2, Invariance, MappingIsDeterminate, PTL
  DEF Spec, ImplementsMutex, Service!Spec, Service!vars

=============================================================================
