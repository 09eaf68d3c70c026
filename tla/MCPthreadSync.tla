---------------------------- MODULE MCPthreadSync ----------------------------
(***************************************************************************)
(* The parts of <pthread.h> that are small by themselves, in one state     *)
(* space: a behaviour uses either a read-write lock, or a barrier, or      *)
(* thread-specific data, or it starts and joins threads.  The first two    *)
(* share the condition variable that they extend.                          *)
(***************************************************************************)
EXTENDS PthreadCondition

CONSTANTS
    RwlockCalls, BarrierCalls,              \* MaxCalls of the two
    Count, GenerationMod,                   \* of the barrier
    KeyThreads, Slots, Rounds, KeyMod, MaxKeys, MaxSets, \* of the keys
    GuestThreads, Main, SharesEarly         \* of the threads

VARIABLES
    primitive,                              \* which of them the program uses
    calls,
    readers, writer, wants, mode,
    arrived, generation, joined, entered, left, serials,
    used, generations, destructor, keys, values, at, round, index, ranAny,
    call, sets, misrouted,
    record, hostId, finished, detached, list, entry, life, stopping, terminated, place,
    target, reaping, after, joining, claim, doubleFree

Rwlock == INSTANCE PthreadRwlock WITH MaxCalls <- RwlockCalls
Barrier == INSTANCE PthreadBarrier WITH MaxCalls <- BarrierCalls
Keys == INSTANCE PthreadKeys WITH Threads <- KeyThreads, GenerationMod <- KeyMod
Lives == INSTANCE PthreadThreads WITH Threads <- GuestThreads, pc <- place

ASSUME SyncAssumption ==
    /\ RwlockCalls \in Nat /\ BarrierCalls \in Nat
    /\ Count \in Nat \ {0} /\ GenerationMod \in Nat \ {0}
    /\ Slots \in Nat \ {0} /\ Rounds \in Nat \ {0}
    /\ MaxKeys \in Nat /\ MaxSets \in Nat /\ KeyMod \in Nat /\ MaxKeys < KeyMod
    /\ Lives!ThreadAssumption

\* The program makes fewer calls than there are 32-bit numbers: neither the
\* sequence of the condition nor the generation of the barrier comes round
\* to a value that a waiter still has in a local.
ASSUME CallsAssumption ==
    /\ IsFiniteSet(Threads)
    /\ Cardinality(Threads) * RwlockCalls < SequenceMod
    /\ Cardinality(Threads) * BarrierCalls < Count * SequenceMod
    /\ Cardinality(Threads) * BarrierCalls < Count * GenerationMod

conditionVars == <<calls, condVars, timed, pc>>
rwlockVars == <<readers, writer, wants, mode>>
barrierVars == <<arrived, generation, joined, entered, left, serials>>
keyVars == <<used, generations, destructor, keys, values, at, round, index, ranAny,
             call, sets, misrouted>>
threadVars == <<record, hostId, finished, detached, list, entry, life, stopping, terminated,
                place, target, reaping, after, joining, claim, doubleFree>>
vars == <<primitive, conditionVars, rwlockVars, barrierVars, keyVars, threadVars>>

\* The state of what a behaviour does not use does not matter and has one value.
Init ==
    /\ primitive \in {"rwlock", "barrier", "keys", "threads"}
    /\ Rwlock!Init
    /\ Barrier!Init
    /\ Keys!Init
    /\ Lives!Init

RwlockNext ==
    /\ primitive = "rwlock" /\ Rwlock!Next
    /\ UNCHANGED <<primitive, barrierVars, keyVars, threadVars>>
BarrierNext ==
    /\ primitive = "barrier" /\ Barrier!Next
    /\ UNCHANGED <<primitive, rwlockVars, keyVars, threadVars>>
KeysNext ==
    /\ primitive = "keys" /\ Keys!Next
    /\ UNCHANGED <<primitive, conditionVars, rwlockVars, barrierVars, threadVars>>
ThreadsNext ==
    /\ primitive = "threads" /\ Lives!Next
    /\ UNCHANGED <<primitive, conditionVars, rwlockVars, barrierVars, keyVars>>

Next == RwlockNext \/ BarrierNext \/ KeysNext \/ ThreadsNext

\* As in the modules themselves.
Spec ==
    /\ Init /\ [][Next]_vars
    /\ \A t \in Threads :
          /\ WF_<<conditionVars, rwlockVars>>(primitive = "rwlock" /\ Rwlock!Continue(t))
          /\ WF_<<conditionVars, barrierVars>>(primitive = "barrier" /\ Barrier!Continue(t))
    /\ \A a \in GuestThreads \cup {Main} :
          WF_threadVars(primitive = "threads" /\ Lives!Continue(a))
    /\ \A t \in GuestThreads :
          /\ WF_threadVars(primitive = "threads" /\ Lives!End(t))
          /\ WF_threadVars(primitive = "threads" /\ Lives!Terminate(t))
    /\ WF_threadVars(primitive = "threads"
                        /\ (Lives!ReleaseNext \/ Lives!ReleaseJoined \/ Lives!ReleaseEnds))

-----------------------------------------------------------------------------
(* The properties of the modules under the names of this one; each is stated *)
(* and explained there.                                                      *)

\* The counters of the read-write lock agree with its holders, a writer is
\* alone, and no thread sleeps on a lock that it could have.
RwlockSound ==
    primitive = "rwlock" => Rwlock!TypeOK /\ Rwlock!Exclusion /\ Rwlock!NoStrandedWaiter

\* The counted arrivals are the threads that wait in the current generation; the
\* barrier releases whole groups, with one serial thread each, and no thread
\* sleeps on in a generation that has opened.
BarrierSound ==
    primitive = "barrier" =>
        /\ Barrier!TypeOK
        /\ Barrier!ArrivalsAreWaiting
        /\ Barrier!ReleasesWholeGroups
        /\ Barrier!NoStrandedWaiter

\* No thread waits in vain at a read-write lock or a barrier, and both keep apart whom
\* they have to.
SleepersSound == RwlockSound /\ BarrierSound

\* A thread reads under a key only what it stored under it, live keys have slots of
\* their own and can be deleted; a destructor gets values of its own key only, and a
\* thread leaves no value behind.
KeysSound ==
    /\ primitive = "keys" => Keys!TypeOK
    /\ Keys!ValuesArePrivate /\ Keys!LiveKeysAreDistinct
    /\ Keys!DestructorsGetTheirValues /\ Keys!NothingLeftBehind

\* The record of a thread is freed once, out of use, and no release of the module
\* leaves a thread behind.
ThreadsSound == primitive = "threads" => Lives!RecordsSound /\ Lives!ReleaseLeavesNobody

\* Every call on the read-write lock returns, every thread of an opened generation
\* returns from the barrier, and the release of a module ends: EveryCallReturns,
\* PassedReturn and ReleaseReturns of the three modules.
Due(t) ==
    \/ primitive = "rwlock" /\ pc[t] # "idle"
    \/ primitive = "barrier" /\ Barrier!Passed(t)
    \/ primitive = "threads" /\ place[Main] = "release"
Over(t) == pc[t] = "idle" /\ place[Main] \notin {"release", "releaseJoin"}
CallsReturn == \A t \in Threads : Due(t) ~> Over(t)

\* The comment on the key slots, which the code does not keep.
StaleReadsNull == Keys!StaleReadsNull

=============================================================================
