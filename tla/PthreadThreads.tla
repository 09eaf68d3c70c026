---------------------------- MODULE PthreadThreads ----------------------------
(***************************************************************************)
(* The life of a guest thread, across the module libc (pthread_create,     *)
(* pthread_join, pthread_detach and Reap_Detached in                       *)
(* src/sdk/libc/src/pthread.cpp) and the host (Spawn, Join and             *)
(* Threads_Release_Owner in src/client/src/threads.cpp).                   *)
(*                                                                         *)
(* The libc keeps a record per thread and a list of detached threads under *)
(* a lock; the host keeps a map from host ids to wasm threads under        *)
(* another.  A step is one critical section of either lock, one atomic     *)
(* access of a record, or one wait.  Every thread of Threads is created at *)
(* most once; the addresses of freed records are not used again.           *)
(*                                                                         *)
(* The program is any one that joins or detaches a thread at most once and *)
(* does not join in a circle: a thread joins only larger ones.             *)
(***************************************************************************)
EXTENDS Integers, FiniteSets

CONSTANTS
    Threads,        \* the guest threads the program may create, numbers
    Main,           \* the emulation thread, a smaller number; it has no record
    SharesEarly     \* whether a thread hands its own pthread_self to others
                    \* before pthread_create returned to its creator

Actors == Threads \cup {Main}

\* The module that instantiates this one assumes it of its constants.
ThreadAssumption ==
    /\ Threads \subseteq Nat /\ IsFiniteSet(Threads)
    /\ Main \in Nat /\ \A t \in Threads : Main < t
    /\ SharesEarly \in BOOLEAN

NoThread == -1

VARIABLES
    record,         \* a Thread_Record is not there yet, live or freed
    hostId,         \* whether thread->hostId is stored
    finished,       \* thread->finished
    detached,       \* thread->detached
    list,           \* sDetached
    entry,          \* runtime.threads: no entry yet, "mapped", or "taken" to join
    life,           \* the wasm thread: "none", "run", "flagged" or "ended"
    stopping,       \* module.stopping
    terminated,     \* wasm_runtime_terminate was called
    pc,             \* where each actor is
    target,         \* the thread its call is about
    reaping,        \* Reap_Detached's local list of finished threads
    after,          \* where it goes on after Reap_Detached
    joining,        \* the thread it waits for in wasm_runtime_join_thread
    claim,          \* history: how the program disposes of a thread
    doubleFree      \* history: a record was freed that was not live

recordVars == <<record, hostId, finished, detached, list, doubleFree>>
hostVars == <<entry, life, stopping, terminated>>
actorVars == <<pc, target, reaping, after, joining, claim>>
vars == <<recordVars, hostVars, actorVars>>

Init ==
    /\ record = [t \in Threads |-> "none"]
    /\ hostId = [t \in Threads |-> FALSE]
    /\ finished = [t \in Threads |-> FALSE]
    /\ detached = [t \in Threads |-> FALSE]
    /\ list = {}
    /\ entry = [t \in Threads |-> "none"]
    /\ life = [t \in Threads |-> "none"]
    /\ stopping = FALSE
    /\ terminated = FALSE
    /\ pc = [a \in Actors |-> "idle"]
    /\ target = [a \in Actors |-> NoThread]
    /\ reaping = [a \in Actors |-> {}]
    /\ after = [a \in Actors |-> "idle"]
    /\ joining = [a \in Actors |-> NoThread]
    /\ claim = [t \in Threads |-> "none"]
    /\ doubleFree = FALSE

Goto(a, place) == pc' = [pc EXCEPT ![a] = place]

\* Guest code runs in Main and in the threads that are started and not over.
Running(a) == IF a = Main THEN TRUE ELSE life[a] = "run"
Free(a) == Running(a) /\ pc[a] = "idle"

FreeRecord(t) ==
    /\ record' = [record EXCEPT ![t] = "freed"]
    /\ doubleFree' = (doubleFree \/ record[t] # "live")

\* wasm_runtime_join_thread returns when the thread is over.
Over(t) == life[t] = "ended"

-----------------------------------------------------------------------------
(* Reap_Detached *)

\* It takes the finished threads off the list, under the lock ...
Unlinked(gone) == list \ gone
Collect(a) ==
    /\ Running(a)
    /\ pc[a] = "reap"
    /\ LET gone == {t \in list : finished[t]} IN
          /\ list' = Unlinked(gone)
          /\ reaping' = [reaping EXCEPT ![a] = gone]
    /\ Goto(a, "reaping")
    /\ UNCHANGED <<record, hostId, finished, detached, doubleFree, hostVars,
                   target, after, joining, claim>>

\* ... waits until the creator stored the host id of the next one, and asks
\* the host to join it ...
IdKnownAtOnce(t) == TRUE
IdKnown(t) == hostId[t]
ReapNext(a) ==
    /\ Running(a)
    /\ pc[a] = "reaping"
    /\ \E t \in reaping[a] :
          /\ IdKnown(t)
          /\ joining' = [joining EXCEPT ![a] = t]
          /\ reaping' = [reaping EXCEPT ![a] = @ \ {t}]
          /\ IF hostId[t] /\ entry[t] = "mapped"
               THEN entry' = [entry EXCEPT ![t] = "taken"] /\ Goto(a, "reapJoin")
               ELSE Goto(a, "reapFree") /\ UNCHANGED entry
    /\ UNCHANGED <<recordVars, life, stopping, terminated, target, after, claim>>

\* ... waits there, and frees the record.
ReapJoined(a) ==
    /\ pc[a] = "reapJoin"
    /\ Over(joining[a])
    /\ Goto(a, "reapFree")
    /\ UNCHANGED <<recordVars, hostVars, target, reaping, after, joining, claim>>

ReapFree(a) ==
    /\ Running(a)
    /\ pc[a] = "reapFree"
    /\ FreeRecord(joining[a])
    /\ joining' = [joining EXCEPT ![a] = NoThread]
    /\ Goto(a, "reaping")
    /\ UNCHANGED <<hostId, finished, detached, list, hostVars, target, reaping, after, claim>>

Reaped(a) ==
    /\ Running(a)
    /\ pc[a] = "reaping"
    /\ reaping[a] = {}
    /\ Goto(a, after[a])
    /\ after' = [after EXCEPT ![a] = "idle"]
    /\ UNCHANGED <<recordVars, hostVars, target, reaping, joining, claim>>

-----------------------------------------------------------------------------
(* pthread_create *)

\* A thread created detached is disposed of by that.
AfterReap == "alloc"
Create(a) ==
    /\ Free(a)
    /\ \E t \in Threads, how \in {"joinable", "detach"} :
          /\ record[t] = "none"
          /\ \A b \in Actors : target[b] # t
          /\ target' = [target EXCEPT ![a] = t]
          /\ claim' = [claim EXCEPT ![t] = how]
    /\ after' = [after EXCEPT ![a] = AfterReap]
    /\ Goto(a, "reap")
    /\ UNCHANGED <<recordVars, hostVars, reaping, joining>>

\* The record; a detached thread is on the list before it starts.
Allocate(a) ==
    /\ Running(a)
    /\ pc[a] = "alloc"
    /\ LET t == target[a] IN
          /\ record' = [record EXCEPT ![t] = "live"]
          /\ detached' = [detached EXCEPT ![t] = claim[t] = "detach"]
          /\ list' = IF claim[t] = "detach" THEN list \cup {t} ELSE list
    /\ Goto(a, "spawn")
    /\ UNCHANGED <<hostId, finished, doubleFree, hostVars, target, reaping,
                   after, joining, claim>>

\* Memory ran out: EAGAIN.
AllocateFails(a) ==
    /\ Running(a)
    /\ pc[a] = "alloc"
    /\ target' = [target EXCEPT ![a] = NoThread]
    /\ claim' = [claim EXCEPT ![target[a]] = "none"]
    /\ Goto(a, "idle")
    /\ UNCHANGED <<recordVars, hostVars, reaping, after, joining>>

\* The host starts the wasm thread and maps it in one critical section.
Spawn(a) ==
    /\ Running(a)
    /\ pc[a] = "spawn"
    /\ ~stopping
    /\ life' = [life EXCEPT ![target[a]] = "run"]
    /\ entry' = [entry EXCEPT ![target[a]] = "mapped"]
    /\ Goto(a, "store")
    /\ UNCHANGED <<recordVars, stopping, terminated, target, reaping, after, joining, claim>>

\* It refuses when the module stops, and may fail to start a thread.
SpawnFails(a) ==
    /\ Running(a)
    /\ pc[a] = "spawn"
    /\ Goto(a, "undo")
    /\ UNCHANGED <<recordVars, hostVars, target, reaping, after, joining, claim>>

Undo(a) ==
    /\ Running(a)
    /\ pc[a] = "undo"
    /\ list' = list \ {target[a]}
    /\ FreeRecord(target[a])
    /\ target' = [target EXCEPT ![a] = NoThread]
    /\ Goto(a, "idle")
    /\ UNCHANGED <<hostId, finished, detached, hostVars, reaping, after, joining, claim>>

\* The host id is stored, and its waiters woken, after the thread started.
StoreId(a) ==
    /\ Running(a)
    /\ pc[a] = "store"
    /\ hostId' = [hostId EXCEPT ![target[a]] = TRUE]
    /\ target' = [target EXCEPT ![a] = NoThread]
    /\ Goto(a, "idle")
    /\ UNCHANGED <<record, finished, detached, list, doubleFree, hostVars,
                   reaping, after, joining, claim>>

-----------------------------------------------------------------------------
(* pthread_join and pthread_detach *)

\* An actor has the handle of a thread once pthread_create returned, or from
\* the thread itself.
Knows(t) == life[t] # "none" /\ (SharesEarly \/ hostId[t])

\* pthread_join reads the host id as it is and asks the host to join it; the
\* host does not know the id 0.
Join(a) ==
    /\ Free(a)
    /\ \E t \in Threads :
          /\ a < t
          /\ claim[t] = "joinable"
          /\ Knows(t)
          /\ ~detached[t]
          /\ claim' = [claim EXCEPT ![t] = "join"]
          /\ joining' = [joining EXCEPT ![a] = t]
          /\ IF hostId[t] /\ entry[t] = "mapped"
               THEN entry' = [entry EXCEPT ![t] = "taken"] /\ Goto(a, "join")
               ELSE Goto(a, "joinFree") /\ UNCHANGED entry
    /\ UNCHANGED <<recordVars, life, stopping, terminated, target, reaping, after>>

Joined(a) ==
    /\ pc[a] = "join"
    /\ Over(joining[a])
    /\ Goto(a, "joinFree")
    /\ UNCHANGED <<recordVars, hostVars, target, reaping, after, joining, claim>>

\* It reads the result and frees the record.
JoinFree(a) ==
    /\ Running(a)
    /\ pc[a] = "joinFree"
    /\ FreeRecord(joining[a])
    /\ joining' = [joining EXCEPT ![a] = NoThread]
    /\ Goto(a, "idle")
    /\ UNCHANGED <<hostId, finished, detached, list, hostVars, target, reaping, after, claim>>

\* pthread_detach of another thread reaps; of the calling thread it cannot.
Detach(a) ==
    /\ Free(a)
    /\ \E t \in Threads :
          /\ claim[t] = "joinable"
          /\ a = t \/ Knows(t)
          /\ ~detached[t]
          /\ claim' = [claim EXCEPT ![t] = "detach"]
          /\ detached' = [detached EXCEPT ![t] = TRUE]
          /\ list' = list \cup {t}
          /\ Goto(a, IF a = t THEN "idle" ELSE "reap")
    /\ UNCHANGED <<record, hostId, finished, doubleFree, hostVars, target,
                   reaping, after, joining>>

-----------------------------------------------------------------------------
(* A thread, and the release of its module *)

\* The routine returned: exit handlers, the storage, and last the flag.
Finish(t) ==
    /\ Free(t)
    /\ finished' = [finished EXCEPT ![t] = TRUE]
    /\ life' = [life EXCEPT ![t] = "flagged"]
    /\ UNCHANGED <<record, hostId, detached, list, doubleFree, entry, stopping,
                   terminated, actorVars>>

\* The host's part of the thread ends.
End(t) ==
    /\ life[t] = "flagged"
    /\ life' = [life EXCEPT ![t] = "ended"]
    /\ UNCHANGED <<recordVars, entry, stopping, terminated, actorVars>>

\* A trap, or the termination of the instance, ends a thread in guest code at
\* any point; a thread inside a join of the host stays there.
InGuest(t) == pc[t] \notin {"reapJoin", "join"}
Trap(t) ==
    /\ Free(t)
    /\ life' = [life EXCEPT ![t] = "ended"]
    /\ UNCHANGED <<recordVars, entry, stopping, terminated, actorVars>>
Terminate(t) ==
    /\ terminated
    /\ life[t] = "run"
    /\ InGuest(t)
    /\ life' = [life EXCEPT ![t] = "ended"]
    /\ UNCHANGED <<recordVars, entry, stopping, terminated, actorVars>>

\* Threads_Release_Owner, in the emulation thread: no more threads ...
ReleaseOwner ==
    /\ pc[Main] = "idle"
    /\ stopping' = TRUE
    /\ Goto(Main, "release")
    /\ UNCHANGED <<recordVars, entry, life, terminated, target, reaping, after, joining, claim>>

\* ... it takes one entry of the module after the other, terminates the
\* instance at the first, and joins each ...
ReleaseNext ==
    /\ pc[Main] = "release"
    /\ \E t \in Threads :
          /\ entry[t] = "mapped"
          /\ entry' = [entry EXCEPT ![t] = "taken"]
          /\ joining' = [joining EXCEPT ![Main] = t]
    /\ terminated' = TRUE
    /\ Goto(Main, "releaseJoin")
    /\ UNCHANGED <<recordVars, life, stopping, target, reaping, after, claim>>

ReleaseJoined ==
    /\ pc[Main] = "releaseJoin"
    /\ Over(joining[Main])
    /\ joining' = [joining EXCEPT ![Main] = NoThread]
    /\ Goto(Main, "release")
    /\ UNCHANGED <<recordVars, hostVars, target, reaping, after, claim>>

\* ... until there is none.
ReleaseEnds ==
    /\ pc[Main] = "release"
    /\ \A t \in Threads : entry[t] # "mapped"
    /\ Goto(Main, "released")
    /\ UNCHANGED <<recordVars, hostVars, target, reaping, after, joining, claim>>

-----------------------------------------------------------------------------

\* What an actor does inside a call.
Continue(a) ==
    \/ Collect(a) \/ ReapNext(a) \/ ReapJoined(a) \/ ReapFree(a) \/ Reaped(a)
    \/ Allocate(a) \/ AllocateFails(a) \/ Spawn(a) \/ SpawnFails(a) \/ Undo(a)
    \/ StoreId(a) \/ Joined(a) \/ JoinFree(a)

Release == ReleaseOwner \/ ReleaseNext \/ ReleaseJoined \/ ReleaseEnds

Next ==
    \/ \E a \in Actors : Create(a) \/ Join(a) \/ Detach(a) \/ Continue(a)
    \/ \E t \in Threads : Finish(t) \/ End(t) \/ Trap(t) \/ Terminate(t)
    \/ Release

Spec == Init /\ [][Next]_vars

\* Threads inside a call run, a terminated instance ends, and the emulation
\* thread goes on with a release; guest routines need not end by themselves.
FairSpec ==
    /\ Spec
    /\ \A a \in Actors : WF_vars(Continue(a))
    /\ \A t \in Threads : WF_vars(End(t)) /\ WF_vars(Terminate(t))
    /\ WF_vars(ReleaseNext \/ ReleaseJoined \/ ReleaseEnds)

-----------------------------------------------------------------------------

Places == {"idle", "reap", "reaping", "reapJoin", "reapFree", "alloc", "spawn", "undo",
           "store", "join", "joinFree", "release", "releaseJoin", "released"}

\* Every variable keeps its type.
TypeOK ==
    /\ record \in [Threads -> {"none", "live", "freed"}]
    /\ hostId \in [Threads -> BOOLEAN]
    /\ finished \in [Threads -> BOOLEAN]
    /\ detached \in [Threads -> BOOLEAN]
    /\ list \subseteq Threads
    /\ entry \in [Threads -> {"none", "mapped", "taken"}]
    /\ life \in [Threads -> {"none", "run", "flagged", "ended"}]
    /\ stopping \in BOOLEAN
    /\ terminated \in BOOLEAN
    /\ pc \in [Actors -> Places]
    /\ target \in [Actors -> Threads \cup {NoThread}]
    /\ reaping \in [Actors -> SUBSET Threads]
    /\ after \in [Actors -> {"idle", "alloc"}]
    /\ joining \in [Actors -> Threads \cup {NoThread}]
    /\ claim \in [Threads -> {"none", "joinable", "join", "detach"}]
    /\ doubleFree \in BOOLEAN

\* A freed record is out of use: its thread is over (or never started), it is
\* on no list, and no creator is still to store its host id.  Reap_Detached
\* and pthread_join free records that creator, thread and host touch too.
\* One thread at a time is excepted, and only while the module is released:
\* Threads_Release_Owner took its entry and waits for it, so a guest join does
\* not find the entry, returns at once and frees the record while the thread
\* may run; the release joins that thread before it takes another.
ReleaseWaitsFor(t) == pc[Main] = "releaseJoin" /\ joining[Main] = t
RecordOutlivesUse ==
    \A t \in Threads : record[t] = "freed" =>
        /\ life[t] \in {"none", "ended"} \/ ReleaseWaitsFor(t)
        /\ t \notin list
        /\ \A a \in Actors : target[a] # t /\ t \notin reaping[a]

\* No record is freed twice, whoever collects it first.
NoDoubleFree == ~doubleFree

\* A detached thread stays in someone's hands until its record is freed, so
\* the next reaping finds it: on the list, or with the actor that reaps it.
DetachedAreKept ==
    \A t \in Threads : detached[t] /\ record[t] = "live" =>
        t \in list \/ \E a \in Actors : t \in reaping[a] \/ joining[a] = t

\* Each thread's record lives as long as anybody uses it, is freed once and is
\* not leaked.
RecordsSound == TypeOK /\ RecordOutlivesUse /\ NoDoubleFree /\ DetachedAreKept

\* Threads_Release_Owner returns only when every thread of the module is over,
\* those included whose entry a guest join took out of the map before it.
ReleaseLeavesNobody ==
    pc[Main] = "released" => \A t \in Threads : life[t] \in {"none", "ended"}

\* The release of a module ends, whatever its threads are at: in a routine
\* that never ends, in a join, or starting another thread.
ReleaseReturns == pc[Main] = "release" ~> pc[Main] = "released"

\* pthread_join gives the record back only after the thread ended.  Fails when
\* another thread has the handle before the creator stored the host id, which
\* Reap_Detached waits for and pthread_join does not.
JoinAwaitsEnd ==
    \A t \in Threads :
        ~stopping /\ claim[t] = "join" /\ record[t] = "freed" => life[t] = "ended"

=============================================================================
