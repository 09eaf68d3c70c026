-------------------------- MODULE PthreadSyncProofs --------------------------
(***************************************************************************)
(* Machine-checked proofs about the four parts of MCPthreadSync, for every *)
(* number of threads, calls, keys and slots.  Each part has its invariant, *)
(* one lemma for every action that keeps it, and a lemma that draws the    *)
(* properties from it; the theorems at the end put the parts together.     *)
(*                                                                         *)
(* What is not inductive by itself, and what it rests on:                  *)
(*  - NoStrandedWaiter: the broadcast is decided under the mutex and comes *)
(*    after it, so between the two a thread that is about to sleep relies  *)
(*    on its stale sequence, or on a thread that is about to move it;      *)
(*    and on the sequence not coming round, so it is bounded by the calls  *)
(*    that are through with the lock, or by the arrivals at the barrier;   *)
(*  - ReleasesWholeGroups: the generation counts the groups of arrivals;   *)
(*  - DestructorsGetTheirValues: a slot's generation tells its keys apart; *)
(*  - NoDoubleFree, DetachedAreKept: every record is with one actor.       *)
(***************************************************************************)
EXTENDS MCPthreadSync, FiniteSetTheorems, TLAPS

\* A set of threads is finite, and not larger than all of them.
LEMMA SetsOfThreads ==
    ASSUME NEW S \in SUBSET Threads
    PROVE  IsFiniteSet(S) /\ Cardinality(S) \in 0..Cardinality(Threads)
  BY CallsAssumption, FS_Subset, FS_CardinalityType

-----------------------------------------------------------------------------
(* The read-write lock *)

\* The instances count with the same Cardinality.
LEMMA RwlockCardinality == \A S : Rwlock!Cardinality(S) = Cardinality(S)
  BY Zenon DEF Rwlock!Cardinality, Cardinality

Readers == {t \in Threads : mode[t] = "read"}
Writers == {t \in Threads : mode[t] = "write"}

RwlockHolding == {"wait", "drop", "test", "again", "try", "unlock"}

RwlockPlaces ==
    /\ \A t \in Threads : holder = t <=> pc[t] \in RwlockHolding
    /\ asleep = {t \in Threads : pc[t] = "asleep"}
    /\ \A t \in Threads : mode[t] # "none" => pc[t] \in {"idle", "unlock"}
    /\ \A t \in Threads : pc[t] = "unlock" => mode[t] # "none"
    /\ \A t \in Threads : pc[t] # "idle" \/ mode[t] # "none" => calls[t] # 0

RwlockWaiters ==
    \A t \in Threads :
        /\ pc[t] \in {"wait", "drop"} => Rwlock!Blocked(t)
        /\ pc[t] \in {"drop", "doze", "asleep"} => seen[t] <= sequence
        /\ pc[t] = "doze" /\ ~Rwlock!Blocked(t) =>
              seen[t] < sequence \/ \E u \in Threads : pc[u] = "bump"

\* The calls of the program, each thread's numbered from 1.
RwlockCallsMade == Threads \X (1..RwlockCalls)

RwlockPending(t) == pc[t] \notin {"idle", "wake"} \/ mode[t] # "none"
RwlockBumped ==
    {k \in RwlockCallsMade :
        k[2] < calls[k[1]] \/ (k[2] = calls[k[1]] /\ ~RwlockPending(k[1]))}

RwlockInv ==
    /\ Rwlock!TypeOK
    /\ Rwlock!Exclusion
    /\ Rwlock!NoStrandedWaiter
    /\ RwlockPlaces
    /\ RwlockWaiters
    /\ sequence <= Cardinality(RwlockBumped)

\* The counts of the read-write lock in terms of the sets of holders.
LEMMA RwlockExclusion ==
    Rwlock!Exclusion <=> /\ readers = Cardinality(Readers)
                         /\ writer = Cardinality(Writers)
                         /\ writer # 0 => readers = 0
  BY RwlockCardinality DEF Rwlock!Exclusion, Readers, Writers

\* The sets of holders are finite.
LEMMA HolderSets ==
    /\ IsFiniteSet(Readers) /\ Cardinality(Readers) \in 0..Cardinality(Threads)
    /\ IsFiniteSet(Writers) /\ Cardinality(Writers) \in Nat
  <1>1. Readers \in SUBSET Threads /\ Writers \in SUBSET Threads
    BY DEF Readers, Writers
  <1> QED BY <1>1, CallsAssumption, FS_Subset, FS_CardinalityType

\* The calls that are through are finitely many, and not more than the program
\* makes.
LEMMA SetsOfCalls ==
    ASSUME NEW S \in SUBSET RwlockCallsMade
    PROVE  /\ IsFiniteSet(S) /\ Cardinality(S) \in Nat
           /\ Cardinality(S) < SequenceMod
           /\ \A T \in SUBSET S : Cardinality(T) <= Cardinality(S) /\ Cardinality(T) \in Nat
  <1>2. /\ IsFiniteSet(1..RwlockCalls)
        /\ Cardinality(1..RwlockCalls) = RwlockCalls
    BY FS_Interval, SyncAssumption
  <1>3. /\ IsFiniteSet(RwlockCallsMade)
        /\ Cardinality(RwlockCallsMade) = Cardinality(Threads) * RwlockCalls
    BY <1>2, FS_Product, CallsAssumption DEF RwlockCallsMade
  <1>4. Cardinality(Threads) * RwlockCalls \in Nat
    BY <1>3, FS_CardinalityType
  <1>5. SequenceMod \in Nat
    BY ConditionAssumption
  <1>6. /\ IsFiniteSet(S)
        /\ Cardinality(S) <= Cardinality(Threads) * RwlockCalls
    BY <1>3, FS_Subset
  <1>7. Cardinality(S) \in Nat
    BY <1>6, FS_CardinalityType
  <1>8. ASSUME NEW T \in SUBSET S
        PROVE  Cardinality(T) <= Cardinality(S) /\ Cardinality(T) \in Nat
    BY <1>6, FS_Subset, FS_CardinalityType
  <1> QED BY <1>4, <1>5, <1>6, <1>7, <1>8, CallsAssumption

\* A step that does not move the sequence takes no call off the bumped ones.
LEMMA BumpedKept ==
    ASSUME RwlockInv, Rwlock!TypeOK', sequence' = sequence,
           \A u \in Threads :
              \/ calls'[u] = calls[u] /\ (RwlockPending(u)' => RwlockPending(u))
              \/ calls'[u] = calls[u] + 1
    PROVE  sequence' <= Cardinality(RwlockBumped')
  <1>1. RwlockBumped \in SUBSET RwlockCallsMade /\ RwlockBumped' \in SUBSET RwlockCallsMade
    BY DEF RwlockBumped, RwlockCallsMade
  <1>2. RwlockBumped \subseteq RwlockBumped'
    <2> SUFFICES ASSUME NEW k \in RwlockBumped PROVE k \in RwlockBumped'
      OBVIOUS
    <2>1. /\ k[1] \in Threads /\ k[2] \in Nat /\ k \in RwlockCallsMade
          /\ k[2] < calls[k[1]] \/ (k[2] = calls[k[1]] /\ ~RwlockPending(k[1]))
      BY DEF RwlockBumped, RwlockCallsMade
    <2>2. calls[k[1]] \in Nat
      BY <2>1, SyncAssumption DEF RwlockInv, Rwlock!TypeOK
    <2>3. k[2] < calls'[k[1]] \/ (k[2] = calls'[k[1]] /\ ~RwlockPending(k[1])')
      BY <2>1, <2>2
    <2> QED BY <2>1, <2>3 DEF RwlockBumped, RwlockCallsMade
  <1>3. Cardinality(RwlockBumped) <= Cardinality(RwlockBumped')
    BY <1>1, <1>2, SetsOfCalls
  <1> QED BY <1>1, <1>3, SetsOfCalls, ConditionAssumption
          DEF RwlockInv, Rwlock!TypeOK, Rwlock!CondTypeOK

USE DEF Rwlock!Goto, Rwlock!Take, Rwlock!Drop, Rwlock!condVars, Rwlock!lockVars

\* A caller that has to wait goes to the condition variable.
LEMMA RwlockAwait ==
    ASSUME RwlockInv, NEW t \in Threads, Rwlock!Await(t)
    PROVE  RwlockInv'
  <1>1. Rwlock!TypeOK'
    BY SyncAssumption, ConditionAssumption
    DEF RwlockInv, Rwlock!TypeOK, Rwlock!CondTypeOK, Rwlock!CondPlaces, Rwlock!Await
  <1>2. RwlockPlaces'
    BY ConditionAssumption
    DEF RwlockInv, Rwlock!TypeOK, Rwlock!CondTypeOK, Rwlock!CondPlaces, RwlockPlaces,
        RwlockHolding, Rwlock!Await
  <1>3. RwlockWaiters'
    BY DEF RwlockInv, Rwlock!TypeOK, Rwlock!CondTypeOK, Rwlock!CondPlaces, RwlockPlaces,
           RwlockHolding, RwlockWaiters, Rwlock!Blocked, Rwlock!Await
  <1>4. Rwlock!NoStrandedWaiter'
    BY DEF RwlockInv, Rwlock!TypeOK, Rwlock!CondTypeOK, Rwlock!CondPlaces, RwlockPlaces,
           RwlockHolding, RwlockWaiters, Rwlock!NoStrandedWaiter, Rwlock!Blocked,
           Rwlock!Await
  <1>5. Rwlock!Exclusion'
    BY RwlockExclusion DEF RwlockInv, Readers, Writers, Rwlock!Exclusion, Rwlock!Await
  <1>6. sequence' <= Cardinality(RwlockBumped')
    BY <1>1, BumpedKept
    DEF RwlockInv, Rwlock!TypeOK, RwlockPending, RwlockPlaces, Rwlock!Await
  <1> QED BY <1>1, <1>2, <1>3, <1>4, <1>5, <1>6 DEF RwlockInv

\* The waiter remembers the sequence.
LEMMA RwlockReadSequence ==
    ASSUME RwlockInv, NEW t \in Threads, Rwlock!ReadSequence(t) /\ UNCHANGED Rwlock!lockVars
    PROVE  RwlockInv'
  <1>1. Rwlock!TypeOK'
    BY SyncAssumption, ConditionAssumption
    DEF RwlockInv, Rwlock!TypeOK, Rwlock!CondTypeOK, Rwlock!CondPlaces,
        Rwlock!ReadSequence
  <1>2. RwlockPlaces'
    BY ConditionAssumption
    DEF RwlockInv, Rwlock!TypeOK, Rwlock!CondTypeOK, Rwlock!CondPlaces, RwlockPlaces,
        RwlockHolding, Rwlock!ReadSequence
  <1>3. RwlockWaiters'
    BY DEF RwlockInv, Rwlock!TypeOK, Rwlock!CondTypeOK, Rwlock!CondPlaces, RwlockPlaces,
           RwlockHolding, RwlockWaiters, Rwlock!Blocked, Rwlock!ReadSequence
  <1>4. Rwlock!NoStrandedWaiter'
    BY DEF RwlockInv, Rwlock!TypeOK, Rwlock!CondTypeOK, Rwlock!CondPlaces, RwlockPlaces,
           RwlockHolding, RwlockWaiters, Rwlock!NoStrandedWaiter, Rwlock!Blocked,
           Rwlock!ReadSequence
  <1>5. Rwlock!Exclusion'
    BY RwlockExclusion
    DEF RwlockInv, Readers, Writers, Rwlock!Exclusion, Rwlock!ReadSequence
  <1>6. sequence' <= Cardinality(RwlockBumped')
    BY <1>1, BumpedKept
    DEF RwlockInv, Rwlock!TypeOK, RwlockPending, RwlockPlaces, Rwlock!ReadSequence
  <1> QED BY <1>1, <1>2, <1>3, <1>4, <1>5, <1>6 DEF RwlockInv

\* The waiter gives the mutex back.
LEMMA RwlockLeave ==
    ASSUME RwlockInv, NEW t \in Threads, Rwlock!Leave(t) /\ UNCHANGED Rwlock!lockVars
    PROVE  RwlockInv'
  <1>1. Rwlock!TypeOK'
    BY SyncAssumption, ConditionAssumption
    DEF RwlockInv, Rwlock!TypeOK, Rwlock!CondTypeOK, Rwlock!CondPlaces, Rwlock!Leave
  <1>2. RwlockPlaces'
    BY ConditionAssumption
    DEF RwlockInv, Rwlock!TypeOK, Rwlock!CondTypeOK, Rwlock!CondPlaces, RwlockPlaces,
        RwlockHolding, Rwlock!Leave
  <1>3. RwlockWaiters'
    BY DEF RwlockInv, Rwlock!TypeOK, Rwlock!CondTypeOK, Rwlock!CondPlaces, RwlockPlaces,
           RwlockHolding, RwlockWaiters, Rwlock!Blocked, Rwlock!Leave
  <1>4. Rwlock!NoStrandedWaiter'
    BY DEF RwlockInv, Rwlock!TypeOK, Rwlock!CondTypeOK, Rwlock!CondPlaces, RwlockPlaces,
           RwlockHolding, RwlockWaiters, Rwlock!NoStrandedWaiter, Rwlock!Blocked,
           Rwlock!Leave
  <1>5. Rwlock!Exclusion'
    BY RwlockExclusion DEF RwlockInv, Readers, Writers, Rwlock!Exclusion, Rwlock!Leave
  <1>6. sequence' <= Cardinality(RwlockBumped')
    BY <1>1, BumpedKept
    DEF RwlockInv, Rwlock!TypeOK, RwlockPending, RwlockPlaces, Rwlock!Leave
  <1> QED BY <1>1, <1>2, <1>3, <1>4, <1>5, <1>6 DEF RwlockInv

\* The time was over before the wait.
LEMMA RwlockLate ==
    ASSUME RwlockInv, NEW t \in Threads, Rwlock!Late(t) /\ UNCHANGED Rwlock!lockVars
    PROVE  RwlockInv'
  <1>1. Rwlock!TypeOK'
    BY SyncAssumption, ConditionAssumption
    DEF RwlockInv, Rwlock!TypeOK, Rwlock!CondTypeOK, Rwlock!CondPlaces, Rwlock!Late
  <1>2. RwlockPlaces'
    BY ConditionAssumption
    DEF RwlockInv, Rwlock!TypeOK, Rwlock!CondTypeOK, Rwlock!CondPlaces, RwlockPlaces,
        RwlockHolding, Rwlock!Late
  <1>3. RwlockWaiters'
    BY DEF RwlockInv, Rwlock!TypeOK, Rwlock!CondTypeOK, Rwlock!CondPlaces, RwlockPlaces,
           RwlockHolding, RwlockWaiters, Rwlock!Blocked, Rwlock!Late
  <1>4. Rwlock!NoStrandedWaiter'
    BY DEF RwlockInv, Rwlock!TypeOK, Rwlock!CondTypeOK, Rwlock!CondPlaces, RwlockPlaces,
           RwlockHolding, RwlockWaiters, Rwlock!NoStrandedWaiter, Rwlock!Blocked,
           Rwlock!Late
  <1>5. Rwlock!Exclusion'
    BY RwlockExclusion DEF RwlockInv, Readers, Writers, Rwlock!Exclusion, Rwlock!Late
  <1>6. sequence' <= Cardinality(RwlockBumped')
    BY <1>1, BumpedKept
    DEF RwlockInv, Rwlock!TypeOK, RwlockPending, RwlockPlaces, Rwlock!Late
  <1> QED BY <1>1, <1>2, <1>3, <1>4, <1>5, <1>6 DEF RwlockInv

\* The time is over in the wait.
LEMMA RwlockExpire ==
    ASSUME RwlockInv, NEW t \in Threads, Rwlock!Expire(t) /\ UNCHANGED Rwlock!lockVars
    PROVE  RwlockInv'
  <1>1. Rwlock!TypeOK'
    BY SyncAssumption, ConditionAssumption
    DEF RwlockInv, Rwlock!TypeOK, Rwlock!CondTypeOK, Rwlock!CondPlaces, Rwlock!Expire
  <1>2. RwlockPlaces'
    BY ConditionAssumption
    DEF RwlockInv, Rwlock!TypeOK, Rwlock!CondTypeOK, Rwlock!CondPlaces, RwlockPlaces,
        RwlockHolding, Rwlock!Expire
  <1>3. RwlockWaiters'
    BY DEF RwlockInv, Rwlock!TypeOK, Rwlock!CondTypeOK, Rwlock!CondPlaces, RwlockPlaces,
           RwlockHolding, RwlockWaiters, Rwlock!Blocked, Rwlock!Expire
  <1>4. Rwlock!NoStrandedWaiter'
    BY DEF RwlockInv, Rwlock!TypeOK, Rwlock!CondTypeOK, Rwlock!CondPlaces, RwlockPlaces,
           RwlockHolding, RwlockWaiters, Rwlock!NoStrandedWaiter, Rwlock!Blocked,
           Rwlock!Expire
  <1>5. Rwlock!Exclusion'
    BY RwlockExclusion DEF RwlockInv, Readers, Writers, Rwlock!Exclusion, Rwlock!Expire
  <1>6. sequence' <= Cardinality(RwlockBumped')
    BY <1>1, BumpedKept
    DEF RwlockInv, Rwlock!TypeOK, RwlockPending, RwlockPlaces, Rwlock!Expire
  <1> QED BY <1>1, <1>2, <1>3, <1>4, <1>5, <1>6 DEF RwlockInv

\* The waiter sleeps if the sequence is what it remembers.
LEMMA RwlockDoze ==
    ASSUME RwlockInv, NEW t \in Threads, Rwlock!Doze(t) /\ UNCHANGED Rwlock!lockVars
    PROVE  RwlockInv'
  <1>1. Rwlock!TypeOK'
    BY SyncAssumption, ConditionAssumption
    DEF RwlockInv, Rwlock!TypeOK, Rwlock!CondTypeOK, Rwlock!CondPlaces, Rwlock!Doze,
        Rwlock!Stale
  <1>2. RwlockPlaces'
    BY ConditionAssumption
    DEF RwlockInv, Rwlock!TypeOK, Rwlock!CondTypeOK, Rwlock!CondPlaces, RwlockPlaces,
        RwlockHolding, Rwlock!Doze, Rwlock!Stale
  <1>3. RwlockWaiters'
    BY DEF RwlockInv, Rwlock!TypeOK, Rwlock!CondTypeOK, Rwlock!CondPlaces, RwlockPlaces,
           RwlockHolding, RwlockWaiters, Rwlock!Blocked, Rwlock!Doze, Rwlock!Stale
  <1>4. Rwlock!NoStrandedWaiter'
    BY DEF RwlockInv, Rwlock!TypeOK, Rwlock!CondTypeOK, Rwlock!CondPlaces, RwlockPlaces,
           RwlockHolding, RwlockWaiters, Rwlock!NoStrandedWaiter, Rwlock!Blocked,
           Rwlock!Doze, Rwlock!Stale
  <1>5. Rwlock!Exclusion'
    BY RwlockExclusion
    DEF RwlockInv, Readers, Writers, Rwlock!Exclusion, Rwlock!Doze, Rwlock!Stale
  <1>6. sequence' <= Cardinality(RwlockBumped')
    BY <1>1, BumpedKept
    DEF RwlockInv, Rwlock!TypeOK, RwlockPending, RwlockPlaces, Rwlock!Doze, Rwlock!Stale
  <1> QED BY <1>1, <1>2, <1>3, <1>4, <1>5, <1>6 DEF RwlockInv

\* A woken waiter takes the mutex again.
LEMMA RwlockRelock ==
    ASSUME RwlockInv, NEW t \in Threads, Rwlock!Relock(t, "again") /\ UNCHANGED Rwlock!lockVars
    PROVE  RwlockInv'
  <1>1. Rwlock!TypeOK'
    BY SyncAssumption, ConditionAssumption
    DEF RwlockInv, Rwlock!TypeOK, Rwlock!CondTypeOK, Rwlock!CondPlaces, Rwlock!Relock
  <1>2. RwlockPlaces'
    BY ConditionAssumption
    DEF RwlockInv, Rwlock!TypeOK, Rwlock!CondTypeOK, Rwlock!CondPlaces, RwlockPlaces,
        RwlockHolding, Rwlock!Relock
  <1>3. RwlockWaiters'
    BY DEF RwlockInv, Rwlock!TypeOK, Rwlock!CondTypeOK, Rwlock!CondPlaces, RwlockPlaces,
           RwlockHolding, RwlockWaiters, Rwlock!Blocked, Rwlock!Relock
  <1>4. Rwlock!NoStrandedWaiter'
    BY DEF RwlockInv, Rwlock!TypeOK, Rwlock!CondTypeOK, Rwlock!CondPlaces, RwlockPlaces,
           RwlockHolding, RwlockWaiters, Rwlock!NoStrandedWaiter, Rwlock!Blocked,
           Rwlock!Relock
  <1>5. Rwlock!Exclusion'
    BY RwlockExclusion DEF RwlockInv, Readers, Writers, Rwlock!Exclusion, Rwlock!Relock
  <1>6. sequence' <= Cardinality(RwlockBumped')
    BY <1>1, BumpedKept
    DEF RwlockInv, Rwlock!TypeOK, RwlockPending, RwlockPlaces, Rwlock!Relock
  <1> QED BY <1>1, <1>2, <1>3, <1>4, <1>5, <1>6 DEF RwlockInv

\* The broadcast of an unlock that left nobody behind wakes the sleepers.
LEMMA RwlockBroadcast ==
    ASSUME RwlockInv, NEW t \in Threads, Rwlock!Broadcast(t, "idle") /\ UNCHANGED Rwlock!lockVars
    PROVE  RwlockInv'
  <1>1. Rwlock!TypeOK'
    BY SyncAssumption, ConditionAssumption
    DEF RwlockInv, Rwlock!TypeOK, Rwlock!CondTypeOK, Rwlock!CondPlaces, Rwlock!Broadcast
  <1>2. RwlockPlaces'
    BY ConditionAssumption
    DEF RwlockInv, Rwlock!TypeOK, Rwlock!CondTypeOK, Rwlock!CondPlaces, RwlockPlaces,
        RwlockHolding, Rwlock!Broadcast
  <1>3. RwlockWaiters'
    BY DEF RwlockInv, Rwlock!TypeOK, Rwlock!CondTypeOK, Rwlock!CondPlaces, RwlockPlaces,
           RwlockHolding, RwlockWaiters, Rwlock!Blocked, Rwlock!Broadcast
  <1>4. Rwlock!NoStrandedWaiter'
    BY DEF RwlockInv, Rwlock!TypeOK, Rwlock!CondTypeOK, Rwlock!CondPlaces, RwlockPlaces,
           RwlockHolding, RwlockWaiters, Rwlock!NoStrandedWaiter, Rwlock!Blocked,
           Rwlock!Broadcast
  <1>5. Rwlock!Exclusion'
    BY RwlockExclusion DEF RwlockInv, Readers, Writers, Rwlock!Exclusion,
       Rwlock!Broadcast
  <1>6. sequence' <= Cardinality(RwlockBumped')
    BY <1>1, BumpedKept
    DEF RwlockInv, Rwlock!TypeOK, RwlockPending, RwlockPlaces, Rwlock!Broadcast
  <1> QED BY <1>1, <1>2, <1>3, <1>4, <1>5, <1>6 DEF RwlockInv

\* The broadcast moves the sequence: one more call is through with the lock.
LEMMA RwlockBump ==
    ASSUME RwlockInv, NEW t \in Threads, Rwlock!Bump(t) /\ UNCHANGED Rwlock!lockVars
    PROVE  RwlockInv'
  <1>7. /\ RwlockBumped' \in SUBSET RwlockCallsMade /\ RwlockBumped \in SUBSET RwlockCallsMade
        /\ sequence \in Nat
    BY ConditionAssumption DEF RwlockBumped, RwlockInv, Rwlock!TypeOK, Rwlock!CondTypeOK
  <1>8. sequence + 1 <= Cardinality(RwlockBumped')
    <2>1. calls[t] \in 1..RwlockCalls
      BY SyncAssumption DEF RwlockInv, RwlockPlaces, Rwlock!TypeOK, Rwlock!Bump
    <2>2. <<t, calls[t]>> \in RwlockBumped' /\ <<t, calls[t]>> \notin RwlockBumped
      BY <2>1
      DEF RwlockBumped, RwlockCallsMade, RwlockPending, Rwlock!Bump, RwlockInv,
          RwlockPlaces, Rwlock!TypeOK
    <2>3. RwlockBumped \subseteq RwlockBumped'
      BY DEF RwlockBumped, RwlockPending, Rwlock!Bump, RwlockInv, Rwlock!TypeOK
    <2>4. RwlockBumped \cup {<<t, calls[t]>>} \in SUBSET RwlockBumped'
      BY <2>2, <2>3
    <2>5. Cardinality(RwlockBumped \cup {<<t, calls[t]>>}) = Cardinality(RwlockBumped) + 1
      BY <1>7, <2>2, SetsOfCalls, FS_AddElement
    <2>6. /\ Cardinality(RwlockBumped) + 1 <= Cardinality(RwlockBumped')
          /\ Cardinality(RwlockBumped) \in Nat /\ Cardinality(RwlockBumped') \in Nat
      BY <1>7, <2>4, <2>5, SetsOfCalls
    <2> QED BY <1>7, <2>6 DEF RwlockInv
  <1>9. sequence' = sequence + 1
    <2>1. Cardinality(RwlockBumped') < SequenceMod /\ Cardinality(RwlockBumped') \in Nat
      BY <1>7, SetsOfCalls
    <2> QED BY <1>7, <1>8, <2>1, ConditionAssumption DEF Rwlock!Bump, Rwlock!Bumped
  <1>1. Rwlock!TypeOK'
    BY SyncAssumption, ConditionAssumption
    DEF RwlockInv, Rwlock!TypeOK, Rwlock!CondTypeOK, Rwlock!CondPlaces, Rwlock!Bump,
        Rwlock!Bumped
  <1>2. RwlockPlaces'
    BY ConditionAssumption
    DEF RwlockInv, Rwlock!TypeOK, Rwlock!CondTypeOK, Rwlock!CondPlaces, RwlockPlaces,
        RwlockHolding, Rwlock!Bump, Rwlock!Bumped
  <1>3. RwlockWaiters'
    BY <1>7, <1>9
    DEF RwlockInv, Rwlock!TypeOK, Rwlock!CondTypeOK, RwlockPlaces, RwlockWaiters,
        Rwlock!Blocked, Rwlock!Bump
  <1>4. Rwlock!NoStrandedWaiter'
    BY DEF RwlockInv, Rwlock!TypeOK, Rwlock!CondTypeOK, Rwlock!CondPlaces, RwlockPlaces,
           RwlockHolding, RwlockWaiters, Rwlock!NoStrandedWaiter, Rwlock!Blocked,
           Rwlock!Bump, Rwlock!Bumped
  <1>5. Rwlock!Exclusion'
    BY RwlockExclusion
    DEF RwlockInv, Readers, Writers, Rwlock!Exclusion, Rwlock!Bump, Rwlock!Bumped
  <1>6. sequence' <= Cardinality(RwlockBumped')
    BY <1>8, <1>9
  <1> QED BY <1>1, <1>2, <1>3, <1>4, <1>5, <1>6 DEF RwlockInv

\* A try, or a caller whose time is over, gives up.
LEMMA RwlockGiveUp ==
    ASSUME RwlockInv, NEW t \in Threads, Rwlock!GiveUp(t)
    PROVE  RwlockInv'
  <1>1. Rwlock!TypeOK'
    BY SyncAssumption, ConditionAssumption
    DEF RwlockInv, Rwlock!TypeOK, Rwlock!CondTypeOK, Rwlock!CondPlaces, Rwlock!GiveUp,
        Rwlock!GivesUp, Rwlock!Forget
  <1>2. RwlockPlaces'
    BY ConditionAssumption
    DEF RwlockInv, Rwlock!TypeOK, Rwlock!CondTypeOK, Rwlock!CondPlaces, RwlockPlaces,
        RwlockHolding, Rwlock!GiveUp, Rwlock!GivesUp, Rwlock!Forget
  <1>3. RwlockWaiters'
    BY DEF RwlockInv, Rwlock!TypeOK, Rwlock!CondTypeOK, Rwlock!CondPlaces, RwlockPlaces,
           RwlockHolding, RwlockWaiters, Rwlock!Blocked, Rwlock!GiveUp, Rwlock!GivesUp,
           Rwlock!Forget
  <1>4. Rwlock!NoStrandedWaiter'
    BY DEF RwlockInv, Rwlock!TypeOK, Rwlock!CondTypeOK, Rwlock!CondPlaces, RwlockPlaces,
           RwlockHolding, RwlockWaiters, Rwlock!NoStrandedWaiter, Rwlock!Blocked,
           Rwlock!GiveUp, Rwlock!GivesUp, Rwlock!Forget
  <1>5. Rwlock!Exclusion'
    BY RwlockExclusion
    DEF RwlockInv, Readers, Writers, Rwlock!Exclusion, Rwlock!GiveUp, Rwlock!GivesUp,
        Rwlock!Forget
  <1>6. sequence' <= Cardinality(RwlockBumped')
    BY <1>1, BumpedKept
    DEF RwlockInv, Rwlock!TypeOK, RwlockPending, RwlockPlaces, Rwlock!GiveUp,
        Rwlock!GivesUp, Rwlock!Forget
  <1> QED BY <1>1, <1>2, <1>3, <1>4, <1>5, <1>6 DEF RwlockInv

\* A holder begins to unlock.
LEMMA RwlockUnlock ==
    ASSUME RwlockInv, NEW t \in Threads, Rwlock!Unlock(t)
    PROVE  RwlockInv'
  <1>1. Rwlock!TypeOK'
    BY SyncAssumption, ConditionAssumption
    DEF RwlockInv, Rwlock!TypeOK, Rwlock!CondTypeOK, Rwlock!CondPlaces, Rwlock!Unlock
  <1>2. RwlockPlaces'
    BY ConditionAssumption
    DEF RwlockInv, Rwlock!TypeOK, Rwlock!CondTypeOK, Rwlock!CondPlaces, RwlockPlaces,
        RwlockHolding, Rwlock!Unlock
  <1>3. RwlockWaiters'
    BY DEF RwlockInv, Rwlock!TypeOK, Rwlock!CondTypeOK, Rwlock!CondPlaces, RwlockPlaces,
           RwlockHolding, RwlockWaiters, Rwlock!Blocked, Rwlock!Unlock
  <1>4. Rwlock!NoStrandedWaiter'
    BY DEF RwlockInv, Rwlock!TypeOK, Rwlock!CondTypeOK, Rwlock!CondPlaces, RwlockPlaces,
           RwlockHolding, RwlockWaiters, Rwlock!NoStrandedWaiter, Rwlock!Blocked,
           Rwlock!Unlock
  <1>5. Rwlock!Exclusion'
    BY RwlockExclusion DEF RwlockInv, Readers, Writers, Rwlock!Exclusion, Rwlock!Unlock
  <1>6. sequence' <= Cardinality(RwlockBumped')
    BY <1>1, BumpedKept
    DEF RwlockInv, Rwlock!TypeOK, RwlockPending, RwlockPlaces, Rwlock!Unlock
  <1> QED BY <1>1, <1>2, <1>3, <1>4, <1>5, <1>6 DEF RwlockInv

\* A caller that is not blocked has the lock.
LEMMA RwlockEnter ==
    ASSUME RwlockInv, NEW t \in Threads, Rwlock!Enter(t)
    PROVE  RwlockInv'
  <1>5. Rwlock!Exclusion'
    <2>0. /\ mode[t] = "none" /\ mode' = [mode EXCEPT ![t] = wants[t]]
          /\ readers = Cardinality(Readers) /\ writer = Cardinality(Writers) /\ writer = 0
      BY RwlockExclusion
      DEF RwlockInv, RwlockPlaces, Rwlock!Enter, Rwlock!Blocked, Rwlock!TypeOK
    <2>1. CASE wants[t] = "read"
      <3>1. Readers' = Readers \cup {t} /\ t \notin Readers /\ Writers' = Writers
        BY <2>0, <2>1 DEF Readers, Writers, RwlockInv, Rwlock!TypeOK
      <3>2. Cardinality(Readers') = Cardinality(Readers) + 1
        BY <3>1, HolderSets, FS_AddElement
      <3>3. readers' = readers + 1 /\ writer' = writer
        BY <2>1 DEF Rwlock!Enter
      <3> QED BY <2>0, <3>1, <3>2, <3>3, RwlockCardinality DEF Rwlock!Exclusion,
                 Readers, Writers
    <2>2. CASE wants[t] = "write"
      <3>1. Writers' = Writers \cup {t} /\ t \notin Writers /\ Readers' = Readers
        BY <2>0, <2>2 DEF Readers, Writers, RwlockInv, Rwlock!TypeOK
      <3>2. Cardinality(Writers') = Cardinality(Writers) + 1
        BY <3>1, HolderSets, FS_AddElement
      <3>3. readers' = readers /\ writer' = 1 /\ readers = 0
        BY <2>2 DEF Rwlock!Enter, Rwlock!Blocked
      <3>4. Cardinality(Writers') = 1 /\ Cardinality(Readers') = 0
        BY <2>0, <3>1, <3>2, <3>3
      <3> QED BY <3>3, <3>4, RwlockCardinality DEF Rwlock!Exclusion, Readers, Writers
    <2> QED BY <2>1, <2>2 DEF RwlockInv, Rwlock!TypeOK
  <1>1. Rwlock!TypeOK'
    <2>1. readers' \in 0..Cardinality(Threads) /\ writer' \in {0, 1}
      <3>1. Readers' \in SUBSET Threads /\ readers' = Cardinality(Readers')
        BY <1>5, RwlockCardinality DEF Readers, Rwlock!Exclusion
      <3> QED BY <3>1, SetsOfThreads DEF RwlockInv, Rwlock!Enter, Rwlock!TypeOK
    <2>2. Rwlock!CondTypeOK'
      BY ConditionAssumption
      DEF RwlockInv, Rwlock!TypeOK, Rwlock!CondTypeOK, Rwlock!Enter, Rwlock!Forget
    <2> QED BY <2>1, <2>2, RwlockCardinality
            DEF RwlockInv, Rwlock!TypeOK, Rwlock!CondPlaces, Rwlock!Enter, Rwlock!Forget
  <1>2. RwlockPlaces'
    BY ConditionAssumption
    DEF RwlockInv, Rwlock!TypeOK, Rwlock!CondTypeOK, Rwlock!CondPlaces, RwlockPlaces,
        RwlockHolding, Rwlock!Enter, Rwlock!Forget
  <1>3. RwlockWaiters'
    BY DEF RwlockInv, Rwlock!TypeOK, Rwlock!CondTypeOK, Rwlock!CondPlaces, RwlockPlaces,
           RwlockHolding, RwlockWaiters, Rwlock!Blocked, Rwlock!Enter, Rwlock!Forget
  <1>4. Rwlock!NoStrandedWaiter'
    BY DEF RwlockInv, Rwlock!TypeOK, Rwlock!CondTypeOK, Rwlock!CondPlaces, RwlockPlaces,
           RwlockHolding, RwlockWaiters, Rwlock!NoStrandedWaiter, Rwlock!Blocked,
           Rwlock!Enter, Rwlock!Forget
  <1>6. sequence' <= Cardinality(RwlockBumped')
    BY <1>1, BumpedKept
    DEF RwlockInv, Rwlock!TypeOK, RwlockPending, RwlockPlaces, Rwlock!Enter,
        Rwlock!Forget
  <1> QED BY <1>1, <1>2, <1>3, <1>4, <1>5, <1>6 DEF RwlockInv

\* A holder counts itself out.
LEMMA RwlockCountOut ==
    ASSUME RwlockInv, NEW t \in Threads, Rwlock!CountOut(t)
    PROVE  RwlockInv'
  <1>5. Rwlock!Exclusion'
    <2>0. /\ mode[t] # "none" /\ mode' = [mode EXCEPT ![t] = "none"]
          /\ readers = Cardinality(Readers) /\ writer = Cardinality(Writers)
          /\ writer # 0 => readers = 0
          /\ Cardinality(Readers) \in Nat /\ writer \in {0, 1}
      BY RwlockExclusion, HolderSets
      DEF RwlockInv, RwlockPlaces, Rwlock!CountOut, Rwlock!TypeOK
    <2>1. CASE mode[t] = "read"
      <3>1. Readers' = Readers \ {t} /\ t \in Readers /\ Writers' = Writers
        BY <2>0, <2>1 DEF Readers, Writers, RwlockInv, Rwlock!TypeOK
      <3>2. readers # 0 /\ writer = 0
        BY <2>0, <3>1, HolderSets, FS_EmptySet
      <3>3. readers' = readers - 1 /\ writer' = 0
        BY <3>2 DEF Rwlock!CountOut, Rwlock!CountedOut
      <3>4. Cardinality(Readers') = Cardinality(Readers) - 1
        BY <3>1, HolderSets, FS_RemoveElement
      <3> QED BY <2>0, <3>1, <3>2, <3>3, <3>4, RwlockCardinality
              DEF Rwlock!Exclusion, Readers, Writers
    <2>2. CASE mode[t] = "write"
      <3>1. Writers' = Writers \ {t} /\ t \in Writers /\ Readers' = Readers
        BY <2>0, <2>2 DEF Readers, Writers, RwlockInv, Rwlock!TypeOK
      <3>2. writer = 1 /\ readers = 0
        BY <2>0, <3>1, HolderSets, FS_EmptySet
      <3>3. readers' = 0 /\ writer' = 0
        BY <3>2 DEF Rwlock!CountOut
      <3>4. Cardinality(Writers') = Cardinality(Writers) - 1
        BY <3>1, HolderSets, FS_RemoveElement
      <3>5. Cardinality(Writers') = 0 /\ Cardinality(Readers') = 0
        BY <2>0, <3>1, <3>2, <3>4
      <3> QED BY <3>3, <3>5, RwlockCardinality
              DEF Rwlock!Exclusion, Readers, Writers
    <2> QED BY <2>0, <2>1, <2>2 DEF RwlockInv, Rwlock!TypeOK
  <1>1. Rwlock!TypeOK'
    <2>1. readers' \in 0..Cardinality(Threads) /\ writer' \in {0, 1}
      BY HolderSets, RwlockCardinality, FS_CardinalityType, CallsAssumption
      DEF RwlockInv, Rwlock!CountOut, Rwlock!CountedOut, Rwlock!TypeOK
    <2>2. Rwlock!CondTypeOK'
      BY ConditionAssumption DEF RwlockInv, Rwlock!TypeOK, Rwlock!CondTypeOK,
         Rwlock!CountOut
    <2> QED BY <2>1, <2>2, RwlockCardinality
            DEF RwlockInv, Rwlock!TypeOK, Rwlock!CondPlaces, Rwlock!CountOut,
                Rwlock!AfterUnlock
  <1>2. RwlockPlaces'
    BY ConditionAssumption
    DEF RwlockInv, Rwlock!TypeOK, Rwlock!CondTypeOK, Rwlock!CondPlaces, RwlockPlaces,
        RwlockHolding, Rwlock!CountOut, Rwlock!AfterUnlock, Rwlock!CountedOut
  <1>3. RwlockWaiters'
    BY DEF RwlockInv, Rwlock!TypeOK, Rwlock!CondTypeOK, Rwlock!CondPlaces, RwlockPlaces,
           RwlockHolding, RwlockWaiters, Rwlock!Blocked, Rwlock!CountOut,
           Rwlock!AfterUnlock, Rwlock!CountedOut
  <1>4. Rwlock!NoStrandedWaiter'
    BY DEF RwlockInv, Rwlock!TypeOK, Rwlock!CondTypeOK, Rwlock!CondPlaces, RwlockPlaces,
           RwlockHolding, RwlockWaiters, Rwlock!NoStrandedWaiter, Rwlock!Blocked,
           Rwlock!CountOut, Rwlock!AfterUnlock, Rwlock!CountedOut
  <1>6. sequence' <= Cardinality(RwlockBumped')
    BY <1>1, BumpedKept
    DEF RwlockInv, Rwlock!TypeOK, RwlockPending, RwlockPlaces, Rwlock!CountOut,
        Rwlock!AfterUnlock, Rwlock!CountedOut
  <1> QED BY <1>1, <1>2, <1>3, <1>4, <1>5, <1>6 DEF RwlockInv

\* A thread calls.
LEMMA RwlockCall ==
    ASSUME RwlockInv, NEW t \in Threads, NEW what \in {"read", "write"},
           NEW goal \in {"test", "try"}, Rwlock!Call(t, what, goal), timed' \in [Threads -> BOOLEAN]
    PROVE  RwlockInv'
  <1>1. Rwlock!TypeOK'
    <2>1. calls' \in [Threads -> 0..RwlockCalls]
      BY SyncAssumption DEF RwlockInv, Rwlock!TypeOK, Rwlock!Call
    <2>2. Rwlock!CondTypeOK'
      BY ConditionAssumption DEF RwlockInv, Rwlock!TypeOK, Rwlock!CondTypeOK,
         Rwlock!Call
    <2> QED BY <2>1, <2>2 DEF RwlockInv, Rwlock!TypeOK, Rwlock!CondPlaces, Rwlock!Call
  <1>2. RwlockPlaces'
    BY ConditionAssumption
    DEF RwlockInv, Rwlock!TypeOK, Rwlock!CondTypeOK, Rwlock!CondPlaces, RwlockPlaces,
        RwlockHolding, Rwlock!Call
  <1>3. RwlockWaiters'
    BY DEF RwlockInv, Rwlock!TypeOK, Rwlock!CondTypeOK, Rwlock!CondPlaces, RwlockPlaces,
           RwlockHolding, RwlockWaiters, Rwlock!Blocked, Rwlock!Call
  <1>4. Rwlock!NoStrandedWaiter'
    BY DEF RwlockInv, Rwlock!TypeOK, Rwlock!CondTypeOK, Rwlock!CondPlaces, RwlockPlaces,
           RwlockHolding, RwlockWaiters, Rwlock!NoStrandedWaiter, Rwlock!Blocked,
           Rwlock!Call
  <1>5. Rwlock!Exclusion'
    BY RwlockExclusion DEF RwlockInv, Readers, Writers, Rwlock!Exclusion, Rwlock!Call
  <1>6. sequence' <= Cardinality(RwlockBumped')
    BY <1>1, BumpedKept
    DEF RwlockInv, Rwlock!TypeOK, RwlockPending, RwlockPlaces, Rwlock!Call
  <1> QED BY <1>1, <1>2, <1>3, <1>4, <1>5, <1>6 DEF RwlockInv

\* Every step of the read-write lock keeps RwlockInv.
LEMMA RwlockStep ==
    ASSUME RwlockInv, NEW t \in Threads, Rwlock!Step(t)
    PROVE  RwlockInv'
  <1>1. CASE Rwlock!Lock(t)
    <2>1. PICK what \in {"read", "write"}, deadline \in BOOLEAN :
             timed' = [timed EXCEPT ![t] = deadline] /\ Rwlock!Call(t, what, "test")
      BY <1>1 DEF Rwlock!Lock
    <2>2. timed' \in [Threads -> BOOLEAN]
      BY <2>1 DEF RwlockInv, Rwlock!TypeOK, Rwlock!CondTypeOK
    <2> QED BY <2>1, <2>2, RwlockCall
  <1>2. CASE Rwlock!TryLock(t)
    <2>1. timed' \in [Threads -> BOOLEAN]
      BY <1>2 DEF Rwlock!TryLock, RwlockInv, Rwlock!TypeOK, Rwlock!CondTypeOK
    <2> QED BY <1>2, <2>1, RwlockCall DEF Rwlock!TryLock
  <1>3. CASE Rwlock!Continue(t)
    BY <1>3, RwlockAwait, RwlockGiveUp, RwlockEnter, RwlockUnlock, RwlockCountOut,
       RwlockReadSequence, RwlockLeave,
       RwlockDoze, RwlockRelock, RwlockBump, RwlockBroadcast DEF Rwlock!Continue, Rwlock!CondStep
  <1>4. CASE Rwlock!CondDeadline(t) /\ UNCHANGED Rwlock!lockVars
    BY <1>4, RwlockLate, RwlockExpire DEF Rwlock!CondDeadline
  <1> QED BY <1>1, <1>2, <1>3, <1>4 DEF Rwlock!Step

\* A fresh lock has RwlockInv.
LEMMA RwlockInit == Rwlock!Init => RwlockInv
  <1> SUFFICES ASSUME Rwlock!Init PROVE RwlockInv
    OBVIOUS
  <1>1. Cardinality(Threads) \in Nat
    BY CallsAssumption, FS_CardinalityType
  <1>2. Rwlock!CondTypeOK
    BY ConditionAssumption DEF Rwlock!Init, Rwlock!CondInit, Rwlock!CondTypeOK
  <1>3. Rwlock!TypeOK
    BY <1>1, <1>2, RwlockCardinality, SyncAssumption
    DEF Rwlock!TypeOK, Rwlock!Init, Rwlock!CondInit
  <1>4. Readers = {} /\ Writers = {}
    BY DEF Readers, Writers, Rwlock!Init
  <1>5. Rwlock!Exclusion
    BY <1>4, FS_EmptySet, RwlockExclusion DEF Rwlock!Init
  <1>6. RwlockPlaces /\ RwlockWaiters /\ Rwlock!NoStrandedWaiter
    BY ConditionAssumption
    DEF RwlockPlaces, RwlockWaiters, RwlockHolding, Rwlock!NoStrandedWaiter,
       Rwlock!Init, Rwlock!CondInit
  <1>7. sequence <= Cardinality(RwlockBumped)
    <2>1. RwlockBumped \in SUBSET RwlockCallsMade
      BY DEF RwlockBumped
    <2> QED BY <2>1, SetsOfCalls DEF Rwlock!Init, Rwlock!CondInit
  <1> QED BY <1>3, <1>5, <1>6, <1>7 DEF RwlockInv

\* Nothing of it changes when the program uses something else.
LEMMA RwlockIdle ==
    ASSUME RwlockInv, UNCHANGED <<conditionVars, rwlockVars>>
    PROVE  RwlockInv'
  <1>1. Rwlock!TypeOK'
    BY DEF RwlockInv, conditionVars, condVars, rwlockVars, Rwlock!TypeOK,
           Rwlock!CondTypeOK
  <1>2. Rwlock!Exclusion'
    BY DEF RwlockInv, conditionVars, condVars, rwlockVars, Rwlock!Exclusion
  <1>3. Rwlock!NoStrandedWaiter'
    BY DEF RwlockInv, conditionVars, condVars, rwlockVars, Rwlock!NoStrandedWaiter,
           Rwlock!Blocked
  <1>4. RwlockPlaces'
    BY DEF RwlockInv, conditionVars, condVars, rwlockVars, RwlockPlaces
  <1>5. RwlockWaiters'
    BY DEF RwlockInv, conditionVars, condVars, rwlockVars, RwlockWaiters, Rwlock!Blocked
  <1>6. (sequence <= Cardinality(RwlockBumped))'
    BY DEF RwlockInv, conditionVars, condVars, rwlockVars, RwlockBumped, RwlockPending
  <1> QED BY <1>1, <1>2, <1>3, <1>4, <1>5, <1>6 DEF RwlockInv

-----------------------------------------------------------------------------
(* The barrier *)

\* The instance counts with the Cardinality of this module.
LEMMA BarrierCardinality == \A S : Barrier!Cardinality(S) = Cardinality(S)
  BY Zenon DEF Barrier!Cardinality, Cardinality

BarrierHolding == {"arrive", "wait", "drop", "again"}

\* The threads that wait in the current generation, the ones on their way out of
\* an earlier one, the last arrivals that have not returned yet, and those of them
\* that have not moved the sequence yet.
BarrierCurrent == {t \in Barrier!Waiting : joined[t] = generation}
BarrierPast == {t \in Barrier!Waiting : joined[t] # generation}
BarrierOpening == {t \in Threads : pc[t] \in {"bump", "wake"}}
BarrierBumping == {t \in Threads : pc[t] = "bump"}

\* The calls of the program, each thread's numbered from 1, and those that arrived.
BarrierCallSet == Threads \X (1..BarrierCalls)
BarrierArrived ==
    {k \in BarrierCallSet :
        k[2] < calls[k[1]] \/ (k[2] = calls[k[1]] /\ pc[k[1]] # "arrive")}

BarrierPlaces ==
    /\ \A t \in Threads : holder = t <=> pc[t] \in BarrierHolding
    /\ asleep = {t \in Threads : pc[t] = "asleep"}
    /\ \A t \in Threads : pc[t] # "idle" => calls[t] # 0

BarrierCounts ==
    /\ entered \in Nat /\ left \in Nat /\ serials \in Nat
    /\ entered = Cardinality(BarrierArrived)
    /\ entered = Count * generation + arrived
    /\ arrived = Cardinality(BarrierCurrent)
    /\ left + Cardinality(BarrierPast) + Cardinality(BarrierOpening) = Count * generation
    /\ serials + Cardinality(BarrierOpening) = generation
    /\ sequence + Cardinality(BarrierBumping) = generation

BarrierWaiters ==
    \A t \in Threads :
        /\ t \in Barrier!Waiting => joined[t] <= generation
        /\ pc[t] \in {"wait", "drop"} => joined[t] = generation
        /\ pc[t] \in {"drop", "doze", "asleep"} => seen[t] <= sequence
        /\ pc[t] = "doze" /\ joined[t] # generation =>
              seen[t] < sequence \/ \E u \in Threads : pc[u] = "bump"

BarrierInv ==
    /\ Barrier!TypeOK
    /\ BarrierPlaces
    /\ BarrierCounts
    /\ BarrierWaiters
    /\ Barrier!NoStrandedWaiter

\* The sets of waiters are finite.
LEMMA BarrierSets ==
    /\ BarrierCurrent \in SUBSET Threads /\ BarrierPast \in SUBSET Threads
    /\ BarrierOpening \in SUBSET Threads /\ BarrierBumping \in SUBSET Threads
    /\ IsFiniteSet(BarrierCurrent) /\ Cardinality(BarrierCurrent) \in Nat
    /\ IsFiniteSet(BarrierPast) /\ Cardinality(BarrierPast) \in Nat
    /\ IsFiniteSet(BarrierOpening) /\ Cardinality(BarrierOpening) \in Nat
    /\ IsFiniteSet(BarrierBumping) /\ Cardinality(BarrierBumping) \in Nat
  <1>1. /\ BarrierCurrent \in SUBSET Threads /\ BarrierPast \in SUBSET Threads
        /\ BarrierOpening \in SUBSET Threads /\ BarrierBumping \in SUBSET Threads
    BY DEF BarrierCurrent, BarrierPast, BarrierOpening, BarrierBumping, Barrier!Waiting
  <1> QED BY <1>1, SetsOfThreads

\* The arrivals are finitely many, and not more than the program's calls.
LEMMA BarrierSetsOfCalls ==
    ASSUME NEW S \in SUBSET BarrierCallSet
    PROVE  /\ IsFiniteSet(S) /\ Cardinality(S) \in Nat
           /\ Cardinality(S) <= Cardinality(Threads) * BarrierCalls
           /\ Cardinality(Threads) * BarrierCalls \in Nat
  <1>2. /\ IsFiniteSet(1..BarrierCalls)
        /\ Cardinality(1..BarrierCalls) = BarrierCalls
    BY FS_Interval, SyncAssumption
  <1>3. /\ IsFiniteSet(BarrierCallSet)
        /\ Cardinality(BarrierCallSet) = Cardinality(Threads) * BarrierCalls
    BY <1>2, FS_Product, CallsAssumption DEF BarrierCallSet
  <1> QED BY <1>3, FS_Subset, FS_CardinalityType

\* A product is below another when its factor is.
LEMMA Below == ASSUME NEW c \in Nat \ {0}, NEW g \in Nat, NEW m \in Nat, c * g < c * m
               PROVE  g < m
  <1> SUFFICES ASSUME m <= g PROVE FALSE OBVIOUS
  <1>1. PICK d \in Nat : g = m + d
    OBVIOUS
  <1>2. c * g = c * m + c * d
    BY <1>1
  <1>3. c * d \in Nat /\ c * m \in Nat
    OBVIOUS
  <1> QED BY <1>2, <1>3

\* A sum of whole groups and a rest is that many groups.
LEMMA Quotient == ASSUME NEW c \in Nat \ {0}, NEW g \in Nat, NEW r \in 0..(c - 1)
               PROVE  (c * g + r) \div c = g
  OBVIOUS

USE DEF Barrier!Goto, Barrier!Take, Barrier!Drop, Barrier!condVars, Barrier!barrierVars

\* A step that moves no thread from one of the sets to another keeps the counts.
LEMMA BarrierCountsKept ==
    ASSUME BarrierInv, UNCHANGED <<entered, left, serials, arrived, generation, sequence>>,
           BarrierCurrent' = BarrierCurrent, BarrierPast' = BarrierPast, BarrierOpening' = BarrierOpening,
           BarrierBumping' = BarrierBumping, BarrierArrived' = BarrierArrived
    PROVE  BarrierCounts'
  BY DEF BarrierInv, BarrierCounts

\* What the counters are.
LEMMA BarrierNumbers ==
    ASSUME BarrierInv
    PROVE  /\ entered \in Nat /\ left \in Nat /\ serials \in Nat /\ sequence \in Nat
           /\ generation \in Nat /\ Count * generation \in Nat
           /\ Count \in Nat \ {0} /\ arrived \in 0..(Count - 1)
           /\ Cardinality(BarrierArrived) = Count * generation + arrived
           /\ entered = Cardinality(BarrierArrived) /\ arrived = Cardinality(BarrierCurrent)
           /\ BarrierArrived \in SUBSET BarrierCallSet
  <1>1. generation \in Nat /\ Count \in Nat \ {0} /\ arrived \in 0..(Count - 1) /\ sequence \in Nat
    BY SyncAssumption, ConditionAssumption
    DEF BarrierInv, Barrier!TypeOK, Barrier!CondTypeOK
  <1>2. Count * generation \in Nat
    BY <1>1
  <1>3. BarrierArrived \in SUBSET BarrierCallSet
    BY DEF BarrierArrived
  <1> QED BY <1>1, <1>2, <1>3 DEF BarrierInv, BarrierCounts

\* The arrivals of the program so far leave the generation and the sequence room.
LEMMA BarrierRoom ==
    ASSUME NEW S \in SUBSET BarrierCallSet, NEW g \in Nat, NEW a \in 0..(Count - 1),
           Cardinality(S) = Count * g + a
    PROVE  g < GenerationMod /\ g < SequenceMod
  <1>1. Count * g \in Nat /\ Count * g <= Cardinality(S)
    BY SyncAssumption, BarrierSetsOfCalls
  <1>2. Cardinality(S) <= Cardinality(Threads) * BarrierCalls
        /\ Cardinality(S) \in Nat /\ Cardinality(Threads) * BarrierCalls \in Nat
    BY BarrierSetsOfCalls
  <1>3. Count * GenerationMod \in Nat /\ Count * SequenceMod \in Nat
    BY SyncAssumption, ConditionAssumption
  <1>4. Count * g < Count * GenerationMod /\ Count * g < Count * SequenceMod
    BY <1>1, <1>2, <1>3, CallsAssumption
  <1> QED BY <1>4, Below, SyncAssumption, ConditionAssumption

\* The waiter remembers the sequence.
LEMMA BarrierReadSequence ==
    ASSUME BarrierInv, NEW t \in Threads, Barrier!ReadSequence(t) /\ UNCHANGED Barrier!barrierVars
    PROVE  BarrierInv'
  <1>1. Barrier!TypeOK'
    BY SyncAssumption, ConditionAssumption
    DEF BarrierInv, Barrier!TypeOK, Barrier!CondTypeOK, Barrier!CondPlaces,
        Barrier!ReadSequence
  <1>2. BarrierPlaces'
    BY SyncAssumption, ConditionAssumption
    DEF BarrierInv, Barrier!TypeOK, Barrier!CondTypeOK, Barrier!CondPlaces,
        BarrierPlaces, BarrierHolding, Barrier!ReadSequence
  <1>3. BarrierWaiters'
    BY SyncAssumption, ConditionAssumption
    DEF BarrierInv, Barrier!TypeOK, Barrier!CondTypeOK, Barrier!CondPlaces,
        BarrierPlaces, BarrierHolding, BarrierWaiters, Barrier!Waiting,
        Barrier!ReadSequence
  <1>4. Barrier!NoStrandedWaiter'
    BY DEF BarrierInv, Barrier!TypeOK, Barrier!CondTypeOK, Barrier!CondPlaces,
           BarrierPlaces, BarrierHolding, BarrierWaiters, Barrier!NoStrandedWaiter,
           Barrier!ReadSequence
  <1>5. BarrierCounts'
    <2>1. /\ BarrierCurrent' = BarrierCurrent /\ BarrierPast' = BarrierPast
          /\ BarrierOpening' = BarrierOpening /\ BarrierBumping' = BarrierBumping
      BY DEF BarrierCurrent, BarrierPast, BarrierOpening, BarrierBumping,
             Barrier!Waiting, BarrierInv, Barrier!TypeOK, Barrier!CondTypeOK,
             Barrier!CondPlaces, BarrierPlaces, Barrier!ReadSequence
    <2>2. BarrierArrived' = BarrierArrived
      BY SyncAssumption
      DEF BarrierArrived, BarrierCallSet, BarrierInv, Barrier!TypeOK,
          Barrier!CondTypeOK, Barrier!CondPlaces, BarrierPlaces, Barrier!ReadSequence
    <2> QED BY <2>1, <2>2, BarrierCountsKept DEF Barrier!ReadSequence
  <1> QED BY <1>1, <1>2, <1>3, <1>4, <1>5 DEF BarrierInv

\* The waiter gives the mutex back.
LEMMA BarrierLeave ==
    ASSUME BarrierInv, NEW t \in Threads, Barrier!Leave(t) /\ UNCHANGED Barrier!barrierVars
    PROVE  BarrierInv'
  <1>1. Barrier!TypeOK'
    BY SyncAssumption, ConditionAssumption
    DEF BarrierInv, Barrier!TypeOK, Barrier!CondTypeOK, Barrier!CondPlaces,
        Barrier!Leave
  <1>2. BarrierPlaces'
    BY SyncAssumption, ConditionAssumption
    DEF BarrierInv, Barrier!TypeOK, Barrier!CondTypeOK, Barrier!CondPlaces,
        BarrierPlaces, BarrierHolding, Barrier!Leave
  <1>3. BarrierWaiters'
    BY SyncAssumption, ConditionAssumption
    DEF BarrierInv, Barrier!TypeOK, Barrier!CondTypeOK, Barrier!CondPlaces,
        BarrierPlaces, BarrierHolding, BarrierWaiters, Barrier!Waiting, Barrier!Leave
  <1>4. Barrier!NoStrandedWaiter'
    BY DEF BarrierInv, Barrier!TypeOK, Barrier!CondTypeOK, Barrier!CondPlaces,
           BarrierPlaces, BarrierHolding, BarrierWaiters, Barrier!NoStrandedWaiter,
           Barrier!Leave
  <1>5. BarrierCounts'
    <2>1. /\ BarrierCurrent' = BarrierCurrent /\ BarrierPast' = BarrierPast
          /\ BarrierOpening' = BarrierOpening /\ BarrierBumping' = BarrierBumping
      BY DEF BarrierCurrent, BarrierPast, BarrierOpening, BarrierBumping,
             Barrier!Waiting, BarrierInv, Barrier!TypeOK, Barrier!CondTypeOK,
             Barrier!CondPlaces, BarrierPlaces, Barrier!Leave
    <2>2. BarrierArrived' = BarrierArrived
      BY SyncAssumption
      DEF BarrierArrived, BarrierCallSet, BarrierInv, Barrier!TypeOK,
          Barrier!CondTypeOK, Barrier!CondPlaces, BarrierPlaces, Barrier!Leave
    <2> QED BY <2>1, <2>2, BarrierCountsKept DEF Barrier!Leave
  <1> QED BY <1>1, <1>2, <1>3, <1>4, <1>5 DEF BarrierInv

\* The waiter sleeps if the sequence is what it remembers.
LEMMA BarrierDoze ==
    ASSUME BarrierInv, NEW t \in Threads, Barrier!Doze(t) /\ UNCHANGED Barrier!barrierVars
    PROVE  BarrierInv'
  <1>1. Barrier!TypeOK'
    BY SyncAssumption, ConditionAssumption
    DEF BarrierInv, Barrier!TypeOK, Barrier!CondTypeOK, Barrier!CondPlaces,
        Barrier!Doze, Barrier!Stale
  <1>2. BarrierPlaces'
    BY SyncAssumption, ConditionAssumption
    DEF BarrierInv, Barrier!TypeOK, Barrier!CondTypeOK, Barrier!CondPlaces,
        BarrierPlaces, BarrierHolding, Barrier!Doze, Barrier!Stale
  <1>3. BarrierWaiters'
    BY SyncAssumption, ConditionAssumption
    DEF BarrierInv, Barrier!TypeOK, Barrier!CondTypeOK, Barrier!CondPlaces,
        BarrierPlaces, BarrierHolding, BarrierWaiters, Barrier!Waiting, Barrier!Doze,
        Barrier!Stale
  <1>4. Barrier!NoStrandedWaiter'
    BY DEF BarrierInv, Barrier!TypeOK, Barrier!CondTypeOK, Barrier!CondPlaces,
           BarrierPlaces, BarrierHolding, BarrierWaiters, Barrier!NoStrandedWaiter,
           Barrier!Doze, Barrier!Stale
  <1>5. BarrierCounts'
    <2>1. /\ BarrierCurrent' = BarrierCurrent /\ BarrierPast' = BarrierPast
          /\ BarrierOpening' = BarrierOpening /\ BarrierBumping' = BarrierBumping
      BY DEF BarrierCurrent, BarrierPast, BarrierOpening, BarrierBumping,
             Barrier!Waiting, BarrierInv, Barrier!TypeOK, Barrier!CondTypeOK,
             Barrier!CondPlaces, BarrierPlaces, Barrier!Doze, Barrier!Stale
    <2>2. BarrierArrived' = BarrierArrived
      BY SyncAssumption
      DEF BarrierArrived, BarrierCallSet, BarrierInv, Barrier!TypeOK,
          Barrier!CondTypeOK, Barrier!CondPlaces, BarrierPlaces, Barrier!Doze,
          Barrier!Stale
    <2> QED BY <2>1, <2>2, BarrierCountsKept DEF Barrier!Doze, Barrier!Stale
  <1> QED BY <1>1, <1>2, <1>3, <1>4, <1>5 DEF BarrierInv

\* A woken waiter takes the mutex again.
LEMMA BarrierRelock ==
    ASSUME BarrierInv, NEW t \in Threads, Barrier!Relock(t, "again") /\ UNCHANGED Barrier!barrierVars
    PROVE  BarrierInv'
  <1>1. Barrier!TypeOK'
    BY SyncAssumption, ConditionAssumption
    DEF BarrierInv, Barrier!TypeOK, Barrier!CondTypeOK, Barrier!CondPlaces,
        Barrier!Relock
  <1>2. BarrierPlaces'
    BY SyncAssumption, ConditionAssumption
    DEF BarrierInv, Barrier!TypeOK, Barrier!CondTypeOK, Barrier!CondPlaces,
        BarrierPlaces, BarrierHolding, Barrier!Relock
  <1>3. BarrierWaiters'
    BY SyncAssumption, ConditionAssumption
    DEF BarrierInv, Barrier!TypeOK, Barrier!CondTypeOK, Barrier!CondPlaces,
        BarrierPlaces, BarrierHolding, BarrierWaiters, Barrier!Waiting, Barrier!Relock
  <1>4. Barrier!NoStrandedWaiter'
    BY DEF BarrierInv, Barrier!TypeOK, Barrier!CondTypeOK, Barrier!CondPlaces,
           BarrierPlaces, BarrierHolding, BarrierWaiters, Barrier!NoStrandedWaiter,
           Barrier!Relock
  <1>5. BarrierCounts'
    <2>1. /\ BarrierCurrent' = BarrierCurrent /\ BarrierPast' = BarrierPast
          /\ BarrierOpening' = BarrierOpening /\ BarrierBumping' = BarrierBumping
      BY DEF BarrierCurrent, BarrierPast, BarrierOpening, BarrierBumping,
             Barrier!Waiting, BarrierInv, Barrier!TypeOK, Barrier!CondTypeOK,
             Barrier!CondPlaces, BarrierPlaces, Barrier!Relock
    <2>2. BarrierArrived' = BarrierArrived
      BY SyncAssumption
      DEF BarrierArrived, BarrierCallSet, BarrierInv, Barrier!TypeOK,
          Barrier!CondTypeOK, Barrier!CondPlaces, BarrierPlaces, Barrier!Relock
    <2> QED BY <2>1, <2>2, BarrierCountsKept DEF Barrier!Relock
  <1> QED BY <1>1, <1>2, <1>3, <1>4, <1>5 DEF BarrierInv

\* A thread calls.
LEMMA BarrierCall ==
    ASSUME BarrierInv, NEW t \in Threads, Barrier!Call(t)
    PROVE  BarrierInv'
  <1>1. Barrier!TypeOK'
    BY SyncAssumption, ConditionAssumption
    DEF BarrierInv, Barrier!TypeOK, Barrier!CondTypeOK, Barrier!CondPlaces, Barrier!Call
  <1>2. BarrierPlaces'
    BY SyncAssumption, ConditionAssumption
    DEF BarrierInv, Barrier!TypeOK, Barrier!CondTypeOK, Barrier!CondPlaces,
        BarrierPlaces, BarrierHolding, Barrier!Call
  <1>3. BarrierWaiters'
    BY SyncAssumption, ConditionAssumption
    DEF BarrierInv, Barrier!TypeOK, Barrier!CondTypeOK, Barrier!CondPlaces,
        BarrierPlaces, BarrierHolding, BarrierWaiters, Barrier!Waiting, Barrier!Call
  <1>4. Barrier!NoStrandedWaiter'
    BY DEF BarrierInv, Barrier!TypeOK, Barrier!CondTypeOK, Barrier!CondPlaces,
           BarrierPlaces, BarrierHolding, BarrierWaiters, Barrier!NoStrandedWaiter,
           Barrier!Call
  <1>5. BarrierCounts'
    <2>1. /\ BarrierCurrent' = BarrierCurrent /\ BarrierPast' = BarrierPast
          /\ BarrierOpening' = BarrierOpening /\ BarrierBumping' = BarrierBumping
      BY DEF BarrierCurrent, BarrierPast, BarrierOpening, BarrierBumping,
             Barrier!Waiting, BarrierInv, Barrier!TypeOK, Barrier!CondTypeOK,
             Barrier!CondPlaces, BarrierPlaces, Barrier!Call
    <2>2. BarrierArrived' = BarrierArrived
      BY SyncAssumption
      DEF BarrierArrived, BarrierCallSet, BarrierInv, Barrier!TypeOK,
          Barrier!CondTypeOK, Barrier!CondPlaces, BarrierPlaces, Barrier!Call
    <2> QED BY <2>1, <2>2, BarrierCountsKept DEF Barrier!Call
  <1> QED BY <1>1, <1>2, <1>3, <1>4, <1>5 DEF BarrierInv

\* A waiter whose generation is still on waits again.
LEMMA BarrierWaitAgain ==
    ASSUME BarrierInv, NEW t \in Threads, Barrier!WaitAgain(t)
    PROVE  BarrierInv'
  <1>1. Barrier!TypeOK'
    BY SyncAssumption, ConditionAssumption
    DEF BarrierInv, Barrier!TypeOK, Barrier!CondTypeOK, Barrier!CondPlaces,
        Barrier!WaitAgain
  <1>2. BarrierPlaces'
    BY SyncAssumption, ConditionAssumption
    DEF BarrierInv, Barrier!TypeOK, Barrier!CondTypeOK, Barrier!CondPlaces,
        BarrierPlaces, BarrierHolding, Barrier!WaitAgain
  <1>3. BarrierWaiters'
    BY SyncAssumption, ConditionAssumption
    DEF BarrierInv, Barrier!TypeOK, Barrier!CondTypeOK, Barrier!CondPlaces,
        BarrierPlaces, BarrierHolding, BarrierWaiters, Barrier!Waiting,
        Barrier!WaitAgain
  <1>4. Barrier!NoStrandedWaiter'
    BY DEF BarrierInv, Barrier!TypeOK, Barrier!CondTypeOK, Barrier!CondPlaces,
           BarrierPlaces, BarrierHolding, BarrierWaiters, Barrier!NoStrandedWaiter,
           Barrier!WaitAgain
  <1>5. BarrierCounts'
    <2>1. /\ BarrierCurrent' = BarrierCurrent /\ BarrierPast' = BarrierPast
          /\ BarrierOpening' = BarrierOpening /\ BarrierBumping' = BarrierBumping
      BY DEF BarrierCurrent, BarrierPast, BarrierOpening, BarrierBumping,
             Barrier!Waiting, BarrierInv, Barrier!TypeOK, Barrier!CondTypeOK,
             Barrier!CondPlaces, BarrierPlaces, Barrier!WaitAgain
    <2>2. BarrierArrived' = BarrierArrived
      BY SyncAssumption
      DEF BarrierArrived, BarrierCallSet, BarrierInv, Barrier!TypeOK,
          Barrier!CondTypeOK, Barrier!CondPlaces, BarrierPlaces, Barrier!WaitAgain
    <2> QED BY <2>1, <2>2, BarrierCountsKept DEF Barrier!WaitAgain
  <1> QED BY <1>1, <1>2, <1>3, <1>4, <1>5 DEF BarrierInv

\* A waiter whose generation opened returns.
LEMMA BarrierPass ==
    ASSUME BarrierInv, NEW t \in Threads, Barrier!Pass(t)
    PROVE  BarrierInv'
  <1>1. Barrier!TypeOK'
    BY SyncAssumption, ConditionAssumption
    DEF BarrierInv, Barrier!TypeOK, Barrier!CondTypeOK, Barrier!CondPlaces, Barrier!Pass
  <1>2. BarrierPlaces'
    BY SyncAssumption, ConditionAssumption
    DEF BarrierInv, Barrier!TypeOK, Barrier!CondTypeOK, Barrier!CondPlaces,
        BarrierPlaces, BarrierHolding, Barrier!Pass
  <1>3. BarrierWaiters'
    BY SyncAssumption, ConditionAssumption
    DEF BarrierInv, Barrier!TypeOK, Barrier!CondTypeOK, Barrier!CondPlaces,
        BarrierPlaces, BarrierHolding, BarrierWaiters, Barrier!Waiting, Barrier!Pass
  <1>4. Barrier!NoStrandedWaiter'
    BY DEF BarrierInv, Barrier!TypeOK, Barrier!CondTypeOK, Barrier!CondPlaces,
           BarrierPlaces, BarrierHolding, BarrierWaiters, Barrier!NoStrandedWaiter,
           Barrier!Pass
  <1>5. BarrierCounts'
    <2>1. t \in BarrierPast /\ BarrierPast' = BarrierPast \ {t}
      BY SyncAssumption
      DEF BarrierPast, Barrier!Waiting, BarrierInv, Barrier!TypeOK, Barrier!Pass
    <2>2. /\ BarrierCurrent' = BarrierCurrent
          /\ BarrierOpening' = BarrierOpening /\ BarrierBumping' = BarrierBumping
      BY SyncAssumption
      DEF BarrierCurrent, BarrierOpening, BarrierBumping, Barrier!Waiting, BarrierInv,
          Barrier!TypeOK, Barrier!Pass
    <2>3. BarrierArrived' = BarrierArrived
      BY SyncAssumption
      DEF BarrierArrived, BarrierCallSet, BarrierInv, Barrier!TypeOK, Barrier!Pass
    <2>4. Cardinality(BarrierPast') = Cardinality(BarrierPast) - 1 /\ left' = left + 1
      BY <2>1, BarrierSets, FS_RemoveElement DEF Barrier!Pass
    <2>5. UNCHANGED <<entered, arrived, generation, serials, sequence>>
      BY DEF Barrier!Pass
    <2>6. left' + Cardinality(BarrierPast') + Cardinality(BarrierOpening)
             = left + Cardinality(BarrierPast) + Cardinality(BarrierOpening)
      BY <2>4, BarrierSets, BarrierNumbers
    <2>7. left' \in Nat
      BY <2>4, BarrierNumbers
    <2> QED BY <2>2, <2>3, <2>5, <2>6, <2>7 DEF BarrierInv, BarrierCounts
  <1> QED BY <1>1, <1>2, <1>3, <1>4, <1>5 DEF BarrierInv

\* An arrival is counted once.
LEMMA OneMoreArrives ==
    ASSUME BarrierInv, NEW t \in Threads, pc[t] = "arrive", UNCHANGED calls,
           NEW goal \in {"wait", "bump"}, Barrier!Goto(t, goal)
    PROVE  /\ Cardinality(BarrierArrived') = Cardinality(BarrierArrived) + 1
           /\ BarrierArrived' \in SUBSET BarrierCallSet
  <1>1. calls[t] \in 1..BarrierCalls
    BY SyncAssumption DEF BarrierInv, BarrierPlaces, Barrier!TypeOK
  <1>2. BarrierArrived' = BarrierArrived \cup {<<t, calls[t]>>} /\ <<t, calls[t]>> \notin BarrierArrived
    BY <1>1, SyncAssumption DEF BarrierArrived, BarrierCallSet, BarrierInv,
       Barrier!TypeOK
  <1>3. IsFiniteSet(BarrierArrived) /\ BarrierArrived' \in SUBSET BarrierCallSet
    BY BarrierSetsOfCalls DEF BarrierArrived
  <1> QED BY <1>2, <1>3, FS_AddElement

\* An arrival that is not the last one waits.
LEMMA BarrierArrive ==
    ASSUME BarrierInv, NEW t \in Threads, Barrier!Arrive(t)
    PROVE  BarrierInv'
  <1>1. Barrier!TypeOK'
    BY SyncAssumption, ConditionAssumption
    DEF BarrierInv, Barrier!TypeOK, Barrier!CondTypeOK, Barrier!CondPlaces,
        Barrier!Arrive, Barrier!Last
  <1>2. BarrierPlaces'
    BY SyncAssumption, ConditionAssumption
    DEF BarrierInv, Barrier!TypeOK, Barrier!CondTypeOK, Barrier!CondPlaces,
        BarrierPlaces, BarrierHolding, Barrier!Arrive, Barrier!Last
  <1>3. BarrierWaiters'
    BY SyncAssumption, ConditionAssumption
    DEF BarrierInv, Barrier!TypeOK, Barrier!CondTypeOK, Barrier!CondPlaces,
        BarrierPlaces, BarrierHolding, BarrierWaiters, Barrier!Waiting, Barrier!Arrive,
        Barrier!Last
  <1>4. Barrier!NoStrandedWaiter'
    BY DEF BarrierInv, Barrier!TypeOK, Barrier!CondTypeOK, Barrier!CondPlaces,
           BarrierPlaces, BarrierHolding, BarrierWaiters, Barrier!NoStrandedWaiter,
           Barrier!Arrive, Barrier!Last
  <1>5. BarrierCounts'
    <2>1. t \notin BarrierCurrent /\ BarrierCurrent' = BarrierCurrent \cup {t}
      BY DEF BarrierCurrent, Barrier!Waiting, BarrierInv, Barrier!TypeOK, Barrier!Arrive
    <2>2. BarrierPast' = BarrierPast /\ BarrierOpening' = BarrierOpening /\ BarrierBumping' = BarrierBumping
      BY DEF BarrierPast, BarrierOpening, BarrierBumping, Barrier!Waiting, BarrierInv,
             Barrier!TypeOK, Barrier!Arrive
    <2>3. Cardinality(BarrierArrived') = Cardinality(BarrierArrived) + 1
      BY OneMoreArrives DEF Barrier!Arrive
    <2>4. Cardinality(BarrierCurrent') = Cardinality(BarrierCurrent) + 1
      BY <2>1, BarrierSets, FS_AddElement
    <2>5. /\ arrived' = arrived + 1 /\ entered' = entered + 1
          /\ UNCHANGED <<left, generation, serials, sequence>>
      BY DEF Barrier!Arrive
    <2>6. /\ entered' \in Nat /\ entered' = Cardinality(BarrierArrived')
          /\ arrived' = Cardinality(BarrierCurrent')
      BY <2>3, <2>4, <2>5, BarrierNumbers
    <2>7. entered' = Count * generation + arrived'
      BY <2>5, BarrierNumbers DEF BarrierInv, BarrierCounts
    <2> QED BY <2>2, <2>5, <2>6, <2>7 DEF BarrierInv, BarrierCounts
  <1> QED BY <1>1, <1>2, <1>3, <1>4, <1>5 DEF BarrierInv

\* The last arrival opens the generation.
LEMMA BarrierOpen ==
    ASSUME BarrierInv, NEW t \in Threads, Barrier!Open(t)
    PROVE  BarrierInv'
  <1>6. arrived + 1 = Count /\ arrived' = 0 /\ entered' = entered + 1
    BY DEF Barrier!Open, Barrier!Last, Barrier!NoArrivals
  <1>7. Cardinality(BarrierArrived') = Cardinality(BarrierArrived) + 1 /\ BarrierArrived' \in SUBSET BarrierCallSet
    BY OneMoreArrives DEF Barrier!Open
  <1>8. Cardinality(BarrierArrived') = Count * (generation + 1) + 0
    <2>1. Cardinality(BarrierArrived) + 1 = Count * generation + Count
      BY <1>6, BarrierNumbers
    <2>2. Count * (generation + 1) = Count * generation + Count
      BY BarrierNumbers
    <2> QED BY <1>7, <2>1, <2>2, BarrierNumbers
  <1>9. generation + 1 < GenerationMod
    <2>1. generation + 1 \in Nat /\ 0 \in 0..(Count - 1)
      BY BarrierNumbers
    <2> QED BY <1>7, <1>8, <2>1, BarrierRoom
  <1>10. generation' = generation + 1
    BY <1>9, SyncAssumption
    DEF Barrier!Open, Barrier!NextGeneration, BarrierInv, Barrier!TypeOK
  <1>1. Barrier!TypeOK'
    BY <1>6, <1>9, <1>10, SyncAssumption, ConditionAssumption
    DEF BarrierInv, Barrier!TypeOK, Barrier!CondTypeOK, Barrier!CondPlaces, Barrier!Open
  <1>2. BarrierPlaces'
    BY SyncAssumption, ConditionAssumption
    DEF BarrierInv, Barrier!TypeOK, Barrier!CondTypeOK, Barrier!CondPlaces,
        BarrierPlaces, BarrierHolding, Barrier!Open, Barrier!Last, Barrier!NoArrivals
  <1>3. BarrierWaiters'
    BY <1>10, SyncAssumption, ConditionAssumption
    DEF BarrierInv, Barrier!TypeOK, Barrier!CondTypeOK, BarrierPlaces, BarrierHolding, BarrierWaiters, Barrier!Waiting, Barrier!Open
  <1>4. Barrier!NoStrandedWaiter'
    BY DEF BarrierInv, Barrier!TypeOK, Barrier!CondTypeOK, Barrier!CondPlaces,
           BarrierPlaces, BarrierHolding, BarrierWaiters, Barrier!NoStrandedWaiter,
           Barrier!Open, Barrier!Last, Barrier!NoArrivals
  <1>5. BarrierCounts'
    <2>1. BarrierCurrent' = {}
      BY <1>10, SyncAssumption
      DEF BarrierCurrent, Barrier!Waiting, BarrierInv, BarrierWaiters, Barrier!TypeOK,
          Barrier!Open
    <2>2. BarrierPast' = BarrierPast \cup BarrierCurrent /\ BarrierPast \cap BarrierCurrent = {}
      BY <1>10, SyncAssumption
      DEF BarrierPast, BarrierCurrent, Barrier!Waiting, BarrierInv, BarrierWaiters,
          Barrier!TypeOK, Barrier!Open
    <2>3. /\ BarrierOpening' = BarrierOpening \cup {t} /\ t \notin BarrierOpening
          /\ BarrierBumping' = BarrierBumping \cup {t} /\ t \notin BarrierBumping
      BY DEF BarrierOpening, BarrierBumping, BarrierInv, Barrier!TypeOK, Barrier!Open
    <2>4. Cardinality(BarrierPast') = Cardinality(BarrierPast) + Cardinality(BarrierCurrent)
      <3>1. /\ Cardinality(BarrierPast \cup BarrierCurrent)
                 = Cardinality(BarrierPast) + Cardinality(BarrierCurrent) - Cardinality(BarrierPast \cap BarrierCurrent)
        BY BarrierSets, FS_Union
      <3> QED BY <2>2, <3>1, BarrierSets, FS_EmptySet
    <2>5. /\ Cardinality(BarrierOpening') = Cardinality(BarrierOpening) + 1
          /\ Cardinality(BarrierBumping') = Cardinality(BarrierBumping) + 1
          /\ Cardinality(BarrierCurrent') = 0
      BY <2>1, <2>3, BarrierSets, FS_AddElement, FS_EmptySet
    <2>6. UNCHANGED <<left, serials, sequence>>
      BY DEF Barrier!Open
    <2>7. Count * (generation + 1) = Count * generation + Count /\ Count * generation \in Nat
      BY SyncAssumption DEF BarrierInv, Barrier!TypeOK
    <2>8. Count * generation' = Count * generation + Count
      BY <1>10, <2>7
    <2>9. entered' = Count * generation' + arrived'
      BY <1>6, <2>7, <2>8, SyncAssumption DEF BarrierInv, BarrierCounts, Barrier!TypeOK
    <2>10. left' + Cardinality(BarrierPast') + Cardinality(BarrierOpening') = Count * generation'
      BY <1>6, <2>4, <2>5, <2>6, <2>7, <2>8, BarrierSets, SyncAssumption
      DEF BarrierInv, BarrierCounts
    <2>11. /\ entered' \in Nat /\ left' \in Nat /\ serials' \in Nat
           /\ entered' = Cardinality(BarrierArrived') /\ arrived' = Cardinality(BarrierCurrent')
      <3>1. left' = left /\ serials' = serials
        BY <2>6
      <3> QED BY <1>6, <1>7, <2>5, <3>1, BarrierNumbers
    <2>12. /\ serials' + Cardinality(BarrierOpening') = generation'
           /\ sequence' + Cardinality(BarrierBumping') = generation'
      BY <1>10, <2>5, <2>6, BarrierNumbers, BarrierSets DEF BarrierInv, BarrierCounts
    <2> QED BY <2>9, <2>10, <2>11, <2>12 DEF BarrierCounts
  <1> QED BY <1>1, <1>2, <1>3, <1>4, <1>5 DEF BarrierInv

\* The broadcast moves the sequence: one more call is through with the lock.
LEMMA BarrierBump ==
    ASSUME BarrierInv, NEW t \in Threads, Barrier!Bump(t) /\ UNCHANGED Barrier!barrierVars
    PROVE  BarrierInv'
  <1>6. BarrierBumping' = BarrierBumping \ {t} /\ t \in BarrierBumping /\ BarrierOpening' = BarrierOpening
    BY DEF BarrierOpening, BarrierBumping, BarrierInv, Barrier!TypeOK, Barrier!Bump
  <1>7. Cardinality(BarrierBumping') = Cardinality(BarrierBumping) - 1 /\ Cardinality(BarrierBumping) # 0
    BY <1>6, BarrierSets, FS_RemoveElement, FS_EmptySet
  <1>8. sequence + 1 <= generation /\ generation < SequenceMod /\ sequence \in Nat /\ generation \in Nat
    <2>1. BarrierArrived \in SUBSET BarrierCallSet
      BY DEF BarrierArrived
    <2>2. Cardinality(BarrierArrived) = Count * generation + arrived /\ arrived \in 0..(Count - 1)
      BY DEF BarrierInv, BarrierCounts, Barrier!TypeOK
    <2>3. generation \in Nat /\ sequence \in Nat
      BY SyncAssumption, ConditionAssumption
      DEF BarrierInv, Barrier!TypeOK, Barrier!CondTypeOK
    <2> QED BY <1>7, <2>1, <2>2, <2>3, BarrierRoom, BarrierSets DEF BarrierInv,
               BarrierCounts
  <1>9. sequence' = sequence + 1
    BY <1>8, ConditionAssumption DEF Barrier!Bump, Barrier!Bumped
  <1>1. Barrier!TypeOK'
    BY <1>8, <1>9, ConditionAssumption
    DEF BarrierInv, Barrier!TypeOK, Barrier!CondTypeOK, Barrier!CondPlaces, Barrier!Bump
  <1>2. BarrierPlaces'
    BY SyncAssumption, ConditionAssumption
    DEF BarrierInv, Barrier!TypeOK, Barrier!CondTypeOK, Barrier!CondPlaces,
        BarrierPlaces, BarrierHolding, Barrier!Bump, Barrier!Bumped
  <1>3. BarrierWaiters'
    BY <1>8, <1>9, ConditionAssumption
    DEF BarrierInv, Barrier!TypeOK, Barrier!CondTypeOK, BarrierWaiters, Barrier!Waiting, Barrier!Bump
  <1>4. Barrier!NoStrandedWaiter'
    BY DEF BarrierInv, Barrier!TypeOK, Barrier!CondTypeOK, Barrier!CondPlaces,
           BarrierPlaces, BarrierHolding, BarrierWaiters, Barrier!NoStrandedWaiter,
           Barrier!Bump, Barrier!Bumped
  <1>5. BarrierCounts'
    <2>1. BarrierCurrent' = BarrierCurrent /\ BarrierPast' = BarrierPast
      BY DEF BarrierCurrent, BarrierPast, Barrier!Waiting, BarrierInv, Barrier!TypeOK,
             Barrier!Bump
    <2>2. BarrierArrived' = BarrierArrived
      BY SyncAssumption
      DEF BarrierArrived, BarrierCallSet, BarrierInv, Barrier!TypeOK, Barrier!Bump
    <2>3. UNCHANGED <<entered, left, serials, arrived, generation>>
      BY DEF Barrier!Bump
    <2>4. sequence' + Cardinality(BarrierBumping') = generation
      BY <1>7, <1>8, <1>9, BarrierSets DEF BarrierInv, BarrierCounts
    <2> QED BY <1>6, <2>1, <2>2, <2>3, <2>4 DEF BarrierInv, BarrierCounts
  <1> QED BY <1>1, <1>2, <1>3, <1>4, <1>5 DEF BarrierInv

\* The thread that opened it returns.
LEMMA BarrierOpenEnds ==
    ASSUME BarrierInv, NEW t \in Threads, Barrier!OpenEnds(t)
    PROVE  BarrierInv'
  <1>1. Barrier!TypeOK'
    BY SyncAssumption, ConditionAssumption
    DEF BarrierInv, Barrier!TypeOK, Barrier!CondTypeOK, Barrier!CondPlaces,
        Barrier!OpenEnds, Barrier!Broadcast
  <1>2. BarrierPlaces'
    BY SyncAssumption, ConditionAssumption
    DEF BarrierInv, Barrier!TypeOK, Barrier!CondTypeOK, Barrier!CondPlaces,
        BarrierPlaces, BarrierHolding, Barrier!OpenEnds, Barrier!Broadcast
  <1>3. BarrierWaiters'
    BY SyncAssumption, ConditionAssumption
    DEF BarrierInv, Barrier!TypeOK, Barrier!CondTypeOK, Barrier!CondPlaces,
        BarrierPlaces, BarrierHolding, BarrierWaiters, Barrier!Waiting,
        Barrier!OpenEnds, Barrier!Broadcast
  <1>4. Barrier!NoStrandedWaiter'
    BY DEF BarrierInv, Barrier!TypeOK, Barrier!CondTypeOK, Barrier!CondPlaces,
           BarrierPlaces, BarrierHolding, BarrierWaiters, Barrier!NoStrandedWaiter,
           Barrier!OpenEnds, Barrier!Broadcast
  <1>5. BarrierCounts'
    <2>1. BarrierOpening' = BarrierOpening \ {t} /\ t \in BarrierOpening /\ BarrierBumping' = BarrierBumping
      BY DEF BarrierOpening, BarrierBumping, BarrierInv, BarrierPlaces, Barrier!TypeOK,
             Barrier!OpenEnds, Barrier!Broadcast
    <2>2. BarrierCurrent' = BarrierCurrent /\ BarrierPast' = BarrierPast
      BY DEF BarrierCurrent, BarrierPast, Barrier!Waiting, BarrierInv, BarrierPlaces,
             Barrier!TypeOK, Barrier!OpenEnds, Barrier!Broadcast
    <2>3. BarrierArrived' = BarrierArrived
      BY SyncAssumption
      DEF BarrierArrived, BarrierCallSet, BarrierInv, BarrierPlaces, Barrier!TypeOK,
          Barrier!OpenEnds, Barrier!Broadcast
    <2>4. Cardinality(BarrierOpening') = Cardinality(BarrierOpening) - 1
      BY <2>1, BarrierSets, FS_RemoveElement
    <2>5. /\ left' = left + 1 /\ serials' = serials + 1
          /\ UNCHANGED <<entered, arrived, generation, sequence>>
      BY DEF Barrier!OpenEnds, Barrier!Broadcast
    <2>6. /\ left' + Cardinality(BarrierPast) + Cardinality(BarrierOpening')
               = left + Cardinality(BarrierPast) + Cardinality(BarrierOpening)
          /\ serials' + Cardinality(BarrierOpening') = serials + Cardinality(BarrierOpening)
          /\ left' \in Nat /\ serials' \in Nat
      BY <2>4, <2>5, BarrierSets, BarrierNumbers
    <2> QED BY <2>1, <2>2, <2>3, <2>5, <2>6 DEF BarrierInv, BarrierCounts
  <1> QED BY <1>1, <1>2, <1>3, <1>4, <1>5 DEF BarrierInv

\* Every step of the barrier keeps BarrierInv.
LEMMA BarrierStep ==
    ASSUME BarrierInv, Barrier!Next
    PROVE  BarrierInv'
  BY BarrierCall, BarrierArrive, BarrierOpen, BarrierOpenEnds, BarrierWaitAgain,
     BarrierPass, BarrierReadSequence, BarrierLeave,
     BarrierDoze, BarrierRelock, BarrierBump DEF Barrier!Next, Barrier!Continue, Barrier!CondStep

\* A fresh barrier has BarrierInv.
LEMMA BarrierInit == Barrier!Init => BarrierInv
  <1> SUFFICES ASSUME Barrier!Init PROVE BarrierInv
    OBVIOUS
  <1>1. Barrier!TypeOK /\ BarrierPlaces /\ BarrierWaiters /\ Barrier!NoStrandedWaiter
    BY ConditionAssumption, SyncAssumption
    DEF Barrier!TypeOK, Barrier!CondTypeOK, BarrierPlaces, BarrierHolding,
       BarrierWaiters, Barrier!Waiting, Barrier!NoStrandedWaiter, Barrier!Init, Barrier!CondInit
  <1>2. /\ BarrierCurrent = {} /\ BarrierPast = {} /\ BarrierOpening = {} /\ BarrierBumping = {}
        /\ BarrierArrived = {}
    BY SyncAssumption
    DEF BarrierCurrent, BarrierPast, BarrierOpening, BarrierBumping, BarrierArrived,
        BarrierCallSet, Barrier!Waiting,
       Barrier!Init, Barrier!CondInit
  <1>3. BarrierCounts
    BY <1>2, FS_EmptySet, SyncAssumption DEF BarrierCounts, Barrier!Init,
       Barrier!CondInit
  <1> QED BY <1>1, <1>3 DEF BarrierInv

\* The stated properties follow from the counts.
LEMMA BarrierPromises ==
    ASSUME BarrierInv
    PROVE  Barrier!ArrivalsAreWaiting /\ Barrier!ReleasesWholeGroups
  <1>1. Barrier!ArrivalsAreWaiting
    BY BarrierCardinality
    DEF BarrierInv, BarrierCounts, BarrierCurrent, Barrier!ArrivalsAreWaiting
  <1>2. entered \div Count = generation /\ generation \in Nat /\ Count * generation \in Nat
    BY Quotient, BarrierNumbers DEF BarrierInv, BarrierCounts
  <1>3. left <= Count * generation /\ serials <= generation
    BY <1>2, BarrierSets DEF BarrierInv, BarrierCounts
  <1>4. ASSUME \A t \in Threads : pc[t] \in {"idle", "asleep"}, arrived = 0
        PROVE  left = entered /\ serials * Count = left
    <2>1. BarrierOpening = {}
      BY <1>4 DEF BarrierOpening
    <2>2. BarrierPast = {}
      BY <1>4
      DEF BarrierPast, Barrier!Waiting, BarrierInv, BarrierPlaces,
          Barrier!NoStrandedWaiter
    <2>3. Cardinality(BarrierOpening) = 0 /\ Cardinality(BarrierPast) = 0
      BY <2>1, <2>2, FS_EmptySet
    <2>4. left = Count * generation /\ serials = generation /\ entered = Count * generation
      BY <1>2, <1>4, <2>3 DEF BarrierInv, BarrierCounts
    <2> QED BY <2>4, SyncAssumption, <1>2
  <1> QED BY <1>1, <1>2, <1>3, <1>4 DEF Barrier!ReleasesWholeGroups

\* Nothing of it changes when the program uses something else.
LEMMA BarrierIdle ==
    ASSUME BarrierInv, UNCHANGED <<conditionVars, barrierVars>>
    PROVE  BarrierInv'
  <1>1. Barrier!TypeOK'
    BY DEF BarrierInv, conditionVars, condVars, barrierVars, Barrier!TypeOK,
           Barrier!CondTypeOK
  <1>2. BarrierPlaces'
    BY DEF BarrierInv, conditionVars, condVars, barrierVars, BarrierPlaces
  <1>3. BarrierCounts'
    BY DEF BarrierInv, conditionVars, condVars, barrierVars, BarrierCounts,
           BarrierCurrent, BarrierPast, BarrierOpening, BarrierBumping, BarrierArrived,
           Barrier!Waiting
  <1>4. BarrierWaiters'
    BY DEF BarrierInv, conditionVars, condVars, barrierVars, BarrierWaiters,
           Barrier!Waiting
  <1>5. Barrier!NoStrandedWaiter'
    BY DEF BarrierInv, conditionVars, condVars, barrierVars, Barrier!NoStrandedWaiter
  <1> QED BY <1>1, <1>2, <1>3, <1>4, <1>5 DEF BarrierInv

-----------------------------------------------------------------------------
(* Thread-specific keys *)

\* The instance counts with the Cardinality of this module.
LEMMA KeysCardinality == \A S : Keys!Cardinality(S) = Cardinality(S)
  BY Zenon DEF Keys!Cardinality, Cardinality

\* Keys are numbered in the order of their creation; a slot's generation is that
\* of its newest key, and tells the keys apart that had the slot.
KeyNumbers ==
    /\ IsFiniteSet(keys) /\ Cardinality(keys) <= MaxKeys
    /\ \A k \in keys : k.id <= Cardinality(keys)
    /\ \A k, l \in keys : k.id = l.id => k = l
    /\ \A i \in Keys!AllSlots : generations[i] <= Cardinality(keys)
    /\ \A k \in keys : k.generation <= generations[k.index]
    /\ \A k, l \in keys : k.index = l.index /\ k.generation = l.generation => k = l

\* A slot in use belongs to one live key, and its destructor to that key.
KeySlots ==
    /\ \A k \in keys : k.live =>
          /\ used[k.index] /\ generations[k.index] = k.generation
          /\ destructor[k.index] \in {0, k.id}
    /\ \A i \in Keys!AllSlots : used[i] => \E k \in keys : k.live /\ k.index = i

\* A value that is not null was stored under a key that had the slot then.
KeyValues ==
    \A t \in KeyThreads, i \in Keys!AllSlots : values[t][i].value # 0 =>
        \E k \in keys : /\ k.id = values[t][i].value /\ k.index = i
                        /\ k.generation = values[t][i].generation

\* What the loop of Run_Key_Destructors has passed in a round without a destructor
\* stays null.
KeyRoundOf(t) ==
    /\ at[t] \in {"picked", "destructor"} => index[t] < Slots
    /\ at[t] = "gone" => index[t] = Slots
    /\ at[t] = "run" => index[t] = 0
    /\ at[t] \in {"scan", "picked", "gone"} /\ ~ranAny[t] =>
          \A i \in Keys!AllSlots : i < index[t] => values[t][i].value = 0
    /\ at[t] = "picked" => values[t][index[t]].value = 0
    /\ at[t] = "picked" => call[t].destructor \in {0, call[t].value}
KeyRounds == \A t \in KeyThreads : KeyRoundOf(t)

KeyType == [id : 1..MaxKeys, index : Keys!AllSlots, live : BOOLEAN,
            generation : 0..(KeyMod - 1)]

KeyInv ==
    /\ Keys!TypeOK
    /\ KeyNumbers /\ KeySlots /\ KeyValues /\ KeyRounds
    /\ Keys!DestructorsGetTheirValues

USE DEF Keys!slotVars, Keys!exitVars

\* What the constants of the keys are.
LEMMA KeySorts ==
    /\ Slots \in Nat \ {0} /\ Rounds \in Nat \ {0}
    /\ MaxKeys \in Nat /\ MaxSets \in Nat /\ KeyMod \in Nat /\ MaxKeys < KeyMod
    /\ Keys!AllSlots = 0..(Slots - 1)
  BY SyncAssumption DEF Keys!AllSlots

\* The new key has the slot alone, and a generation the slot never had.
LEMMA KeyCreate ==
    ASSUME KeyInv, Keys!Create
    PROVE  KeyInv'
  <1>0. PICK i \in Keys!AllSlots, destroys \in BOOLEAN :
          LET id == Cardinality(keys) + 1
              k == [id |-> id, index |-> i, live |-> TRUE, generation |-> generations[i] + 1] IN
          /\ ~used[i] /\ Cardinality(keys) < MaxKeys
          /\ used' = [used EXCEPT ![i] = TRUE]
          /\ generations' = [generations EXCEPT ![i] = @ + 1]
          /\ destructor' = [destructor EXCEPT ![i] = IF destroys THEN id ELSE 0]
          /\ keys' = keys \cup {k}
          /\ UNCHANGED <<values, at, round, index, ranAny, call, sets, misrouted>>
    <2>1. PICK i \in Keys!AllSlots, destroys \in BOOLEAN :
            LET id == Cardinality(keys) + 1 IN
            /\ ~used[i] /\ Cardinality(keys) < MaxKeys
            /\ used' = [used EXCEPT ![i] = TRUE]
            /\ generations' = [generations EXCEPT ![i] = @ + 1]
            /\ destructor' = [destructor EXCEPT ![i] = IF destroys THEN id ELSE 0]
            /\ keys' = keys \cup {[id |-> id, index |-> i, live |-> TRUE,
                                   generation |-> Keys!LowBits(generations'[i])]}
            /\ UNCHANGED <<values, at, round, index, ranAny, call, sets, misrouted>>
      BY KeysCardinality DEF Keys!Create
    <2>2. generations'[i] = generations[i] + 1 /\ generations[i] \in Nat
      BY <2>1, KeySorts DEF KeyInv, Keys!TypeOK
    <2>3. generations[i] <= Cardinality(keys) /\ Cardinality(keys) \in Nat
      BY FS_CardinalityType DEF KeyInv, KeyNumbers
    <2>4. Keys!LowBits(generations'[i]) = generations[i] + 1
      BY <2>1, <2>2, <2>3, KeySorts, SMTT(30) DEF Keys!LowBits
    <2> QED BY <2>1, <2>4
  <1> DEFINE id == Cardinality(keys) + 1
             k == [id |-> id, index |-> i, live |-> TRUE, generation |-> generations[i] + 1]
  <1>7. Cardinality(keys) \in Nat /\ id \in 1..MaxKeys /\ IsFiniteSet(keys)
    BY <1>0, KeySorts, FS_CardinalityType DEF KeyInv, KeyNumbers
  <1>8. /\ generations[i] \in Nat /\ generations[i] + 1 <= id
        /\ generations[i] + 1 \in 0..(KeyMod - 1)
    BY <1>7, KeySorts DEF KeyInv, KeyNumbers, Keys!TypeOK
  <1>9. k \notin keys /\ IsFiniteSet(keys') /\ Cardinality(keys') = id
    <2>1. k \notin keys
      BY <1>7 DEF KeyInv, KeyNumbers
    <2>2. keys' = keys \cup {k}
      BY <1>0
    <2> HIDE DEF k
    <2> QED BY <1>7, <2>1, <2>2, FS_AddElement
  <1>1. Keys!TypeOK'
    <2>1. generations' \in [Keys!AllSlots -> 0..MaxKeys] /\ destructor' \in [Keys!AllSlots -> 0..MaxKeys]
      BY <1>0, <1>7, <1>8, KeySorts, SMTT(30) DEF KeyInv, Keys!TypeOK
    <2>2. used' \in [Keys!AllSlots -> BOOLEAN]
      BY <1>0 DEF KeyInv, Keys!TypeOK
    <2>3. k \in KeyType
      BY <1>7, <1>8 DEF KeyType
    <2>4. keys' \subseteq KeyType
      BY <1>0, <2>3 DEF KeyInv, Keys!TypeOK, KeyType
    <2> QED BY <1>0, <2>1, <2>2, <2>4 DEF KeyInv, Keys!TypeOK, KeyType
  <1>2. KeyNumbers'
    <2>1. \A l \in keys : l.id <= Cardinality(keys) /\ l.generation <= generations[l.index]
                          /\ l.index \in Keys!AllSlots /\ l.id \in Nat /\ l.generation \in Nat
      BY KeySorts DEF KeyInv, KeyNumbers, Keys!TypeOK
    <2>2. k.id = id /\ k.index = i /\ k.generation = generations[i] + 1
      OBVIOUS
    <2>3. \A l \in keys' : l \in keys \/ l = k
      BY <1>0
    <2>4. Cardinality(keys') <= MaxKeys /\ \A l \in keys' : l.id <= Cardinality(keys')
      BY <1>7, <1>9, <2>1, <2>2, <2>3
    <2>5. \A j \in Keys!AllSlots : generations'[j] = IF j = i THEN generations[i] + 1 ELSE generations[j]
      BY <1>0 DEF KeyInv, Keys!TypeOK
    <2>6. \A j \in Keys!AllSlots : generations[j] \in Nat /\ generations[j] <= Cardinality(keys)
      BY KeySorts DEF KeyInv, KeyNumbers, Keys!TypeOK
    <2>7. /\ \A j \in Keys!AllSlots : generations'[j] <= Cardinality(keys')
          /\ \A l \in keys' : l.generation <= generations'[l.index]
      BY <1>0, <1>7, <1>8, <1>9, <2>1, <2>2, <2>3, <2>5, <2>6
    <2>8. \A l \in keys : l.id # k.id /\ (l.index = k.index => l.generation # k.generation)
      BY <1>7, <1>8, <2>1, <2>2
    <2>9. /\ \A l, m \in keys : l.id = m.id => l = m
          /\ \A l, m \in keys : l.index = m.index /\ l.generation = m.generation => l = m
      BY DEF KeyInv, KeyNumbers
    <2>10. /\ \A l, m \in keys' : l.id = m.id => l = m
           /\ \A l, m \in keys' : l.index = m.index /\ l.generation = m.generation => l = m
      <3> HIDE DEF k
      <3> QED BY <2>3, <2>8, <2>9
    <2> QED BY <1>9, <2>4, <2>7, <2>10 DEF KeyNumbers
  <1>3. KeySlots'
    <2>1. \A l \in keys : l.live => l.index # i /\ l.index \in Keys!AllSlots
      BY <1>0 DEF KeyInv, KeySlots, Keys!TypeOK
    <2>2. k.live /\ k.id = id /\ k.index = i /\ k.generation = generations[i] + 1 /\ k \in keys'
      BY <1>0
    <2>3. \A l \in keys' : l \in keys \/ l = k
      BY <1>0
    <2>4. keys \subseteq keys'
      BY <1>0
    <2> HIDE DEF k, id
    <2>5. ASSUME NEW l \in keys', l.live
          PROVE  /\ used'[l.index] /\ generations'[l.index] = l.generation
                 /\ destructor'[l.index] \in {0, l.id}
      <3>1. CASE l \in keys
        BY <1>0, <2>1, <2>5, <3>1 DEF KeyInv, KeySlots, Keys!TypeOK
      <3>2. CASE l = k
        BY <1>0, <2>2, <3>2 DEF KeyInv, Keys!TypeOK, id
      <3> QED BY <2>3, <3>1, <3>2
    <2>6. ASSUME NEW j \in Keys!AllSlots, used'[j]
          PROVE  \E l \in keys' : l.live /\ l.index = j
      BY <1>0, <2>2, <2>4, <2>6 DEF KeyInv, KeySlots, Keys!TypeOK
    <2> QED BY <2>5, <2>6 DEF KeySlots
  <1>4. KeyValues'
    BY <1>0 DEF KeyInv, KeyValues
  <1>5. KeyRounds'
    BY <1>0 DEF KeyInv, KeyRounds, KeyRoundOf
  <1>6. Keys!DestructorsGetTheirValues'
    BY <1>0 DEF KeyInv, Keys!DestructorsGetTheirValues
  <1> QED BY <1>1, <1>2, <1>3, <1>4, <1>5, <1>6 DEF KeyInv

\* A deleted key gives its slot back and stays known.
LEMMA KeyDelete ==
    ASSUME KeyInv, Keys!Delete
    PROVE  KeyInv'
  <1>0. PICK k \in keys :
          /\ k.live
          /\ used' = [used EXCEPT ![k.index] = FALSE]
          /\ destructor' = [destructor EXCEPT ![k.index] = 0]
          /\ keys' = (keys \ {k}) \cup {[k EXCEPT !.live = FALSE]}
          /\ UNCHANGED <<generations, values, at, round, index, ranAny, call, sets, misrouted>>
    BY DEF Keys!Delete
  <1>7. PICK d : d = [k EXCEPT !.live = FALSE]
    OBVIOUS
  <1>8. /\ k \in KeyType /\ d \in KeyType
        /\ d.id = k.id /\ d.index = k.index /\ d.generation = k.generation /\ ~d.live
        /\ k.index \in Keys!AllSlots
    BY <1>7 DEF KeyInv, Keys!TypeOK, KeyType
  <1>9. keys' = (keys \ {k}) \cup {d} /\ d \notin keys
    BY <1>0, <1>7, <1>8 DEF KeyInv, KeyNumbers
  <1>10. IsFiniteSet(keys') /\ Cardinality(keys') = Cardinality(keys)
    <2>1. IsFiniteSet(keys) /\ Cardinality(keys) \in Nat
      BY FS_CardinalityType DEF KeyInv, KeyNumbers
    <2>2. IsFiniteSet(keys \ {k}) /\ Cardinality(keys \ {k}) = Cardinality(keys) - 1
      BY <2>1, FS_RemoveElement
    <2>3. d \notin keys \ {k}
      BY <1>9
    <2>4. /\ IsFiniteSet((keys \ {k}) \cup {d})
          /\ Cardinality((keys \ {k}) \cup {d}) = Cardinality(keys \ {k}) + 1
      BY <2>2, <2>3, FS_AddElement
    <2> QED BY <1>9, <2>1, <2>2, <2>4
  <1>1. Keys!TypeOK'
    <2>1. keys' \subseteq KeyType
      BY <1>8, <1>9 DEF KeyInv, Keys!TypeOK, KeyType
    <2>2. used' \in [Keys!AllSlots -> BOOLEAN] /\ destructor' \in [Keys!AllSlots -> 0..MaxKeys]
      BY <1>0, <1>8, KeySorts DEF KeyInv, Keys!TypeOK, KeyType
    <2> QED BY <1>0, <2>1, <2>2 DEF KeyInv, Keys!TypeOK, KeyType
  <1>2. KeyNumbers'
    <2>1. \A l \in keys' : \E m \in keys : /\ m.id = l.id /\ m.index = l.index
                                               /\ m.generation = l.generation
                                               /\ l = IF m = k THEN d ELSE m
      BY <1>8, <1>9
    <2>2. \A l, m \in keys' : l.id = m.id => l = m
      BY <2>1 DEF KeyInv, KeyNumbers
    <2>3. \A l, m \in keys' : l.index = m.index /\ l.generation = m.generation => l = m
      BY <2>1 DEF KeyInv, KeyNumbers
    <2>4. /\ \A l \in keys' : l.id <= Cardinality(keys') /\ l.generation <= generations'[l.index]
          /\ \A i \in Keys!AllSlots : generations'[i] <= Cardinality(keys')
          /\ Cardinality(keys') <= MaxKeys
      BY <1>0, <1>10, <2>1 DEF KeyInv, KeyNumbers
    <2> QED BY <1>10, <2>2, <2>3, <2>4 DEF KeyNumbers
  <1>3. KeySlots'
    <2>1. \A l \in keys' : l.live => l \in keys /\ l.index # k.index
      BY <1>0, <1>8, <1>9 DEF KeyInv, KeyNumbers, KeySlots
    <2>2. \A j \in Keys!AllSlots : used'[j] => used[j] /\ j # k.index
      BY <1>0, <1>8 DEF KeyInv, Keys!TypeOK
    <2>3. \A l \in keys : l.index # k.index => l \in keys'
      BY <1>9
    <2>4. ASSUME NEW l \in keys', l.live
          PROVE  /\ used'[l.index] /\ generations'[l.index] = l.generation
                 /\ destructor'[l.index] \in {0, l.id}
      BY <1>0, <2>1, <2>4 DEF KeyInv, KeySlots, Keys!TypeOK
    <2>5. ASSUME NEW j \in Keys!AllSlots, used'[j]
          PROVE  \E l \in keys' : l.live /\ l.index = j
      BY <2>2, <2>3, <2>5 DEF KeyInv, KeySlots
    <2> QED BY <2>4, <2>5 DEF KeySlots
  <1>4. KeyValues'
    <2>1. \A l \in keys : \E m \in keys' : m.id = l.id /\ m.index = l.index /\ m.generation = l.generation
      BY <1>8, <1>9
    <2> QED BY <1>0, <2>1 DEF KeyInv, KeyValues
  <1>5. KeyRounds'
    BY <1>0 DEF KeyInv, KeyRounds, KeyRoundOf
  <1>6. Keys!DestructorsGetTheirValues'
    BY <1>0 DEF KeyInv, Keys!DestructorsGetTheirValues
  <1> QED BY <1>1, <1>2, <1>3, <1>4, <1>5, <1>6 DEF KeyInv

\* A value is stored beside the generation of its key.
LEMMA KeySet ==
    ASSUME KeyInv, NEW t \in KeyThreads, Keys!Set(t)
    PROVE  KeyInv'
  <1>0. PICK k \in keys, x \in 0..MaxKeys :
          /\ x = 0 \/ x = k.id
          /\ at[t] \in {"run", "destructor"} /\ sets[t] < MaxSets
          /\ sets' = [sets EXCEPT ![t] = @ + 1]
          /\ values' = [values EXCEPT ![t][k.index] = [generation |-> k.generation, value |-> x]]
          /\ UNCHANGED <<used, generations, destructor, keys, at, round, index, ranAny, call, misrouted>>
    <2>1. PICK k \in keys, null \in BOOLEAN :
             values' = [values EXCEPT ![t][k.index] =
                          [generation |-> k.generation, value |-> IF null THEN 0 ELSE k.id]]
      BY DEF Keys!Set
    <2>2. (IF null THEN 0 ELSE k.id) \in 0..MaxKeys
      BY KeySorts, SMTT(30) DEF KeyInv, Keys!TypeOK
    <2> QED BY <2>1, <2>2 DEF Keys!Set
  <1>7. k.index \in Keys!AllSlots /\ k.generation \in 0..(KeyMod - 1)
    BY DEF KeyInv, Keys!TypeOK
  <1>1. Keys!TypeOK'
    <2>1. [generation |-> k.generation, value |-> x] \in [generation : 0..(KeyMod - 1), value : 0..MaxKeys]
      BY <1>7
    <2>2. values' \in [KeyThreads -> [Keys!AllSlots -> [generation : 0..(KeyMod - 1), value : 0..MaxKeys]]]
      BY <1>0, <1>7, <2>1 DEF KeyInv, Keys!TypeOK
    <2>3. sets' \in [KeyThreads -> 0..MaxSets]
      <3>1. sets \in [KeyThreads -> 0..MaxSets]
        BY DEF KeyInv, Keys!TypeOK
      <3>2. sets[t] + 1 \in 0..MaxSets
        BY <1>0, <3>1, KeySorts
      <3> QED BY <1>0, <3>1, <3>2
    <2> QED BY <1>0, <2>2, <2>3 DEF KeyInv, Keys!TypeOK
  <1>2. KeyNumbers'
    BY <1>0 DEF KeyInv, KeyNumbers
  <1>3. KeySlots'
    BY <1>0 DEF KeyInv, KeySlots
  <1>4. KeyValues'
    BY <1>0, <1>7 DEF KeyInv, KeyValues, Keys!TypeOK
  <1>5. KeyRounds'
    BY <1>0, <1>7 DEF KeyInv, KeyRounds, KeyRoundOf, Keys!TypeOK
  <1>6. Keys!DestructorsGetTheirValues'
    BY <1>0 DEF KeyInv, Keys!DestructorsGetTheirValues
  <1> QED BY <1>1, <1>2, <1>3, <1>4, <1>5, <1>6 DEF KeyInv

\* The value taken out of the thread goes to the destructor of its own key, if
\* any.
LEMMA KeyPick ==
    ASSUME KeyInv, NEW t \in KeyThreads, Keys!Pick(t)
    PROVE  KeyInv'
  <1>0. PICK i \in Keys!AllSlots, v \in [generation : 0..(KeyMod - 1), value : 1..MaxKeys] :
          i = index[t] /\ v = values[t][i]
    <2>1. index[t] \in Keys!AllSlots
      BY KeySorts DEF KeyInv, Keys!TypeOK, Keys!Pick
    <2>2. values[t][index[t]] \in [generation : 0..(KeyMod - 1), value : 0..MaxKeys]
      BY <2>1 DEF KeyInv, Keys!TypeOK
    <2>3. values[t][index[t]].value # 0
      BY DEF Keys!Pick
    <2>4. values[t][index[t]] \in [generation : 0..(KeyMod - 1), value : 1..MaxKeys]
      BY <2>2, <2>3, KeySorts
    <2> QED BY <2>1, <2>4
  <1>7. PICK c \in 0..MaxKeys :
          /\ c = IF Keys!Current(i, v) THEN destructor[i] ELSE 0
          /\ call' = [call EXCEPT ![t] = [destructor |-> c, value |-> v.value]]
    <2>1. destructor[i] \in 0..MaxKeys /\ 0 \in 0..MaxKeys
      BY <1>0, KeySorts DEF KeyInv, Keys!TypeOK
    <2> QED BY <1>0, <2>1 DEF Keys!Pick
  <1>8. /\ values' = [values EXCEPT ![t][i].value = 0]
        /\ at[t] = "scan" /\ at' = [at EXCEPT ![t] = "picked"] /\ i < Slots
        /\ UNCHANGED <<used, generations, destructor, keys, index, round, ranAny, sets, misrouted>>
    BY <1>0 DEF Keys!Pick, Keys!Cleared
  <1>9. /\ \A u \in KeyThreads : u # t => values'[u] = values[u]
        /\ \A j \in Keys!AllSlots : j # i => values'[t][j] = values[t][j]
        /\ values'[t][i] = [generation |-> v.generation, value |-> 0]
    <2>1. /\ DOMAIN values = KeyThreads /\ values[t] \in [Keys!AllSlots -> [generation : 0..(KeyMod - 1), value : 0..MaxKeys]]
      BY DEF KeyInv, Keys!TypeOK
    <2>2. values' = [values EXCEPT ![t] = [values[t] EXCEPT ![i] = [values[t][i] EXCEPT !.value = 0]]]
      BY <1>8
    <2>3. [v EXCEPT !.value = 0] = [generation |-> v.generation, value |-> 0]
      OBVIOUS
    <2> QED BY <1>0, <2>1, <2>2, <2>3
  <1>10. c \in {0, v.value}
    <2>1. PICK k \in keys : k.id = v.value /\ k.index = i /\ k.generation = v.generation
      BY <1>0, KeySorts DEF KeyInv, KeyValues
    <2>2. ASSUME used[i], generations[i] = v.generation
          PROVE  destructor[i] \in {0, v.value}
      <3>1. PICK l \in keys : l.live /\ l.index = i
        BY <2>2 DEF KeyInv, KeySlots
      <3>2. l.generation = k.generation
        BY <2>1, <2>2, <3>1 DEF KeyInv, KeySlots
      <3>3. l = k
        BY <2>1, <3>1, <3>2 DEF KeyInv, KeyNumbers
      <3> QED BY <2>1, <3>1, <3>3 DEF KeyInv, KeySlots
    <2> QED BY <1>7, <2>2 DEF Keys!Current
  <1>1. Keys!TypeOK'
    <2>1. /\ call' \in [KeyThreads -> [destructor : 0..MaxKeys, value : 0..MaxKeys]]
          /\ at' \in [KeyThreads -> Keys!Places]
      <3>1. /\ call \in [KeyThreads -> [destructor : 0..MaxKeys, value : 0..MaxKeys]]
            /\ at \in [KeyThreads -> Keys!Places]
        BY DEF KeyInv, Keys!TypeOK
      <3>2. [destructor |-> c, value |-> v.value] \in [destructor : 0..MaxKeys, value : 0..MaxKeys]
        BY <1>0, KeySorts
      <3> QED BY <1>7, <1>8, <3>1, <3>2 DEF Keys!Places
    <2>2. values' \in [KeyThreads -> [Keys!AllSlots -> [generation : 0..(KeyMod - 1), value : 0..MaxKeys]]]
      <3>1. [values[t][i] EXCEPT !.value = 0] \in [generation : 0..(KeyMod - 1), value : 0..MaxKeys]
        BY <1>0, KeySorts, SMTT(30)
      <3>2. values' = [values EXCEPT ![t] = [values[t] EXCEPT ![i] = [values[t][i] EXCEPT !.value = 0]]]
        BY <1>8
      <3>3. values[t] \in [Keys!AllSlots -> [generation : 0..(KeyMod - 1), value : 0..MaxKeys]]
        BY DEF KeyInv, Keys!TypeOK
      <3>4. [values[t] EXCEPT ![i] = [values[t][i] EXCEPT !.value = 0]]
              \in [Keys!AllSlots -> [generation : 0..(KeyMod - 1), value : 0..MaxKeys]]
        BY <1>0, <3>1, <3>3
      <3> QED BY <3>2, <3>4 DEF KeyInv, Keys!TypeOK
    <2> QED BY <1>8, <2>1, <2>2 DEF KeyInv, Keys!TypeOK
  <1>2. KeyNumbers'
    BY <1>8 DEF KeyInv, KeyNumbers
  <1>3. KeySlots'
    BY <1>8 DEF KeyInv, KeySlots
  <1>4. KeyValues'
    <2>1. \A u \in KeyThreads, j \in Keys!AllSlots :
             values'[u][j].value # 0 => values'[u][j] = values[u][j]
      BY <1>9
    <2> QED BY <1>8, <2>1 DEF KeyInv, KeyValues
  <1>5. KeyRounds'
    <2> SUFFICES ASSUME NEW u \in KeyThreads
                 PROVE  KeyRoundOf(u)'
      BY DEF KeyRounds
    <2>1. KeyRoundOf(u) /\ KeyRoundOf(t)
      BY DEF KeyInv, KeyRounds
    <2>2. CASE u # t
      <3>1. /\ at'[u] = at[u] /\ index'[u] = index[u] /\ ranAny'[u] = ranAny[u]
            /\ call'[u] = call[u] /\ values'[u] = values[u]
        BY <1>7, <1>8, <1>9, <2>2 DEF KeyInv, Keys!TypeOK
      <3> QED BY <2>1, <3>1 DEF KeyRoundOf
    <2>3. CASE u = t
      <3>1. /\ at'[t] = "picked" /\ index'[t] = i /\ ranAny'[t] = ranAny[t] /\ i < Slots
            /\ call'[t].destructor \in {0, call'[t].value}
        BY <1>0, <1>7, <1>8, <1>10 DEF KeyInv, Keys!TypeOK
      <3>2. \A j \in Keys!AllSlots : values[t][j].value = 0 => values'[t][j].value = 0
        BY <1>9
      <3>3. values'[t][i].value = 0
        BY <1>9
      <3> QED BY <1>0, <1>8, <2>1, <2>3, <3>1, <3>2, <3>3 DEF KeyRoundOf
    <2> QED BY <2>2, <2>3
  <1>6. Keys!DestructorsGetTheirValues'
    BY <1>8 DEF KeyInv, Keys!DestructorsGetTheirValues
  <1> QED BY <1>1, <1>2, <1>3, <1>4, <1>5, <1>6 DEF KeyInv

\* A step of the exit loop changes the locals of one thread; what has to be shown
\* of it is what it says of that thread.
LEMMA KeyMoves ==
    ASSUME KeyInv, NEW t \in KeyThreads,
           NEW p \in Keys!Places, NEW r \in 0..(Rounds - 1), NEW i \in 0..Slots,
           NEW any \in BOOLEAN, NEW c \in [destructor : 0..MaxKeys, value : 0..MaxKeys],
           at' = [at EXCEPT ![t] = p], round' = [round EXCEPT ![t] = r],
           index' = [index EXCEPT ![t] = i], ranAny' = [ranAny EXCEPT ![t] = any],
           call' = [call EXCEPT ![t] = c],
           UNCHANGED <<used, generations, destructor, keys, values, sets>>,
           misrouted' = FALSE,
           KeyRoundOf(t)'
    PROVE  KeyInv'
  <1>1. Keys!TypeOK'
    BY DEF KeyInv, Keys!TypeOK
  <1>2. KeyNumbers' /\ KeySlots' /\ KeyValues'
    BY DEF KeyInv, KeyNumbers, KeySlots, KeyValues
  <1>3. KeyRounds'
    <2> SUFFICES ASSUME NEW u \in KeyThreads, u # t
                 PROVE  KeyRoundOf(u)'
      BY DEF KeyRounds
    <2>1. /\ at'[u] = at[u] /\ index'[u] = index[u] /\ ranAny'[u] = ranAny[u]
          /\ call'[u] = call[u] /\ KeyRoundOf(u)
      BY DEF KeyInv, Keys!TypeOK, KeyRounds
    <2> QED BY <2>1 DEF KeyRoundOf
  <1> QED BY <1>1, <1>2, <1>3 DEF KeyInv, Keys!DestructorsGetTheirValues

\* The locals of a thread.
LEMMA KeyLocals ==
    ASSUME KeyInv, NEW t \in KeyThreads
    PROVE  /\ at[t] \in Keys!Places /\ ranAny[t] \in BOOLEAN
           /\ round[t] \in 0..(Rounds - 1) /\ round[t] \in Int
           /\ index[t] \in 0..Slots /\ index[t] \in Int
           /\ call[t] \in [destructor : 0..MaxKeys, value : 0..MaxKeys]
           /\ misrouted = FALSE
           /\ KeyRoundOf(t)
  <1>1. /\ at \in [KeyThreads -> Keys!Places] /\ round \in [KeyThreads -> 0..(Rounds - 1)]
        /\ index \in [KeyThreads -> 0..Slots] /\ ranAny \in [KeyThreads -> BOOLEAN]
        /\ call \in [KeyThreads -> [destructor : 0..MaxKeys, value : 0..MaxKeys]]
        /\ misrouted = FALSE
    BY DEF KeyInv, Keys!TypeOK, Keys!DestructorsGetTheirValues
  <1>2. KeyRoundOf(t)
    BY DEF KeyInv, KeyRounds
  <1> QED BY <1>1, <1>2, KeySorts

\* What an action leaves alone, in the form KeyMoves takes it.
LEMMA KeySame ==
    ASSUME KeyInv, NEW t \in KeyThreads
    PROVE  /\ at = [at EXCEPT ![t] = at[t]] /\ round = [round EXCEPT ![t] = round[t]]
           /\ index = [index EXCEPT ![t] = index[t]]
           /\ ranAny = [ranAny EXCEPT ![t] = ranAny[t]]
           /\ call = [call EXCEPT ![t] = call[t]]
  BY DEF KeyInv, Keys!TypeOK

\* No call is a call record.
LEMMA KeyNoCall == Keys!NoCall \in [destructor : 0..MaxKeys, value : 0..MaxKeys]
  BY KeySorts DEF Keys!NoCall

\* The first round begins at the first slot.
LEMMA KeyExit ==
    ASSUME KeyInv, NEW t \in KeyThreads, Keys!Exit(t)
    PROVE  KeyInv'
  <1>2. "scan" \in Keys!Places
    BY DEF Keys!Places
  <1>3. misrouted' = FALSE
    BY KeyLocals DEF Keys!Exit
  <1>4. /\ at' = [at EXCEPT ![t] = "scan"]
        /\ round' = [round EXCEPT ![t] = round[t]]
        /\ index' = [index EXCEPT ![t] = index[t]]
        /\ ranAny' = [ranAny EXCEPT ![t] = ranAny[t]]
        /\ call' = [call EXCEPT ![t] = call[t]]
        /\ UNCHANGED <<used, generations, destructor, keys, values, sets>>
    BY KeySame DEF Keys!Exit
  <1>5. /\ at'[t] = "scan" /\ index'[t] = index[t] /\ ranAny'[t] = ranAny[t]
        /\ call'[t] = call[t] /\ values' = values
    BY <1>4 DEF KeyInv, Keys!TypeOK
  <1>6. KeyRoundOf(t)'
    <2>1. KeyRoundOf(t) /\ index[t] \in Int
      BY KeyLocals
    <2> QED BY <1>5, <2>1, KeySorts DEF KeyRoundOf, Keys!NoCall, Keys!Exit
  <1> QED BY <1>2, <1>3, <1>4, <1>6, KeyLocals, KeyNoCall, KeyMoves

\* A slot that is passed without a destructor is null.
LEMMA KeySkip ==
    ASSUME KeyInv, NEW t \in KeyThreads, Keys!Skip(t)
    PROVE  KeyInv'
  <1>1. index[t] + 1 \in 0..Slots
    <2>1. index[t] \in 0..Slots /\ index[t] \in Int /\ round[t] \in 0..(Rounds - 1) /\ KeyRoundOf(t)
      BY KeyLocals
    <2> QED BY <2>1, KeySorts DEF KeyRoundOf, Keys!Skip
  <1>3. misrouted' = FALSE
    BY KeyLocals DEF Keys!Skip
  <1>4. /\ at' = [at EXCEPT ![t] = at[t]]
        /\ round' = [round EXCEPT ![t] = round[t]]
        /\ index' = [index EXCEPT ![t] = index[t] + 1]
        /\ ranAny' = [ranAny EXCEPT ![t] = ranAny[t]]
        /\ call' = [call EXCEPT ![t] = call[t]]
        /\ UNCHANGED <<used, generations, destructor, keys, values, sets>>
    BY KeySame DEF Keys!Skip
  <1>5. /\ at'[t] = at[t] /\ index'[t] = index[t] + 1 /\ ranAny'[t] = ranAny[t]
        /\ call'[t] = call[t] /\ values' = values
    BY <1>4 DEF KeyInv, Keys!TypeOK
  <1>6. KeyRoundOf(t)'
    <2>1. KeyRoundOf(t) /\ index[t] \in Int
      BY KeyLocals
    <2> QED BY <1>5, <2>1, KeySorts DEF KeyRoundOf, Keys!NoCall, Keys!Skip
  <1> QED BY <1>1, <1>3, <1>4, <1>6, KeyLocals, KeyNoCall, KeyMoves

\* So is one whose value had no destructor.
LEMMA KeyForget ==
    ASSUME KeyInv, NEW t \in KeyThreads, Keys!Forget(t)
    PROVE  KeyInv'
  <1>1. index[t] + 1 \in 0..Slots
    <2>1. index[t] \in 0..Slots /\ index[t] \in Int /\ round[t] \in 0..(Rounds - 1) /\ KeyRoundOf(t)
      BY KeyLocals
    <2> QED BY <2>1, KeySorts DEF KeyRoundOf, Keys!Forget
  <1>2. "scan" \in Keys!Places
    BY DEF Keys!Places
  <1>3. misrouted' = FALSE
    BY KeyLocals DEF Keys!Forget
  <1>4. /\ at' = [at EXCEPT ![t] = "scan"]
        /\ round' = [round EXCEPT ![t] = round[t]]
        /\ index' = [index EXCEPT ![t] = index[t] + 1]
        /\ ranAny' = [ranAny EXCEPT ![t] = ranAny[t]]
        /\ call' = [call EXCEPT ![t] = Keys!NoCall]
        /\ UNCHANGED <<used, generations, destructor, keys, values, sets>>
    BY KeySame DEF Keys!Forget
  <1>5. /\ at'[t] = "scan" /\ index'[t] = index[t] + 1 /\ ranAny'[t] = ranAny[t]
        /\ call'[t] = Keys!NoCall /\ values' = values
    BY <1>4 DEF KeyInv, Keys!TypeOK
  <1>6. KeyRoundOf(t)'
    <2>1. KeyRoundOf(t) /\ index[t] \in Int
      BY KeyLocals
    <2> QED BY <1>5, <2>1, KeySorts DEF KeyRoundOf, Keys!NoCall, Keys!Forget
  <1> QED BY <1>1, <1>2, <1>3, <1>4, <1>6, KeyLocals, KeyNoCall, KeyMoves

\* The destructor runs with the value that was picked.
LEMMA KeyDestroy ==
    ASSUME KeyInv, NEW t \in KeyThreads, Keys!Destroy(t)
    PROVE  KeyInv'
  <1>2. "destructor" \in Keys!Places
    BY DEF Keys!Places
  <1>3. misrouted' = FALSE
    <2>1. call[t].destructor = call[t].value
      BY KeyLocals DEF KeyRoundOf, Keys!Destroy
    <2> QED BY <2>1, KeyLocals DEF Keys!Destroy
  <1>4. /\ at' = [at EXCEPT ![t] = "destructor"]
        /\ round' = [round EXCEPT ![t] = round[t]]
        /\ index' = [index EXCEPT ![t] = index[t]]
        /\ ranAny' = [ranAny EXCEPT ![t] = ranAny[t]]
        /\ call' = [call EXCEPT ![t] = call[t]]
        /\ UNCHANGED <<used, generations, destructor, keys, values, sets>>
    BY KeySame DEF Keys!Destroy
  <1>5. /\ at'[t] = "destructor" /\ index'[t] = index[t] /\ ranAny'[t] = ranAny[t]
        /\ call'[t] = call[t] /\ values' = values
    BY <1>4 DEF KeyInv, Keys!TypeOK
  <1>6. KeyRoundOf(t)'
    <2>1. KeyRoundOf(t) /\ index[t] \in Int
      BY KeyLocals
    <2> QED BY <1>5, <2>1, KeySorts DEF KeyRoundOf, Keys!NoCall, Keys!Destroy
  <1> QED BY <1>2, <1>3, <1>4, <1>6, KeyLocals, KeyNoCall, KeyMoves

\* The round that ran a destructor promises nothing of the slots it passed.
LEMMA KeyDestroyed ==
    ASSUME KeyInv, NEW t \in KeyThreads, Keys!Destroyed(t)
    PROVE  KeyInv'
  <1>1. index[t] + 1 \in 0..Slots
    <2>1. index[t] \in 0..Slots /\ index[t] \in Int /\ round[t] \in 0..(Rounds - 1) /\ KeyRoundOf(t)
      BY KeyLocals
    <2> QED BY <2>1, KeySorts DEF KeyRoundOf, Keys!Destroyed
  <1>2. "scan" \in Keys!Places /\ TRUE \in BOOLEAN
    BY DEF Keys!Places
  <1>3. misrouted' = FALSE
    BY KeyLocals DEF Keys!Destroyed
  <1>4. /\ at' = [at EXCEPT ![t] = "scan"]
        /\ round' = [round EXCEPT ![t] = round[t]]
        /\ index' = [index EXCEPT ![t] = index[t] + 1]
        /\ ranAny' = [ranAny EXCEPT ![t] = TRUE]
        /\ call' = [call EXCEPT ![t] = Keys!NoCall]
        /\ UNCHANGED <<used, generations, destructor, keys, values, sets>>
    BY KeySame DEF Keys!Destroyed
  <1>5. /\ at'[t] = "scan" /\ index'[t] = index[t] + 1 /\ ranAny'[t] = TRUE
        /\ call'[t] = Keys!NoCall /\ values' = values
    BY <1>4 DEF KeyInv, Keys!TypeOK
  <1>6. KeyRoundOf(t)'
    <2>1. KeyRoundOf(t) /\ index[t] \in Int
      BY KeyLocals
    <2> QED BY <1>5, <2>1, KeySorts DEF KeyRoundOf, Keys!NoCall, Keys!Destroyed
  <1> QED BY <1>1, <1>2, <1>3, <1>4, <1>6, KeyLocals, KeyNoCall, KeyMoves

\* The next round begins at the first slot.
LEMMA KeyNextRound ==
    ASSUME KeyInv, NEW t \in KeyThreads, Keys!NextRound(t)
    PROVE  KeyInv'
  <1>1. round[t] + 1 \in 0..(Rounds - 1) /\ 0 \in 0..Slots
    <2>1. index[t] \in 0..Slots /\ index[t] \in Int /\ round[t] \in 0..(Rounds - 1) /\ KeyRoundOf(t)
      BY KeyLocals
    <2> QED BY <2>1, KeySorts DEF KeyRoundOf, Keys!NextRound, Keys!Stops
  <1>2. FALSE \in BOOLEAN
    BY DEF Keys!Places
  <1>3. misrouted' = FALSE
    BY KeyLocals DEF Keys!NextRound, Keys!Stops
  <1>4. /\ at' = [at EXCEPT ![t] = at[t]]
        /\ round' = [round EXCEPT ![t] = round[t] + 1]
        /\ index' = [index EXCEPT ![t] = 0]
        /\ ranAny' = [ranAny EXCEPT ![t] = FALSE]
        /\ call' = [call EXCEPT ![t] = call[t]]
        /\ UNCHANGED <<used, generations, destructor, keys, values, sets>>
    BY KeySame DEF Keys!NextRound, Keys!Stops
  <1>5. /\ at'[t] = at[t] /\ index'[t] = 0 /\ ranAny'[t] = FALSE
        /\ call'[t] = call[t] /\ values' = values
    BY <1>4 DEF KeyInv, Keys!TypeOK
  <1>6. KeyRoundOf(t)'
    <2>1. KeyRoundOf(t) /\ index[t] \in Int
      BY KeyLocals
    <2> QED BY <1>5, <2>1, KeySorts DEF KeyRoundOf, Keys!NoCall, Keys!NextRound,
               Keys!Stops
  <1> QED BY <1>1, <1>2, <1>3, <1>4, <1>6, KeyLocals, KeyNoCall, KeyMoves

\* The thread is gone.
LEMMA KeyGone ==
    ASSUME KeyInv, NEW t \in KeyThreads, Keys!Gone(t)
    PROVE  KeyInv'
  <1>2. "gone" \in Keys!Places
    BY DEF Keys!Places
  <1>3. misrouted' = FALSE
    BY KeyLocals DEF Keys!Gone, Keys!Stops
  <1>4. /\ at' = [at EXCEPT ![t] = "gone"]
        /\ round' = [round EXCEPT ![t] = round[t]]
        /\ index' = [index EXCEPT ![t] = index[t]]
        /\ ranAny' = [ranAny EXCEPT ![t] = ranAny[t]]
        /\ call' = [call EXCEPT ![t] = call[t]]
        /\ UNCHANGED <<used, generations, destructor, keys, values, sets>>
    BY KeySame DEF Keys!Gone, Keys!Stops
  <1>5. /\ at'[t] = "gone" /\ index'[t] = index[t] /\ ranAny'[t] = ranAny[t]
        /\ call'[t] = call[t] /\ values' = values
    BY <1>4 DEF KeyInv, Keys!TypeOK
  <1>6. KeyRoundOf(t)'
    <2>1. KeyRoundOf(t) /\ index[t] \in Int
      BY KeyLocals
    <2> QED BY <1>5, <2>1, KeySorts DEF KeyRoundOf, Keys!NoCall, Keys!Gone, Keys!Stops
  <1> QED BY <1>2, <1>3, <1>4, <1>6, KeyLocals, KeyNoCall, KeyMoves

\* Every step of the keys keeps KeyInv.
LEMMA KeyStep ==
    ASSUME KeyInv, Keys!Next
    PROVE  KeyInv'
  BY KeyCreate, KeyDelete, KeySet, KeyExit, KeySkip, KeyPick, KeyForget, KeyDestroy,
     KeyDestroyed, KeyNextRound, KeyGone DEF Keys!Next, Keys!ExitStep

\* Without keys KeyInv holds.
LEMMA KeyInit == Keys!Init => KeyInv
  <1> SUFFICES ASSUME Keys!Init PROVE KeyInv
    OBVIOUS
  <1>1. Keys!TypeOK
    <2>1. Keys!Nil \in [generation : 0..(KeyMod - 1), value : 0..MaxKeys]
          /\ Keys!NoCall \in [destructor : 0..MaxKeys, value : 0..MaxKeys]
      BY KeySorts DEF Keys!Nil, Keys!NoCall
    <2>2. /\ used \in [Keys!AllSlots -> BOOLEAN]
          /\ generations \in [Keys!AllSlots -> 0..MaxKeys]
          /\ destructor \in [Keys!AllSlots -> 0..MaxKeys]
      BY KeySorts DEF Keys!Init
    <2>3. /\ at \in [KeyThreads -> Keys!Places]
          /\ round \in [KeyThreads -> 0..(Rounds - 1)]
          /\ index \in [KeyThreads -> 0..Slots]
          /\ ranAny \in [KeyThreads -> BOOLEAN]
          /\ sets \in [KeyThreads -> 0..MaxSets]
      BY KeySorts DEF Keys!Init, Keys!Places
    <2>4. values \in [KeyThreads -> [Keys!AllSlots -> [generation : 0..(KeyMod - 1), value : 0..MaxKeys]]]
      BY <2>1 DEF Keys!Init
    <2>5. call \in [KeyThreads -> [destructor : 0..MaxKeys, value : 0..MaxKeys]]
      BY <2>1 DEF Keys!Init
    <2>6. keys = {} /\ misrouted = FALSE
      BY DEF Keys!Init
    <2> QED BY <2>2, <2>3, <2>4, <2>5, <2>6 DEF Keys!TypeOK
  <1>2. KeyNumbers
    BY KeySorts, FS_EmptySet DEF Keys!Init, KeyNumbers
  <1>3. KeySlots /\ KeyValues /\ KeyRounds /\ Keys!DestructorsGetTheirValues
    BY KeySorts
    DEF Keys!Init, KeySlots, KeyValues, KeyRounds, KeyRoundOf,
        Keys!DestructorsGetTheirValues, Keys!Nil, Keys!NoCall
  <1> QED BY <1>1, <1>2, <1>3 DEF KeyInv

\* KeyInv implies what the keys promise.
LEMMA KeySound ==
    ASSUME KeyInv
    PROVE  /\ Keys!ValuesArePrivate /\ Keys!LiveKeysAreDistinct
           /\ Keys!DestructorsGetTheirValues /\ Keys!NothingLeftBehind
  <1>1. Keys!ValuesArePrivate
    <2> SUFFICES ASSUME NEW t \in KeyThreads, NEW k \in keys, k.live
                 PROVE  Keys!GetSpecific(t, k) \in {0, k.id}
      BY DEF Keys!ValuesArePrivate
    <2>1. k.index \in Keys!AllSlots
      BY DEF KeyInv, Keys!TypeOK
    <2> QED BY <2>1 DEF Keys!GetSpecific, Keys!SameKey, KeyInv, KeyValues, KeyNumbers
  <1>2. Keys!LiveKeysAreDistinct
    BY DEF Keys!LiveKeysAreDistinct, Keys!Deletable, KeyInv, KeySlots, KeyNumbers
  <1>3. Keys!NothingLeftBehind
    BY KeySorts DEF Keys!NothingLeftBehind, KeyInv, KeyRounds, KeyRoundOf, Keys!TypeOK
  <1> QED BY <1>1, <1>2, <1>3 DEF KeyInv

\* Nothing of it changes when the program uses something else.
LEMMA KeysIdle ==
    ASSUME KeyInv, UNCHANGED keyVars
    PROVE  KeyInv'
  <1>1. Keys!TypeOK'
    BY DEF KeyInv, keyVars, Keys!TypeOK
  <1>2. KeyNumbers'
    BY DEF KeyInv, keyVars, KeyNumbers
  <1>3. KeySlots'
    BY DEF KeyInv, keyVars, KeySlots
  <1>4. KeyValues'
    BY DEF KeyInv, keyVars, KeyValues
  <1>5. KeyRounds'
    BY DEF KeyInv, keyVars, KeyRounds, KeyRoundOf
  <1>6. Keys!DestructorsGetTheirValues'
    BY DEF KeyInv, keyVars, Keys!DestructorsGetTheirValues
  <1> QED BY <1>1, <1>2, <1>3, <1>4, <1>5, <1>6 DEF KeyInv

-----------------------------------------------------------------------------
(* The records of the threads *)

\* Every set of numbers that is not empty has a least element.
LEMMA Least ==
    ASSUME NEW T \in SUBSET Nat, T # {}
    PROVE  \E x \in T : \A y \in T : x <= y
  <1> DEFINE below == [n \in Nat |-> {k \in Nat : k < n}]
             U == {below[x] : x \in T}
             R == StrictSubsetOrdering(Nat)
  <1>1. \A n \in Nat : below[n] \in FiniteSubsetsOf(Nat)
    <2> SUFFICES ASSUME NEW n \in Nat PROVE IsFiniteSet(below[n])
      BY DEF FiniteSubsetsOf
    <2>1. below[n] = 0..(n - 1)
      OBVIOUS
    <2>2. IsFiniteSet(0..(n - 1))
      <3>1. 0 \in Int /\ n - 1 \in Int
        OBVIOUS
      <3> QED BY <3>1, FS_Interval
    <2> QED BY <2>1, <2>2
  <1>2. U \subseteq FiniteSubsetsOf(Nat) /\ U # {}
    BY <1>1
  <1>3. PICK u \in U : \A v \in U : ~(<<v, u>> \in R)
    <2> HIDE DEF U, R
    <2>1. IsWellFoundedOn(R, FiniteSubsetsOf(Nat))
      BY FS_StrictSubsetOrderingWellFounded DEF R
    <2> QED BY <1>2, <2>1, WFMin
  <1>4. PICK x \in T : u = below[x]
    OBVIOUS
  <1>5. ASSUME NEW y \in T, y < x
        PROVE  FALSE
    <2>1. below[y] \subseteq below[x] /\ y \in below[x] /\ y \notin below[y]
      BY <1>5
    <2>2. below[y] \subseteq Nat /\ below[x] \subseteq Nat /\ below[y] # below[x]
      BY <2>1
    <2>3. <<below[y], below[x]>> \in R
      BY <2>1, <2>2 DEF StrictSubsetOrdering
    <2> QED BY <1>3, <1>4, <2>3
  <1> QED BY <1>5

LivesReaps == {"reap", "reaping", "reapJoin", "reapFree"}
LivesReapJoins == {"reapJoin", "reapFree"}
LivesJoins == {"join", "joinFree"}
LivesReleases == {"release", "releaseJoin", "released"}

\* Where an actor is says which of its locals are in use.
LivesActors ==
    \A a \in Lives!Actors :
        /\ target[a] # Lives!NoThread <=>
              place[a] \in {"alloc", "spawn", "undo", "store"} \/ after[a] = "alloc"
        /\ after[a] = "alloc" => place[a] \in LivesReaps
        /\ joining[a] # Lives!NoThread <=>
              place[a] \in LivesReapJoins \cup LivesJoins \cup {"releaseJoin"}
        /\ reaping[a] # {} => place[a] \in {"reaping", "reapJoin", "reapFree"}
        /\ place[a] \in LivesReleases => a = Main /\ stopping
        /\ place[a] \in {"join", "reapJoin"} /\ a \in GuestThreads => life[a] = "run"
        /\ place[a] = "join" => a < joining[a]

\* The thread that an actor creates is nobody else's, and how far its creation
\* is shows in its record.
LivesCreation ==
    \A a \in Lives!Actors, t \in GuestThreads : target[a] = t =>
        /\ \A b \in Lives!Actors : target[b] = t => b = a
        /\ ~hostId[t]
        /\ claim[t] \in {"joinable", "detach"}
        /\ record[t] = "none" <=> place[a] \in LivesReaps \cup {"alloc"}
        /\ record[t] # "freed"
        /\ life[t] = "none" <=> place[a] # "store"
        /\ place[a] \in {"spawn", "undo"} /\ claim[t] = "detach" => t \in list

\* What the record, the entry and the flags of a thread say of each other.
LivesRecordOf(t) ==
    /\ life[t] = "none" <=> entry[t] = "none"
    /\ life[t] = "none" => ~hostId[t] /\ ~finished[t]
    /\ record[t] = "none" => life[t] = "none" /\ ~detached[t]
    /\ finished[t] => life[t] \in {"flagged", "ended"}
    /\ t \in list => record[t] = "live" /\ claim[t] = "detach"
    /\ detached[t] => claim[t] = "detach"
    /\ claim[t] = "joinable" /\ life[t] # "none" => record[t] = "live"
    /\ ~stopping /\ life[t] # "none" /\ (claim[t] = "joinable" \/ t \in list) =>
          entry[t] = "mapped"
    /\ entry[t] = "taken" => life[t] = "ended" \/
          \E a \in Lives!Actors :
             joining[a] = t /\ place[a] \in {"join", "reapJoin", "releaseJoin"}
    /\ ~stopping /\ record[t] = "freed" => life[t] \in {"none", "ended"}
LivesRecords == \A t \in GuestThreads : LivesRecordOf(t)

\* Whoever disposes of a record is the only one: an actor that has the thread in
\* its list to reap, or that joins it to reap it, or that joins it in pthread_join.
LivesDisposal ==
    \A a \in Lives!Actors, t \in GuestThreads :
        /\ t \in reaping[a] =>
              /\ record[t] = "live" /\ claim[t] = "detach" /\ t \notin list /\ finished[t]
              /\ ~stopping => entry[t] = "mapped"
              /\ \A b \in Lives!Actors : t \in reaping[b] => b = a
              /\ \A b \in Lives!Actors : place[b] \in LivesReapJoins => joining[b] # t
        /\ joining[a] = t /\ place[a] \in LivesReapJoins =>
              /\ record[t] = "live" /\ claim[t] = "detach" /\ t \notin list /\ finished[t]
              /\ hostId[t]
              /\ \A b \in Lives!Actors : joining[b] = t /\ place[b] \in LivesReapJoins => b = a
        /\ joining[a] = t /\ place[a] \in LivesJoins =>
              /\ record[t] = "live" /\ claim[t] = "join"
              /\ hostId[t]
              /\ \A b \in Lives!Actors : joining[b] = t /\ place[b] \in LivesJoins => b = a
        /\ joining[a] = t /\ place[a] \in {"reapFree", "joinFree"} /\ ~stopping =>
              life[t] = "ended"

\* A detached thread is on the list, or with an actor that reaps it.
LivesKept ==
    \A t \in GuestThreads : detached[t] /\ record[t] = "live" =>
        t \in list \/ \E a \in Lives!Actors :
            t \in reaping[a] \/ (joining[a] = t /\ place[a] \in LivesReapJoins)

LivesInv ==
    /\ Lives!TypeOK
    /\ LivesActors /\ LivesCreation /\ LivesRecords /\ LivesDisposal
    /\ Lives!NoDoubleFree /\ LivesKept
    /\ Lives!ReleaseLeavesNobody

USE DEF Lives!Goto, Lives!recordVars, Lives!hostVars, Lives!actorVars

\* What the actors are.
LEMMA LivesSorts ==
    /\ Lives!Actors = GuestThreads \cup {Main}
    /\ Main \notin GuestThreads
    /\ Lives!NoThread \notin GuestThreads
    /\ GuestThreads \subseteq Nat /\ Main \in Nat
    /\ \A t \in GuestThreads : Main < t
  BY SyncAssumption DEF Lives!ThreadAssumption, Lives!Actors, Lives!NoThread

\* pthread_create chooses a thread that nobody created yet.
LEMMA LivesCreate ==
    ASSUME LivesInv, NEW a \in Lives!Actors, Lives!Create(a)
    PROVE  LivesInv'
  <1>0. PICK t \in GuestThreads, how \in {"joinable", "detach"} :
          /\ record[t] = "none" /\ \A b \in Lives!Actors : target[b] # t
          /\ place[a] = "idle" /\ (a \in GuestThreads => life[a] = "run")
          /\ target' = [target EXCEPT ![a] = t] /\ claim' = [claim EXCEPT ![t] = how]
          /\ after' = [after EXCEPT ![a] = "alloc"] /\ place' = [place EXCEPT ![a] = "reap"]
          /\ UNCHANGED <<record, hostId, finished, detached, list, doubleFree, entry, life,
                         stopping, terminated, reaping, joining>>
    BY LivesSorts DEF Lives!Create, Lives!AfterReap, Lives!Free, Lives!Running
  <1>1. Lives!TypeOK'
    BY <1>0, LivesSorts DEF LivesInv, Lives!TypeOK, Lives!Places, LivesActors
  <1>2. LivesActors'
    BY <1>0, LivesSorts
    DEF LivesInv, Lives!TypeOK, LivesActors, LivesCreation, LivesReaps, LivesReapJoins,
        LivesJoins, LivesReleases
  <1>3. LivesCreation'
    BY <1>0, LivesSorts
    DEF LivesInv, Lives!TypeOK, LivesActors, LivesCreation, LivesRecords, LivesRecordOf,
        LivesDisposal, LivesReaps, LivesReapJoins, LivesJoins, LivesReleases
  <1>4. LivesRecords'
    <2> SUFFICES ASSUME NEW u \in GuestThreads
                 PROVE  LivesRecordOf(u)'
      BY DEF LivesRecords
    <2>1. CASE u = t
      BY <1>0, <2>1, LivesSorts DEF LivesRecordOf, LivesRecords, LivesInv, Lives!TypeOK
    <2>2. CASE u # t
      <3>1. LivesRecordOf(u) /\ claim'[u] = claim[u]
        BY <1>0, <2>2 DEF LivesRecords, LivesInv, Lives!TypeOK
      <3>2. \A b \in Lives!Actors : place[b] \in {"join", "reapJoin", "releaseJoin"} => place'[b] = place[b]
        BY <1>0 DEF LivesInv, Lives!TypeOK
      <3> QED BY <1>0, <3>1, <3>2 DEF LivesRecordOf
    <2> QED BY <2>1, <2>2
  <1>5. LivesDisposal'
    BY <1>0, LivesSorts
    DEF LivesInv, Lives!TypeOK, LivesActors, LivesCreation, LivesRecords, LivesRecordOf,
        LivesDisposal, LivesReaps, LivesReapJoins, LivesJoins, LivesReleases
  <1>6. Lives!NoDoubleFree'
    BY <1>0, LivesSorts
    DEF LivesInv, Lives!TypeOK, LivesActors, LivesCreation, LivesRecords, LivesRecordOf,
        LivesDisposal, Lives!NoDoubleFree, LivesReaps, LivesReapJoins, LivesJoins,
        LivesReleases
  <1>7. LivesKept'
    BY <1>0, LivesSorts
    DEF LivesInv, Lives!TypeOK, LivesActors, LivesCreation, LivesRecords, LivesRecordOf,
        LivesDisposal, LivesKept, LivesReaps, LivesReapJoins, LivesJoins, LivesReleases
  <1>8. Lives!ReleaseLeavesNobody'
    BY <1>0, LivesSorts
    DEF LivesInv, Lives!TypeOK, LivesActors, LivesCreation, LivesRecords, LivesRecordOf,
        Lives!ReleaseLeavesNobody, LivesReaps, LivesReapJoins, LivesJoins, LivesReleases
  <1> QED BY <1>1, <1>2, <1>3, <1>4, <1>5, <1>6, <1>7, <1>8 DEF LivesInv

\* pthread_join takes over the record of a thread that was joinable.
LEMMA LivesJoin ==
    ASSUME LivesInv, NEW a \in Lives!Actors, ~SharesEarly, Lives!Join(a)
    PROVE  LivesInv'
  <1>0. PICK t \in GuestThreads :
          /\ a < t /\ claim[t] = "joinable" /\ life[t] # "none" /\ hostId[t] /\ ~detached[t]
          /\ place[a] = "idle" /\ (a \in GuestThreads => life[a] = "run")
          /\ claim' = [claim EXCEPT ![t] = "join"] /\ joining' = [joining EXCEPT ![a] = t]
          /\ \/ /\ entry[t] = "mapped" /\ entry' = [entry EXCEPT ![t] = "taken"]
                /\ place' = [place EXCEPT ![a] = "join"]
             \/ /\ entry[t] # "mapped" /\ entry' = entry
                /\ place' = [place EXCEPT ![a] = "joinFree"]
          /\ UNCHANGED <<record, hostId, finished, detached, list, doubleFree, life,
                         stopping, terminated, target, reaping, after>>
    BY LivesSorts DEF Lives!Join, Lives!Free, Lives!Running, Lives!Knows
  <1>1. Lives!TypeOK'
    BY <1>0, LivesSorts DEF LivesInv, Lives!TypeOK, Lives!Places, LivesActors
  <1>2. LivesActors'
    BY <1>0, LivesSorts
    DEF LivesInv, Lives!TypeOK, LivesActors, LivesCreation, LivesReaps, LivesReapJoins,
        LivesJoins, LivesReleases
  <1>3. LivesCreation'
    BY <1>0, LivesSorts
    DEF LivesInv, Lives!TypeOK, LivesActors, LivesCreation, LivesRecords, LivesRecordOf,
        LivesDisposal, LivesReaps, LivesReapJoins, LivesJoins, LivesReleases
  <1>4. LivesRecords'
    BY <1>0, LivesSorts
    DEF LivesInv, Lives!TypeOK, LivesActors, LivesCreation, LivesRecords, LivesRecordOf,
        LivesDisposal, LivesReaps, LivesReapJoins, LivesJoins, LivesReleases
  <1>5. LivesDisposal'
    BY <1>0, LivesSorts
    DEF LivesInv, Lives!TypeOK, LivesActors, LivesCreation, LivesRecords, LivesRecordOf,
        LivesDisposal, LivesReaps, LivesReapJoins, LivesJoins, LivesReleases
  <1>6. Lives!NoDoubleFree'
    BY <1>0, LivesSorts
    DEF LivesInv, Lives!TypeOK, LivesActors, LivesCreation, LivesRecords, LivesRecordOf,
        LivesDisposal, Lives!NoDoubleFree, LivesReaps, LivesReapJoins, LivesJoins,
        LivesReleases
  <1>7. LivesKept'
    BY <1>0, LivesSorts
    DEF LivesInv, Lives!TypeOK, LivesActors, LivesCreation, LivesRecords, LivesRecordOf,
        LivesDisposal, LivesKept, LivesReaps, LivesReapJoins, LivesJoins, LivesReleases
  <1>8. Lives!ReleaseLeavesNobody'
    BY <1>0, LivesSorts
    DEF LivesInv, Lives!TypeOK, LivesActors, LivesCreation, LivesRecords, LivesRecordOf,
        Lives!ReleaseLeavesNobody, LivesReaps, LivesReapJoins, LivesJoins, LivesReleases
  <1> QED BY <1>1, <1>2, <1>3, <1>4, <1>5, <1>6, <1>7, <1>8 DEF LivesInv

\* pthread_detach puts the thread on the list.
LEMMA LivesDetach ==
    ASSUME LivesInv, NEW a \in Lives!Actors, ~SharesEarly, Lives!Detach(a)
    PROVE  LivesInv'
  <1>0. PICK t \in GuestThreads :
          /\ claim[t] = "joinable" /\ life[t] # "none" /\ ~detached[t]
          /\ place[a] = "idle" /\ (a \in GuestThreads => life[a] = "run")
          /\ claim' = [claim EXCEPT ![t] = "detach"] /\ detached' = [detached EXCEPT ![t] = TRUE]
          /\ list' = list \cup {t}
          /\ place' = [place EXCEPT ![a] = "idle"] \/ place' = [place EXCEPT ![a] = "reap"]
          /\ UNCHANGED <<record, hostId, finished, doubleFree, entry, life, stopping,
                         terminated, target, reaping, after, joining>>
    BY LivesSorts DEF Lives!Detach, Lives!Free, Lives!Running, Lives!Knows
  <1>1. Lives!TypeOK'
    BY <1>0, LivesSorts DEF LivesInv, Lives!TypeOK, Lives!Places, LivesActors
  <1>2. LivesActors'
    BY <1>0, LivesSorts
    DEF LivesInv, Lives!TypeOK, LivesActors, LivesCreation, LivesReaps, LivesReapJoins,
        LivesJoins, LivesReleases
  <1>3. LivesCreation'
    BY <1>0, LivesSorts
    DEF LivesInv, Lives!TypeOK, LivesActors, LivesCreation, LivesRecords, LivesRecordOf,
        LivesDisposal, LivesReaps, LivesReapJoins, LivesJoins, LivesReleases
  <1>4. LivesRecords'
    BY <1>0, LivesSorts
    DEF LivesInv, Lives!TypeOK, LivesActors, LivesCreation, LivesRecords, LivesRecordOf,
        LivesDisposal, LivesReaps, LivesReapJoins, LivesJoins, LivesReleases
  <1>5. LivesDisposal'
    BY <1>0, LivesSorts
    DEF LivesInv, Lives!TypeOK, LivesActors, LivesCreation, LivesRecords, LivesRecordOf,
        LivesDisposal, LivesReaps, LivesReapJoins, LivesJoins, LivesReleases
  <1>6. Lives!NoDoubleFree'
    BY <1>0, LivesSorts
    DEF LivesInv, Lives!TypeOK, LivesActors, LivesCreation, LivesRecords, LivesRecordOf,
        LivesDisposal, Lives!NoDoubleFree, LivesReaps, LivesReapJoins, LivesJoins,
        LivesReleases
  <1>7. LivesKept'
    BY <1>0, LivesSorts
    DEF LivesInv, Lives!TypeOK, LivesActors, LivesCreation, LivesRecords, LivesRecordOf,
        LivesDisposal, LivesKept, LivesReaps, LivesReapJoins, LivesJoins, LivesReleases
  <1>8. Lives!ReleaseLeavesNobody'
    BY <1>0, LivesSorts
    DEF LivesInv, Lives!TypeOK, LivesActors, LivesCreation, LivesRecords, LivesRecordOf,
        Lives!ReleaseLeavesNobody, LivesReaps, LivesReapJoins, LivesJoins, LivesReleases
  <1> QED BY <1>1, <1>2, <1>3, <1>4, <1>5, <1>6, <1>7, <1>8 DEF LivesInv

\* The finished threads go from the list into the local one.
LEMMA LivesCollect ==
    ASSUME LivesInv, NEW a \in Lives!Actors, Lives!Collect(a)
    PROVE  LivesInv'
  <1>1. Lives!TypeOK'
    BY LivesSorts
    DEF LivesInv, Lives!TypeOK, Lives!Places, LivesActors, Lives!Collect,
        Lives!Unlinked, Lives!Running
  <1>2. LivesActors'
    BY LivesSorts
    DEF LivesInv, Lives!TypeOK, LivesActors, LivesCreation, LivesReaps, LivesReapJoins,
        LivesJoins, LivesReleases, Lives!Collect, Lives!Unlinked, Lives!Running
  <1>3. LivesCreation'
    BY LivesSorts
    DEF LivesInv, Lives!TypeOK, LivesActors, LivesCreation, LivesRecords, LivesRecordOf,
        LivesDisposal, LivesReaps, LivesReapJoins, LivesJoins, LivesReleases,
        Lives!Collect, Lives!Unlinked, Lives!Running
  <1>4. LivesRecords'
    BY LivesSorts
    DEF LivesInv, Lives!TypeOK, LivesActors, LivesCreation, LivesRecords, LivesRecordOf,
        LivesDisposal, LivesReaps, LivesReapJoins, LivesJoins, LivesReleases,
        Lives!Collect, Lives!Unlinked, Lives!Running
  <1>5. LivesDisposal'
    BY LivesSorts
    DEF LivesInv, Lives!TypeOK, LivesActors, LivesCreation, LivesRecords, LivesRecordOf,
        LivesDisposal, LivesReaps, LivesReapJoins, LivesJoins, LivesReleases,
        Lives!Collect, Lives!Unlinked, Lives!Running
  <1>6. Lives!NoDoubleFree'
    BY LivesSorts
    DEF LivesInv, Lives!TypeOK, LivesActors, LivesCreation, LivesRecords, LivesRecordOf,
        LivesDisposal, Lives!NoDoubleFree, LivesReaps, LivesReapJoins, LivesJoins,
        LivesReleases, Lives!Collect, Lives!Unlinked, Lives!Running
  <1>7. LivesKept'
    BY LivesSorts
    DEF LivesInv, Lives!TypeOK, LivesActors, LivesCreation, LivesRecords, LivesRecordOf,
        LivesDisposal, LivesKept, LivesReaps, LivesReapJoins, LivesJoins, LivesReleases,
        Lives!Collect, Lives!Unlinked, Lives!Running
  <1>8. Lives!ReleaseLeavesNobody'
    BY LivesSorts
    DEF LivesInv, Lives!TypeOK, LivesActors, LivesCreation, LivesRecords, LivesRecordOf,
        Lives!ReleaseLeavesNobody, LivesReaps, LivesReapJoins, LivesJoins,
        LivesReleases, Lives!Collect, Lives!Unlinked, Lives!Running
  <1> QED BY <1>1, <1>2, <1>3, <1>4, <1>5, <1>6, <1>7, <1>8 DEF LivesInv

\* The next thread to reap goes from the local list to the join.
LEMMA LivesReapNext ==
    ASSUME LivesInv, NEW a \in Lives!Actors, Lives!ReapNext(a)
    PROVE  LivesInv'
  <1>0. PICK t \in reaping[a] :
          /\ hostId[t] /\ place[a] = "reaping" /\ (a \in GuestThreads => life[a] = "run")
          /\ joining' = [joining EXCEPT ![a] = t] /\ reaping' = [reaping EXCEPT ![a] = @ \ {t}]
          /\ \/ /\ entry[t] = "mapped" /\ entry' = [entry EXCEPT ![t] = "taken"]
                /\ place' = [place EXCEPT ![a] = "reapJoin"]
             \/ /\ entry[t] # "mapped" /\ entry' = entry
                /\ place' = [place EXCEPT ![a] = "reapFree"]
          /\ UNCHANGED <<record, hostId, finished, detached, list, doubleFree, life,
                         stopping, terminated, target, after, claim>>
    BY LivesSorts DEF Lives!ReapNext, Lives!Running, Lives!IdKnown
  <1>1. Lives!TypeOK'
    BY <1>0, LivesSorts DEF LivesInv, Lives!TypeOK, Lives!Places, LivesActors
  <1>2. LivesActors'
    BY <1>0, LivesSorts
    DEF LivesInv, Lives!TypeOK, LivesActors, LivesCreation, LivesReaps, LivesReapJoins,
        LivesJoins, LivesReleases
  <1>3. LivesCreation'
    BY <1>0, LivesSorts
    DEF LivesInv, Lives!TypeOK, LivesActors, LivesCreation, LivesRecords, LivesRecordOf,
        LivesDisposal, LivesReaps, LivesReapJoins, LivesJoins, LivesReleases
  <1>4. LivesRecords'
    BY <1>0, LivesSorts
    DEF LivesInv, Lives!TypeOK, LivesActors, LivesCreation, LivesRecords, LivesRecordOf,
        LivesDisposal, LivesReaps, LivesReapJoins, LivesJoins, LivesReleases
  <1>5. LivesDisposal'
    BY <1>0, LivesSorts
    DEF LivesInv, Lives!TypeOK, LivesActors, LivesCreation, LivesRecords, LivesRecordOf,
        LivesDisposal, LivesReaps, LivesReapJoins, LivesJoins, LivesReleases
  <1>6. Lives!NoDoubleFree'
    BY <1>0, LivesSorts
    DEF LivesInv, Lives!TypeOK, LivesActors, LivesCreation, LivesRecords, LivesRecordOf,
        LivesDisposal, Lives!NoDoubleFree, LivesReaps, LivesReapJoins, LivesJoins,
        LivesReleases
  <1>7. LivesKept'
    BY <1>0, LivesSorts
    DEF LivesInv, Lives!TypeOK, LivesActors, LivesCreation, LivesRecords, LivesRecordOf,
        LivesDisposal, LivesKept, LivesReaps, LivesReapJoins, LivesJoins, LivesReleases
  <1>8. Lives!ReleaseLeavesNobody'
    BY <1>0, LivesSorts
    DEF LivesInv, Lives!TypeOK, LivesActors, LivesCreation, LivesRecords, LivesRecordOf,
        Lives!ReleaseLeavesNobody, LivesReaps, LivesReapJoins, LivesJoins, LivesReleases
  <1> QED BY <1>1, <1>2, <1>3, <1>4, <1>5, <1>6, <1>7, <1>8 DEF LivesInv

\* The thread to reap is over.
LEMMA LivesReapJoined ==
    ASSUME LivesInv, NEW a \in Lives!Actors, Lives!ReapJoined(a)
    PROVE  LivesInv'
  <1>1. Lives!TypeOK'
    BY LivesSorts
    DEF LivesInv, Lives!TypeOK, Lives!Places, LivesActors, Lives!ReapJoined, Lives!Over
  <1>2. LivesActors'
    BY LivesSorts
    DEF LivesInv, Lives!TypeOK, LivesActors, LivesCreation, LivesReaps, LivesReapJoins,
        LivesJoins, LivesReleases, Lives!ReapJoined, Lives!Over
  <1>3. LivesCreation'
    BY LivesSorts
    DEF LivesInv, Lives!TypeOK, LivesActors, LivesCreation, LivesRecords, LivesRecordOf,
        LivesDisposal, LivesReaps, LivesReapJoins, LivesJoins, LivesReleases,
        Lives!ReapJoined, Lives!Over
  <1>4. LivesRecords'
    BY LivesSorts
    DEF LivesInv, Lives!TypeOK, LivesActors, LivesCreation, LivesRecords, LivesRecordOf,
        LivesDisposal, LivesReaps, LivesReapJoins, LivesJoins, LivesReleases,
        Lives!ReapJoined, Lives!Over
  <1>5. LivesDisposal'
    BY LivesSorts
    DEF LivesInv, Lives!TypeOK, LivesActors, LivesCreation, LivesRecords, LivesRecordOf,
        LivesDisposal, LivesReaps, LivesReapJoins, LivesJoins, LivesReleases,
        Lives!ReapJoined, Lives!Over
  <1>6. Lives!NoDoubleFree'
    BY LivesSorts
    DEF LivesInv, Lives!TypeOK, LivesActors, LivesCreation, LivesRecords, LivesRecordOf,
        LivesDisposal, Lives!NoDoubleFree, LivesReaps, LivesReapJoins, LivesJoins,
        LivesReleases, Lives!ReapJoined, Lives!Over
  <1>7. LivesKept'
    BY LivesSorts
    DEF LivesInv, Lives!TypeOK, LivesActors, LivesCreation, LivesRecords, LivesRecordOf,
        LivesDisposal, LivesKept, LivesReaps, LivesReapJoins, LivesJoins, LivesReleases,
        Lives!ReapJoined, Lives!Over
  <1>8. Lives!ReleaseLeavesNobody'
    BY LivesSorts
    DEF LivesInv, Lives!TypeOK, LivesActors, LivesCreation, LivesRecords, LivesRecordOf,
        Lives!ReleaseLeavesNobody, LivesReaps, LivesReapJoins, LivesJoins,
        LivesReleases, Lives!ReapJoined, Lives!Over
  <1> QED BY <1>1, <1>2, <1>3, <1>4, <1>5, <1>6, <1>7, <1>8 DEF LivesInv

\* The record of a reaped thread is freed by the only actor that had it.
LEMMA LivesReapFree ==
    ASSUME LivesInv, NEW a \in Lives!Actors, Lives!ReapFree(a)
    PROVE  LivesInv'
  <1>1. Lives!TypeOK'
    BY LivesSorts
    DEF LivesInv, Lives!TypeOK, Lives!Places, LivesActors, Lives!ReapFree,
        Lives!Running, Lives!FreeRecord
  <1>2. LivesActors'
    BY LivesSorts
    DEF LivesInv, Lives!TypeOK, LivesActors, LivesCreation, LivesReaps, LivesReapJoins,
        LivesJoins, LivesReleases, Lives!ReapFree, Lives!Running, Lives!FreeRecord
  <1>3. LivesCreation'
    BY LivesSorts
    DEF LivesInv, Lives!TypeOK, LivesActors, LivesCreation, LivesRecords, LivesRecordOf,
        LivesDisposal, LivesReaps, LivesReapJoins, LivesJoins, LivesReleases,
        Lives!ReapFree, Lives!Running, Lives!FreeRecord
  <1>4. LivesRecords'
    BY LivesSorts
    DEF LivesInv, Lives!TypeOK, LivesActors, LivesCreation, LivesRecords, LivesRecordOf,
        LivesDisposal, LivesReaps, LivesReapJoins, LivesJoins, LivesReleases,
        Lives!ReapFree, Lives!Running, Lives!FreeRecord
  <1>5. LivesDisposal'
    BY LivesSorts
    DEF LivesInv, Lives!TypeOK, LivesActors, LivesCreation, LivesRecords, LivesRecordOf,
        LivesDisposal, LivesReaps, LivesReapJoins, LivesJoins, LivesReleases,
        Lives!ReapFree, Lives!Running, Lives!FreeRecord
  <1>6. Lives!NoDoubleFree'
    <2>1. joining[a] \in GuestThreads
      BY DEF LivesInv, Lives!TypeOK, LivesActors, LivesReaps, LivesReapJoins,
             LivesJoins, LivesReleases, Lives!ReapFree
    <2>2. record[joining[a]] = "live"
      BY <2>1
      DEF LivesInv, Lives!TypeOK, LivesCreation, LivesDisposal, LivesReaps,
          LivesReapJoins, LivesJoins, LivesReleases, Lives!ReapFree
    <2>3. Lives!FreeRecord(joining[a])
      BY DEF Lives!ReapFree
    <2> QED BY <2>2, <2>3 DEF LivesInv, Lives!NoDoubleFree, Lives!FreeRecord
  <1>7. LivesKept'
    BY LivesSorts
    DEF LivesInv, Lives!TypeOK, LivesActors, LivesCreation, LivesRecords, LivesRecordOf,
        LivesDisposal, LivesKept, LivesReaps, LivesReapJoins, LivesJoins, LivesReleases,
        Lives!ReapFree, Lives!Running, Lives!FreeRecord
  <1>8. Lives!ReleaseLeavesNobody'
    BY LivesSorts
    DEF LivesInv, Lives!TypeOK, LivesActors, LivesCreation, LivesRecords, LivesRecordOf,
        Lives!ReleaseLeavesNobody, LivesReaps, LivesReapJoins, LivesJoins,
        LivesReleases, Lives!ReapFree, Lives!Running, Lives!FreeRecord
  <1> QED BY <1>1, <1>2, <1>3, <1>4, <1>5, <1>6, <1>7, <1>8 DEF LivesInv

\* Nothing is left to reap.
LEMMA LivesReaped ==
    ASSUME LivesInv, NEW a \in Lives!Actors, Lives!Reaped(a)
    PROVE  LivesInv'
  <1>1. Lives!TypeOK'
    BY LivesSorts
    DEF LivesInv, Lives!TypeOK, Lives!Places, LivesActors, Lives!Reaped, Lives!Running
  <1>2. LivesActors'
    BY LivesSorts
    DEF LivesInv, Lives!TypeOK, LivesActors, LivesCreation, LivesReaps, LivesReapJoins,
        LivesJoins, LivesReleases, Lives!Reaped, Lives!Running
  <1>3. LivesCreation'
    BY LivesSorts
    DEF LivesInv, Lives!TypeOK, LivesActors, LivesCreation, LivesRecords, LivesRecordOf,
        LivesDisposal, LivesReaps, LivesReapJoins, LivesJoins, LivesReleases,
        Lives!Reaped, Lives!Running
  <1>4. LivesRecords'
    BY LivesSorts
    DEF LivesInv, Lives!TypeOK, LivesActors, LivesCreation, LivesRecords, LivesRecordOf,
        LivesDisposal, LivesReaps, LivesReapJoins, LivesJoins, LivesReleases,
        Lives!Reaped, Lives!Running
  <1>5. LivesDisposal'
    BY LivesSorts
    DEF LivesInv, Lives!TypeOK, LivesActors, LivesCreation, LivesRecords, LivesRecordOf,
        LivesDisposal, LivesReaps, LivesReapJoins, LivesJoins, LivesReleases,
        Lives!Reaped, Lives!Running
  <1>6. Lives!NoDoubleFree'
    BY LivesSorts
    DEF LivesInv, Lives!TypeOK, LivesActors, LivesCreation, LivesRecords, LivesRecordOf,
        LivesDisposal, Lives!NoDoubleFree, LivesReaps, LivesReapJoins, LivesJoins,
        LivesReleases, Lives!Reaped, Lives!Running
  <1>7. LivesKept'
    BY LivesSorts
    DEF LivesInv, Lives!TypeOK, LivesActors, LivesCreation, LivesRecords, LivesRecordOf,
        LivesDisposal, LivesKept, LivesReaps, LivesReapJoins, LivesJoins, LivesReleases,
        Lives!Reaped, Lives!Running
  <1>8. Lives!ReleaseLeavesNobody'
    BY LivesSorts
    DEF LivesInv, Lives!TypeOK, LivesActors, LivesCreation, LivesRecords, LivesRecordOf,
        Lives!ReleaseLeavesNobody, LivesReaps, LivesReapJoins, LivesJoins,
        LivesReleases, Lives!Reaped, Lives!Running
  <1> QED BY <1>1, <1>2, <1>3, <1>4, <1>5, <1>6, <1>7, <1>8 DEF LivesInv

\* The record is there before the thread is.
LEMMA LivesAllocate ==
    ASSUME LivesInv, NEW a \in Lives!Actors, Lives!Allocate(a)
    PROVE  LivesInv'
  <1>1. Lives!TypeOK'
    <2>1. target[a] \in GuestThreads
      BY DEF Lives!Allocate, LivesInv, Lives!TypeOK, LivesActors
    <2>2. detached' \in [GuestThreads -> BOOLEAN] /\ list' \subseteq GuestThreads
      BY <2>1 DEF Lives!Allocate, LivesInv, Lives!TypeOK
    <2> QED BY <2>1, <2>2 DEF Lives!Allocate, LivesInv, Lives!TypeOK, Lives!Places
  <1>2. LivesActors'
    BY LivesSorts
    DEF LivesInv, Lives!TypeOK, LivesActors, LivesCreation, LivesReaps, LivesReapJoins,
        LivesJoins, LivesReleases, Lives!Allocate, Lives!Running
  <1>3. LivesCreation'
    BY LivesSorts
    DEF LivesInv, Lives!TypeOK, LivesActors, LivesCreation, LivesRecords, LivesRecordOf,
        LivesDisposal, LivesReaps, LivesReapJoins, LivesJoins, LivesReleases,
        Lives!Allocate, Lives!Running
  <1>4. LivesRecords'
    BY LivesSorts
    DEF LivesInv, Lives!TypeOK, LivesActors, LivesCreation, LivesRecords, LivesRecordOf,
        LivesDisposal, LivesReaps, LivesReapJoins, LivesJoins, LivesReleases,
        Lives!Allocate, Lives!Running
  <1>5. LivesDisposal'
    BY LivesSorts
    DEF LivesInv, Lives!TypeOK, LivesActors, LivesCreation, LivesRecords, LivesRecordOf,
        LivesDisposal, LivesReaps, LivesReapJoins, LivesJoins, LivesReleases,
        Lives!Allocate, Lives!Running
  <1>6. Lives!NoDoubleFree'
    BY LivesSorts
    DEF LivesInv, Lives!TypeOK, LivesActors, LivesCreation, LivesRecords, LivesRecordOf,
        LivesDisposal, Lives!NoDoubleFree, LivesReaps, LivesReapJoins, LivesJoins,
        LivesReleases, Lives!Allocate, Lives!Running
  <1>7. LivesKept'
    BY LivesSorts
    DEF LivesInv, Lives!TypeOK, LivesActors, LivesCreation, LivesRecords, LivesRecordOf,
        LivesDisposal, LivesKept, LivesReaps, LivesReapJoins, LivesJoins, LivesReleases,
        Lives!Allocate, Lives!Running
  <1>8. Lives!ReleaseLeavesNobody'
    BY LivesSorts
    DEF LivesInv, Lives!TypeOK, LivesActors, LivesCreation, LivesRecords, LivesRecordOf,
        Lives!ReleaseLeavesNobody, LivesReaps, LivesReapJoins, LivesJoins,
        LivesReleases, Lives!Allocate, Lives!Running
  <1> QED BY <1>1, <1>2, <1>3, <1>4, <1>5, <1>6, <1>7, <1>8 DEF LivesInv

\* The thread is given up.
LEMMA LivesAllocateFails ==
    ASSUME LivesInv, NEW a \in Lives!Actors, Lives!AllocateFails(a)
    PROVE  LivesInv'
  <1>1. Lives!TypeOK'
    BY LivesSorts
    DEF LivesInv, Lives!TypeOK, Lives!Places, LivesActors, Lives!AllocateFails,
        Lives!Running
  <1>2. LivesActors'
    BY LivesSorts
    DEF LivesInv, Lives!TypeOK, LivesActors, LivesCreation, LivesReaps, LivesReapJoins,
        LivesJoins, LivesReleases, Lives!AllocateFails, Lives!Running
  <1>3. LivesCreation'
    BY LivesSorts
    DEF LivesInv, Lives!TypeOK, LivesActors, LivesCreation, LivesRecords, LivesRecordOf,
        LivesDisposal, LivesReaps, LivesReapJoins, LivesJoins, LivesReleases,
        Lives!AllocateFails, Lives!Running
  <1>4. LivesRecords'
    <2>0. PICK t \in GuestThreads : target[a] = t /\ life[t] = "none" /\ record[t] = "none"
      BY DEF Lives!AllocateFails, LivesInv, Lives!TypeOK, LivesActors, LivesCreation
    <2>1. /\ claim' = [claim EXCEPT ![t] = "none"] /\ place[a] = "alloc"
          /\ place' = [place EXCEPT ![a] = "idle"]
          /\ UNCHANGED <<record, hostId, finished, detached, list, entry, life, stopping, joining>>
      BY <2>0 DEF Lives!AllocateFails
    <2> SUFFICES ASSUME NEW u \in GuestThreads
                 PROVE  LivesRecordOf(u)'
      BY DEF LivesRecords
    <2>2. \A b \in Lives!Actors : place[b] \in {"join", "reapJoin", "releaseJoin"} => place'[b] = place[b]
      BY <2>1 DEF LivesInv, Lives!TypeOK
    <2>3. LivesRecordOf(u) /\ (u # t => claim'[u] = claim[u]) /\ claim'[t] = "none" /\ (u = t => ~detached[u] /\ u \notin list)
      BY <2>0, <2>1 DEF LivesRecords, LivesRecordOf, LivesInv, Lives!TypeOK
    <2> QED BY <2>0, <2>1, <2>2, <2>3 DEF LivesRecordOf
  <1>5. LivesDisposal'
    BY LivesSorts
    DEF LivesInv, Lives!TypeOK, LivesActors, LivesCreation, LivesRecords, LivesRecordOf,
        LivesDisposal, LivesReaps, LivesReapJoins, LivesJoins, LivesReleases,
        Lives!AllocateFails, Lives!Running
  <1>6. Lives!NoDoubleFree'
    BY LivesSorts
    DEF LivesInv, Lives!TypeOK, LivesActors, LivesCreation, LivesRecords, LivesRecordOf,
        LivesDisposal, Lives!NoDoubleFree, LivesReaps, LivesReapJoins, LivesJoins,
        LivesReleases, Lives!AllocateFails, Lives!Running
  <1>7. LivesKept'
    BY LivesSorts
    DEF LivesInv, Lives!TypeOK, LivesActors, LivesCreation, LivesRecords, LivesRecordOf,
        LivesDisposal, LivesKept, LivesReaps, LivesReapJoins, LivesJoins, LivesReleases,
        Lives!AllocateFails, Lives!Running
  <1>8. Lives!ReleaseLeavesNobody'
    BY LivesSorts
    DEF LivesInv, Lives!TypeOK, LivesActors, LivesCreation, LivesRecords, LivesRecordOf,
        Lives!ReleaseLeavesNobody, LivesReaps, LivesReapJoins, LivesJoins,
        LivesReleases, Lives!AllocateFails, Lives!Running
  <1> QED BY <1>1, <1>2, <1>3, <1>4, <1>5, <1>6, <1>7, <1>8 DEF LivesInv

\* The thread runs, and its entry is mapped.
LEMMA LivesSpawn ==
    ASSUME LivesInv, NEW a \in Lives!Actors, Lives!Spawn(a)
    PROVE  LivesInv'
  <1>1. Lives!TypeOK'
    BY LivesSorts
    DEF LivesInv, Lives!TypeOK, Lives!Places, LivesActors, Lives!Spawn, Lives!Running
  <1>2. LivesActors'
    BY LivesSorts
    DEF LivesInv, Lives!TypeOK, LivesActors, LivesCreation, LivesReaps, LivesReapJoins,
        LivesJoins, LivesReleases, Lives!Spawn, Lives!Running
  <1>3. LivesCreation'
    BY LivesSorts
    DEF LivesInv, Lives!TypeOK, LivesActors, LivesCreation, LivesRecords, LivesRecordOf,
        LivesDisposal, LivesReaps, LivesReapJoins, LivesJoins, LivesReleases,
        Lives!Spawn, Lives!Running
  <1>4. LivesRecords'
    BY LivesSorts
    DEF LivesInv, Lives!TypeOK, LivesActors, LivesCreation, LivesRecords, LivesRecordOf,
        LivesDisposal, LivesReaps, LivesReapJoins, LivesJoins, LivesReleases,
        Lives!Spawn, Lives!Running
  <1>5. LivesDisposal'
    BY LivesSorts
    DEF LivesInv, Lives!TypeOK, LivesActors, LivesCreation, LivesRecords, LivesRecordOf,
        LivesDisposal, LivesReaps, LivesReapJoins, LivesJoins, LivesReleases,
        Lives!Spawn, Lives!Running
  <1>6. Lives!NoDoubleFree'
    BY LivesSorts
    DEF LivesInv, Lives!TypeOK, LivesActors, LivesCreation, LivesRecords, LivesRecordOf,
        LivesDisposal, Lives!NoDoubleFree, LivesReaps, LivesReapJoins, LivesJoins,
        LivesReleases, Lives!Spawn, Lives!Running
  <1>7. LivesKept'
    BY LivesSorts
    DEF LivesInv, Lives!TypeOK, LivesActors, LivesCreation, LivesRecords, LivesRecordOf,
        LivesDisposal, LivesKept, LivesReaps, LivesReapJoins, LivesJoins, LivesReleases,
        Lives!Spawn, Lives!Running
  <1>8. Lives!ReleaseLeavesNobody'
    BY LivesSorts
    DEF LivesInv, Lives!TypeOK, LivesActors, LivesCreation, LivesRecords, LivesRecordOf,
        Lives!ReleaseLeavesNobody, LivesReaps, LivesReapJoins, LivesJoins,
        LivesReleases, Lives!Spawn, Lives!Running
  <1> QED BY <1>1, <1>2, <1>3, <1>4, <1>5, <1>6, <1>7, <1>8 DEF LivesInv

\* No thread was started.
LEMMA LivesSpawnFails ==
    ASSUME LivesInv, NEW a \in Lives!Actors, Lives!SpawnFails(a)
    PROVE  LivesInv'
  <1>1. Lives!TypeOK'
    BY LivesSorts
    DEF LivesInv, Lives!TypeOK, Lives!Places, LivesActors, Lives!SpawnFails,
        Lives!Running
  <1>2. LivesActors'
    BY LivesSorts
    DEF LivesInv, Lives!TypeOK, LivesActors, LivesCreation, LivesReaps, LivesReapJoins,
        LivesJoins, LivesReleases, Lives!SpawnFails, Lives!Running
  <1>3. LivesCreation'
    BY LivesSorts
    DEF LivesInv, Lives!TypeOK, LivesActors, LivesCreation, LivesRecords, LivesRecordOf,
        LivesDisposal, LivesReaps, LivesReapJoins, LivesJoins, LivesReleases,
        Lives!SpawnFails, Lives!Running
  <1>4. LivesRecords'
    BY LivesSorts
    DEF LivesInv, Lives!TypeOK, LivesActors, LivesCreation, LivesRecords, LivesRecordOf,
        LivesDisposal, LivesReaps, LivesReapJoins, LivesJoins, LivesReleases,
        Lives!SpawnFails, Lives!Running
  <1>5. LivesDisposal'
    BY LivesSorts
    DEF LivesInv, Lives!TypeOK, LivesActors, LivesCreation, LivesRecords, LivesRecordOf,
        LivesDisposal, LivesReaps, LivesReapJoins, LivesJoins, LivesReleases,
        Lives!SpawnFails, Lives!Running
  <1>6. Lives!NoDoubleFree'
    BY LivesSorts
    DEF LivesInv, Lives!TypeOK, LivesActors, LivesCreation, LivesRecords, LivesRecordOf,
        LivesDisposal, Lives!NoDoubleFree, LivesReaps, LivesReapJoins, LivesJoins,
        LivesReleases, Lives!SpawnFails, Lives!Running
  <1>7. LivesKept'
    BY LivesSorts
    DEF LivesInv, Lives!TypeOK, LivesActors, LivesCreation, LivesRecords, LivesRecordOf,
        LivesDisposal, LivesKept, LivesReaps, LivesReapJoins, LivesJoins, LivesReleases,
        Lives!SpawnFails, Lives!Running
  <1>8. Lives!ReleaseLeavesNobody'
    BY LivesSorts
    DEF LivesInv, Lives!TypeOK, LivesActors, LivesCreation, LivesRecords, LivesRecordOf,
        Lives!ReleaseLeavesNobody, LivesReaps, LivesReapJoins, LivesJoins,
        LivesReleases, Lives!SpawnFails, Lives!Running
  <1> QED BY <1>1, <1>2, <1>3, <1>4, <1>5, <1>6, <1>7, <1>8 DEF LivesInv

\* The record of a thread that did not start is freed.
LEMMA LivesUndo ==
    ASSUME LivesInv, NEW a \in Lives!Actors, Lives!Undo(a)
    PROVE  LivesInv'
  <1>1. Lives!TypeOK'
    BY LivesSorts
    DEF LivesInv, Lives!TypeOK, Lives!Places, LivesActors, Lives!Undo, Lives!Running,
        Lives!FreeRecord
  <1>2. LivesActors'
    BY LivesSorts
    DEF LivesInv, Lives!TypeOK, LivesActors, LivesCreation, LivesReaps, LivesReapJoins,
        LivesJoins, LivesReleases, Lives!Undo, Lives!Running, Lives!FreeRecord
  <1>3. LivesCreation'
    BY LivesSorts
    DEF LivesInv, Lives!TypeOK, LivesActors, LivesCreation, LivesRecords, LivesRecordOf,
        LivesDisposal, LivesReaps, LivesReapJoins, LivesJoins, LivesReleases,
        Lives!Undo, Lives!Running, Lives!FreeRecord
  <1>4. LivesRecords'
    BY LivesSorts
    DEF LivesInv, Lives!TypeOK, LivesActors, LivesCreation, LivesRecords, LivesRecordOf,
        LivesDisposal, LivesReaps, LivesReapJoins, LivesJoins, LivesReleases,
        Lives!Undo, Lives!Running, Lives!FreeRecord
  <1>5. LivesDisposal'
    BY LivesSorts
    DEF LivesInv, Lives!TypeOK, LivesActors, LivesCreation, LivesRecords, LivesRecordOf,
        LivesDisposal, LivesReaps, LivesReapJoins, LivesJoins, LivesReleases,
        Lives!Undo, Lives!Running, Lives!FreeRecord
  <1>6. Lives!NoDoubleFree'
    <2>1. target[a] \in GuestThreads
      BY DEF LivesInv, Lives!TypeOK, LivesActors, LivesReaps, LivesReapJoins,
             LivesJoins, LivesReleases, Lives!Undo
    <2>2. record[target[a]] = "live"
      BY <2>1, SMTT(30)
      DEF LivesInv, Lives!TypeOK, LivesCreation, LivesDisposal, LivesReaps,
          LivesReapJoins, LivesJoins, LivesReleases, Lives!Undo
    <2>3. Lives!FreeRecord(target[a])
      BY DEF Lives!Undo
    <2> QED BY <2>2, <2>3 DEF LivesInv, Lives!NoDoubleFree, Lives!FreeRecord
  <1>7. LivesKept'
    BY LivesSorts
    DEF LivesInv, Lives!TypeOK, LivesActors, LivesCreation, LivesRecords, LivesRecordOf,
        LivesDisposal, LivesKept, LivesReaps, LivesReapJoins, LivesJoins, LivesReleases,
        Lives!Undo, Lives!Running, Lives!FreeRecord
  <1>8. Lives!ReleaseLeavesNobody'
    BY LivesSorts
    DEF LivesInv, Lives!TypeOK, LivesActors, LivesCreation, LivesRecords, LivesRecordOf,
        Lives!ReleaseLeavesNobody, LivesReaps, LivesReapJoins, LivesJoins,
        LivesReleases, Lives!Undo, Lives!Running, Lives!FreeRecord
  <1> QED BY <1>1, <1>2, <1>3, <1>4, <1>5, <1>6, <1>7, <1>8 DEF LivesInv

\* The creator is done with the record.
LEMMA LivesStoreId ==
    ASSUME LivesInv, NEW a \in Lives!Actors, Lives!StoreId(a)
    PROVE  LivesInv'
  <1>1. Lives!TypeOK'
    BY LivesSorts
    DEF LivesInv, Lives!TypeOK, Lives!Places, LivesActors, Lives!StoreId, Lives!Running
  <1>2. LivesActors'
    BY LivesSorts
    DEF LivesInv, Lives!TypeOK, LivesActors, LivesCreation, LivesReaps, LivesReapJoins,
        LivesJoins, LivesReleases, Lives!StoreId, Lives!Running
  <1>3. LivesCreation'
    BY LivesSorts
    DEF LivesInv, Lives!TypeOK, LivesActors, LivesCreation, LivesRecords, LivesRecordOf,
        LivesDisposal, LivesReaps, LivesReapJoins, LivesJoins, LivesReleases,
        Lives!StoreId, Lives!Running
  <1>4. LivesRecords'
    BY LivesSorts
    DEF LivesInv, Lives!TypeOK, LivesActors, LivesCreation, LivesRecords, LivesRecordOf,
        LivesDisposal, LivesReaps, LivesReapJoins, LivesJoins, LivesReleases,
        Lives!StoreId, Lives!Running
  <1>5. LivesDisposal'
    BY LivesSorts
    DEF LivesInv, Lives!TypeOK, LivesActors, LivesCreation, LivesRecords, LivesRecordOf,
        LivesDisposal, LivesReaps, LivesReapJoins, LivesJoins, LivesReleases,
        Lives!StoreId, Lives!Running
  <1>6. Lives!NoDoubleFree'
    BY LivesSorts
    DEF LivesInv, Lives!TypeOK, LivesActors, LivesCreation, LivesRecords, LivesRecordOf,
        LivesDisposal, Lives!NoDoubleFree, LivesReaps, LivesReapJoins, LivesJoins,
        LivesReleases, Lives!StoreId, Lives!Running
  <1>7. LivesKept'
    BY LivesSorts
    DEF LivesInv, Lives!TypeOK, LivesActors, LivesCreation, LivesRecords, LivesRecordOf,
        LivesDisposal, LivesKept, LivesReaps, LivesReapJoins, LivesJoins, LivesReleases,
        Lives!StoreId, Lives!Running
  <1>8. Lives!ReleaseLeavesNobody'
    BY LivesSorts
    DEF LivesInv, Lives!TypeOK, LivesActors, LivesCreation, LivesRecords, LivesRecordOf,
        Lives!ReleaseLeavesNobody, LivesReaps, LivesReapJoins, LivesJoins,
        LivesReleases, Lives!StoreId, Lives!Running
  <1> QED BY <1>1, <1>2, <1>3, <1>4, <1>5, <1>6, <1>7, <1>8 DEF LivesInv

\* The joined thread is over.
LEMMA LivesJoined ==
    ASSUME LivesInv, NEW a \in Lives!Actors, Lives!Joined(a)
    PROVE  LivesInv'
  <1>1. Lives!TypeOK'
    BY LivesSorts
    DEF LivesInv, Lives!TypeOK, Lives!Places, LivesActors, Lives!Joined, Lives!Over
  <1>2. LivesActors'
    BY LivesSorts
    DEF LivesInv, Lives!TypeOK, LivesActors, LivesCreation, LivesReaps, LivesReapJoins,
        LivesJoins, LivesReleases, Lives!Joined, Lives!Over
  <1>3. LivesCreation'
    BY LivesSorts
    DEF LivesInv, Lives!TypeOK, LivesActors, LivesCreation, LivesRecords, LivesRecordOf,
        LivesDisposal, LivesReaps, LivesReapJoins, LivesJoins, LivesReleases,
        Lives!Joined, Lives!Over
  <1>4. LivesRecords'
    BY LivesSorts
    DEF LivesInv, Lives!TypeOK, LivesActors, LivesCreation, LivesRecords, LivesRecordOf,
        LivesDisposal, LivesReaps, LivesReapJoins, LivesJoins, LivesReleases,
        Lives!Joined, Lives!Over
  <1>5. LivesDisposal'
    BY LivesSorts
    DEF LivesInv, Lives!TypeOK, LivesActors, LivesCreation, LivesRecords, LivesRecordOf,
        LivesDisposal, LivesReaps, LivesReapJoins, LivesJoins, LivesReleases,
        Lives!Joined, Lives!Over
  <1>6. Lives!NoDoubleFree'
    BY LivesSorts
    DEF LivesInv, Lives!TypeOK, LivesActors, LivesCreation, LivesRecords, LivesRecordOf,
        LivesDisposal, Lives!NoDoubleFree, LivesReaps, LivesReapJoins, LivesJoins,
        LivesReleases, Lives!Joined, Lives!Over
  <1>7. LivesKept'
    BY LivesSorts
    DEF LivesInv, Lives!TypeOK, LivesActors, LivesCreation, LivesRecords, LivesRecordOf,
        LivesDisposal, LivesKept, LivesReaps, LivesReapJoins, LivesJoins, LivesReleases,
        Lives!Joined, Lives!Over
  <1>8. Lives!ReleaseLeavesNobody'
    BY LivesSorts
    DEF LivesInv, Lives!TypeOK, LivesActors, LivesCreation, LivesRecords, LivesRecordOf,
        Lives!ReleaseLeavesNobody, LivesReaps, LivesReapJoins, LivesJoins,
        LivesReleases, Lives!Joined, Lives!Over
  <1> QED BY <1>1, <1>2, <1>3, <1>4, <1>5, <1>6, <1>7, <1>8 DEF LivesInv

\* The record of a joined thread is freed by its joiner.
LEMMA LivesJoinFree ==
    ASSUME LivesInv, NEW a \in Lives!Actors, Lives!JoinFree(a)
    PROVE  LivesInv'
  <1>1. Lives!TypeOK'
    BY LivesSorts
    DEF LivesInv, Lives!TypeOK, Lives!Places, LivesActors, Lives!JoinFree,
        Lives!Running, Lives!FreeRecord
  <1>2. LivesActors'
    BY LivesSorts
    DEF LivesInv, Lives!TypeOK, LivesActors, LivesCreation, LivesReaps, LivesReapJoins,
        LivesJoins, LivesReleases, Lives!JoinFree, Lives!Running, Lives!FreeRecord
  <1>3. LivesCreation'
    BY LivesSorts
    DEF LivesInv, Lives!TypeOK, LivesActors, LivesCreation, LivesRecords, LivesRecordOf,
        LivesDisposal, LivesReaps, LivesReapJoins, LivesJoins, LivesReleases,
        Lives!JoinFree, Lives!Running, Lives!FreeRecord
  <1>4. LivesRecords'
    BY LivesSorts
    DEF LivesInv, Lives!TypeOK, LivesActors, LivesCreation, LivesRecords, LivesRecordOf,
        LivesDisposal, LivesReaps, LivesReapJoins, LivesJoins, LivesReleases,
        Lives!JoinFree, Lives!Running, Lives!FreeRecord
  <1>5. LivesDisposal'
    BY LivesSorts
    DEF LivesInv, Lives!TypeOK, LivesActors, LivesCreation, LivesRecords, LivesRecordOf,
        LivesDisposal, LivesReaps, LivesReapJoins, LivesJoins, LivesReleases,
        Lives!JoinFree, Lives!Running, Lives!FreeRecord
  <1>6. Lives!NoDoubleFree'
    <2>1. joining[a] \in GuestThreads
      BY DEF LivesInv, Lives!TypeOK, LivesActors, LivesReaps, LivesReapJoins,
             LivesJoins, LivesReleases, Lives!JoinFree
    <2>2. record[joining[a]] = "live"
      BY <2>1
      DEF LivesInv, Lives!TypeOK, LivesCreation, LivesDisposal, LivesReaps,
          LivesReapJoins, LivesJoins, LivesReleases, Lives!JoinFree
    <2>3. Lives!FreeRecord(joining[a])
      BY DEF Lives!JoinFree
    <2> QED BY <2>2, <2>3 DEF LivesInv, Lives!NoDoubleFree, Lives!FreeRecord
  <1>7. LivesKept'
    BY LivesSorts
    DEF LivesInv, Lives!TypeOK, LivesActors, LivesCreation, LivesRecords, LivesRecordOf,
        LivesDisposal, LivesKept, LivesReaps, LivesReapJoins, LivesJoins, LivesReleases,
        Lives!JoinFree, Lives!Running, Lives!FreeRecord
  <1>8. Lives!ReleaseLeavesNobody'
    BY LivesSorts
    DEF LivesInv, Lives!TypeOK, LivesActors, LivesCreation, LivesRecords, LivesRecordOf,
        Lives!ReleaseLeavesNobody, LivesReaps, LivesReapJoins, LivesJoins,
        LivesReleases, Lives!JoinFree, Lives!Running, Lives!FreeRecord
  <1> QED BY <1>1, <1>2, <1>3, <1>4, <1>5, <1>6, <1>7, <1>8 DEF LivesInv

\* The flag is the last thing a routine sets.
LEMMA LivesFinish ==
    ASSUME LivesInv, NEW t \in GuestThreads, Lives!Finish(t)
    PROVE  LivesInv'
  <1>1. Lives!TypeOK'
    BY LivesSorts
    DEF LivesInv, Lives!TypeOK, Lives!Places, LivesActors, Lives!Finish, Lives!Free,
        Lives!Running
  <1>2. LivesActors'
    BY LivesSorts
    DEF LivesInv, Lives!TypeOK, LivesActors, LivesCreation, LivesReaps, LivesReapJoins,
        LivesJoins, LivesReleases, Lives!Finish, Lives!Free, Lives!Running
  <1>3. LivesCreation'
    BY LivesSorts
    DEF LivesInv, Lives!TypeOK, LivesActors, LivesCreation, LivesRecords, LivesRecordOf,
        LivesDisposal, LivesReaps, LivesReapJoins, LivesJoins, LivesReleases,
        Lives!Finish, Lives!Free, Lives!Running
  <1>4. LivesRecords'
    BY LivesSorts
    DEF LivesInv, Lives!TypeOK, LivesActors, LivesCreation, LivesRecords, LivesRecordOf,
        LivesDisposal, LivesReaps, LivesReapJoins, LivesJoins, LivesReleases,
        Lives!Finish, Lives!Free, Lives!Running
  <1>5. LivesDisposal'
    BY LivesSorts
    DEF LivesInv, Lives!TypeOK, LivesActors, LivesCreation, LivesRecords, LivesRecordOf,
        LivesDisposal, LivesReaps, LivesReapJoins, LivesJoins, LivesReleases,
        Lives!Finish, Lives!Free, Lives!Running
  <1>6. Lives!NoDoubleFree'
    BY LivesSorts
    DEF LivesInv, Lives!TypeOK, LivesActors, LivesCreation, LivesRecords, LivesRecordOf,
        LivesDisposal, Lives!NoDoubleFree, LivesReaps, LivesReapJoins, LivesJoins,
        LivesReleases, Lives!Finish, Lives!Free, Lives!Running
  <1>7. LivesKept'
    BY LivesSorts
    DEF LivesInv, Lives!TypeOK, LivesActors, LivesCreation, LivesRecords, LivesRecordOf,
        LivesDisposal, LivesKept, LivesReaps, LivesReapJoins, LivesJoins, LivesReleases,
        Lives!Finish, Lives!Free, Lives!Running
  <1>8. Lives!ReleaseLeavesNobody'
    BY LivesSorts
    DEF LivesInv, Lives!TypeOK, LivesActors, LivesCreation, LivesRecords, LivesRecordOf,
        Lives!ReleaseLeavesNobody, LivesReaps, LivesReapJoins, LivesJoins,
        LivesReleases, Lives!Finish, Lives!Free, Lives!Running
  <1> QED BY <1>1, <1>2, <1>3, <1>4, <1>5, <1>6, <1>7, <1>8 DEF LivesInv

\* The host's part of the thread ends.
LEMMA LivesEnd ==
    ASSUME LivesInv, NEW t \in GuestThreads, Lives!End(t)
    PROVE  LivesInv'
  <1>1. Lives!TypeOK'
    BY LivesSorts DEF LivesInv, Lives!TypeOK, Lives!Places, LivesActors, Lives!End
  <1>2. LivesActors'
    BY LivesSorts
    DEF LivesInv, Lives!TypeOK, LivesActors, LivesCreation, LivesReaps, LivesReapJoins,
        LivesJoins, LivesReleases, Lives!End
  <1>3. LivesCreation'
    BY LivesSorts
    DEF LivesInv, Lives!TypeOK, LivesActors, LivesCreation, LivesRecords, LivesRecordOf,
        LivesDisposal, LivesReaps, LivesReapJoins, LivesJoins, LivesReleases, Lives!End
  <1>4. LivesRecords'
    BY LivesSorts
    DEF LivesInv, Lives!TypeOK, LivesActors, LivesCreation, LivesRecords, LivesRecordOf,
        LivesDisposal, LivesReaps, LivesReapJoins, LivesJoins, LivesReleases, Lives!End
  <1>5. LivesDisposal'
    BY LivesSorts
    DEF LivesInv, Lives!TypeOK, LivesActors, LivesCreation, LivesRecords, LivesRecordOf,
        LivesDisposal, LivesReaps, LivesReapJoins, LivesJoins, LivesReleases, Lives!End
  <1>6. Lives!NoDoubleFree'
    BY LivesSorts
    DEF LivesInv, Lives!TypeOK, LivesActors, LivesCreation, LivesRecords, LivesRecordOf,
        LivesDisposal, Lives!NoDoubleFree, LivesReaps, LivesReapJoins, LivesJoins,
        LivesReleases, Lives!End
  <1>7. LivesKept'
    BY LivesSorts
    DEF LivesInv, Lives!TypeOK, LivesActors, LivesCreation, LivesRecords, LivesRecordOf,
        LivesDisposal, LivesKept, LivesReaps, LivesReapJoins, LivesJoins, LivesReleases,
        Lives!End
  <1>8. Lives!ReleaseLeavesNobody'
    BY LivesSorts
    DEF LivesInv, Lives!TypeOK, LivesActors, LivesCreation, LivesRecords, LivesRecordOf,
        Lives!ReleaseLeavesNobody, LivesReaps, LivesReapJoins, LivesJoins,
        LivesReleases, Lives!End
  <1> QED BY <1>1, <1>2, <1>3, <1>4, <1>5, <1>6, <1>7, <1>8 DEF LivesInv

\* A trap ends a thread in guest code.
LEMMA LivesTrap ==
    ASSUME LivesInv, NEW t \in GuestThreads, Lives!Trap(t)
    PROVE  LivesInv'
  <1>1. Lives!TypeOK'
    BY LivesSorts
    DEF LivesInv, Lives!TypeOK, Lives!Places, LivesActors, Lives!Trap, Lives!Free,
        Lives!Running
  <1>2. LivesActors'
    BY LivesSorts
    DEF LivesInv, Lives!TypeOK, LivesActors, LivesCreation, LivesReaps, LivesReapJoins,
        LivesJoins, LivesReleases, Lives!Trap, Lives!Free, Lives!Running
  <1>3. LivesCreation'
    BY LivesSorts
    DEF LivesInv, Lives!TypeOK, LivesActors, LivesCreation, LivesRecords, LivesRecordOf,
        LivesDisposal, LivesReaps, LivesReapJoins, LivesJoins, LivesReleases,
        Lives!Trap, Lives!Free, Lives!Running
  <1>4. LivesRecords'
    BY LivesSorts
    DEF LivesInv, Lives!TypeOK, LivesActors, LivesCreation, LivesRecords, LivesRecordOf,
        LivesDisposal, LivesReaps, LivesReapJoins, LivesJoins, LivesReleases,
        Lives!Trap, Lives!Free, Lives!Running
  <1>5. LivesDisposal'
    BY LivesSorts
    DEF LivesInv, Lives!TypeOK, LivesActors, LivesCreation, LivesRecords, LivesRecordOf,
        LivesDisposal, LivesReaps, LivesReapJoins, LivesJoins, LivesReleases,
        Lives!Trap, Lives!Free, Lives!Running
  <1>6. Lives!NoDoubleFree'
    BY LivesSorts
    DEF LivesInv, Lives!TypeOK, LivesActors, LivesCreation, LivesRecords, LivesRecordOf,
        LivesDisposal, Lives!NoDoubleFree, LivesReaps, LivesReapJoins, LivesJoins,
        LivesReleases, Lives!Trap, Lives!Free, Lives!Running
  <1>7. LivesKept'
    BY LivesSorts
    DEF LivesInv, Lives!TypeOK, LivesActors, LivesCreation, LivesRecords, LivesRecordOf,
        LivesDisposal, LivesKept, LivesReaps, LivesReapJoins, LivesJoins, LivesReleases,
        Lives!Trap, Lives!Free, Lives!Running
  <1>8. Lives!ReleaseLeavesNobody'
    BY LivesSorts
    DEF LivesInv, Lives!TypeOK, LivesActors, LivesCreation, LivesRecords, LivesRecordOf,
        Lives!ReleaseLeavesNobody, LivesReaps, LivesReapJoins, LivesJoins,
        LivesReleases, Lives!Trap, Lives!Free, Lives!Running
  <1> QED BY <1>1, <1>2, <1>3, <1>4, <1>5, <1>6, <1>7, <1>8 DEF LivesInv

\* A terminated instance ends its threads in guest code.
LEMMA LivesTerminate ==
    ASSUME LivesInv, NEW t \in GuestThreads, Lives!Terminate(t)
    PROVE  LivesInv'
  <1>1. Lives!TypeOK'
    BY LivesSorts
    DEF LivesInv, Lives!TypeOK, Lives!Places, LivesActors, Lives!Terminate,
        Lives!InGuest
  <1>2. LivesActors'
    BY LivesSorts
    DEF LivesInv, Lives!TypeOK, LivesActors, LivesCreation, LivesReaps, LivesReapJoins,
        LivesJoins, LivesReleases, Lives!Terminate, Lives!InGuest
  <1>3. LivesCreation'
    BY LivesSorts
    DEF LivesInv, Lives!TypeOK, LivesActors, LivesCreation, LivesRecords, LivesRecordOf,
        LivesDisposal, LivesReaps, LivesReapJoins, LivesJoins, LivesReleases,
        Lives!Terminate, Lives!InGuest
  <1>4. LivesRecords'
    BY LivesSorts
    DEF LivesInv, Lives!TypeOK, LivesActors, LivesCreation, LivesRecords, LivesRecordOf,
        LivesDisposal, LivesReaps, LivesReapJoins, LivesJoins, LivesReleases,
        Lives!Terminate, Lives!InGuest
  <1>5. LivesDisposal'
    BY LivesSorts
    DEF LivesInv, Lives!TypeOK, LivesActors, LivesCreation, LivesRecords, LivesRecordOf,
        LivesDisposal, LivesReaps, LivesReapJoins, LivesJoins, LivesReleases,
        Lives!Terminate, Lives!InGuest
  <1>6. Lives!NoDoubleFree'
    BY LivesSorts
    DEF LivesInv, Lives!TypeOK, LivesActors, LivesCreation, LivesRecords, LivesRecordOf,
        LivesDisposal, Lives!NoDoubleFree, LivesReaps, LivesReapJoins, LivesJoins,
        LivesReleases, Lives!Terminate, Lives!InGuest
  <1>7. LivesKept'
    BY LivesSorts
    DEF LivesInv, Lives!TypeOK, LivesActors, LivesCreation, LivesRecords, LivesRecordOf,
        LivesDisposal, LivesKept, LivesReaps, LivesReapJoins, LivesJoins, LivesReleases,
        Lives!Terminate, Lives!InGuest
  <1>8. Lives!ReleaseLeavesNobody'
    BY LivesSorts
    DEF LivesInv, Lives!TypeOK, LivesActors, LivesCreation, LivesRecords, LivesRecordOf,
        Lives!ReleaseLeavesNobody, LivesReaps, LivesReapJoins, LivesJoins,
        LivesReleases, Lives!Terminate, Lives!InGuest
  <1> QED BY <1>1, <1>2, <1>3, <1>4, <1>5, <1>6, <1>7, <1>8 DEF LivesInv

\* The release begins.
LEMMA LivesReleaseOwner ==
    ASSUME LivesInv, Lives!ReleaseOwner
    PROVE  LivesInv'
  <1>1. Lives!TypeOK'
    BY LivesSorts DEF LivesInv, Lives!TypeOK, Lives!Places, LivesActors,
       Lives!ReleaseOwner
  <1>2. LivesActors'
    BY LivesSorts
    DEF LivesInv, Lives!TypeOK, LivesActors, LivesCreation, LivesReaps, LivesReapJoins,
        LivesJoins, LivesReleases, Lives!ReleaseOwner
  <1>3. LivesCreation'
    BY LivesSorts
    DEF LivesInv, Lives!TypeOK, LivesActors, LivesCreation, LivesRecords, LivesRecordOf,
        LivesDisposal, LivesReaps, LivesReapJoins, LivesJoins, LivesReleases,
        Lives!ReleaseOwner
  <1>4. LivesRecords'
    BY LivesSorts
    DEF LivesInv, Lives!TypeOK, LivesActors, LivesCreation, LivesRecords, LivesRecordOf,
        LivesDisposal, LivesReaps, LivesReapJoins, LivesJoins, LivesReleases,
        Lives!ReleaseOwner
  <1>5. LivesDisposal'
    BY LivesSorts
    DEF LivesInv, Lives!TypeOK, LivesActors, LivesCreation, LivesRecords, LivesRecordOf,
        LivesDisposal, LivesReaps, LivesReapJoins, LivesJoins, LivesReleases,
        Lives!ReleaseOwner
  <1>6. Lives!NoDoubleFree'
    BY LivesSorts
    DEF LivesInv, Lives!TypeOK, LivesActors, LivesCreation, LivesRecords, LivesRecordOf,
        LivesDisposal, Lives!NoDoubleFree, LivesReaps, LivesReapJoins, LivesJoins,
        LivesReleases, Lives!ReleaseOwner
  <1>7. LivesKept'
    BY LivesSorts
    DEF LivesInv, Lives!TypeOK, LivesActors, LivesCreation, LivesRecords, LivesRecordOf,
        LivesDisposal, LivesKept, LivesReaps, LivesReapJoins, LivesJoins, LivesReleases,
        Lives!ReleaseOwner
  <1>8. Lives!ReleaseLeavesNobody'
    BY LivesSorts
    DEF LivesInv, Lives!TypeOK, LivesActors, LivesCreation, LivesRecords, LivesRecordOf,
        Lives!ReleaseLeavesNobody, LivesReaps, LivesReapJoins, LivesJoins,
        LivesReleases, Lives!ReleaseOwner
  <1> QED BY <1>1, <1>2, <1>3, <1>4, <1>5, <1>6, <1>7, <1>8 DEF LivesInv

\* It takes one entry of the module.
LEMMA LivesReleaseNext ==
    ASSUME LivesInv, Lives!ReleaseNext
    PROVE  LivesInv'
  <1>0. PICK t \in GuestThreads :
          /\ entry[t] = "mapped" /\ place[Main] = "release"
          /\ entry' = [entry EXCEPT ![t] = "taken"] /\ joining' = [joining EXCEPT ![Main] = t]
          /\ place' = [place EXCEPT ![Main] = "releaseJoin"] /\ terminated' = TRUE
          /\ UNCHANGED <<record, hostId, finished, detached, list, doubleFree, life,
                         stopping, target, reaping, after, claim>>
    BY DEF Lives!ReleaseNext
  <1>1. Lives!TypeOK'
    BY <1>0, LivesSorts DEF LivesInv, Lives!TypeOK, Lives!Places, LivesActors
  <1>2. LivesActors'
    BY <1>0, LivesSorts
    DEF LivesInv, Lives!TypeOK, LivesActors, LivesCreation, LivesReaps, LivesReapJoins,
        LivesJoins, LivesReleases
  <1>3. LivesCreation'
    BY <1>0, LivesSorts
    DEF LivesInv, Lives!TypeOK, LivesActors, LivesCreation, LivesRecords, LivesRecordOf,
        LivesDisposal, LivesReaps, LivesReapJoins, LivesJoins, LivesReleases
  <1>4. LivesRecords'
    BY <1>0, LivesSorts
    DEF LivesInv, Lives!TypeOK, LivesActors, LivesCreation, LivesRecords, LivesRecordOf,
        LivesDisposal, LivesReaps, LivesReapJoins, LivesJoins, LivesReleases
  <1>5. LivesDisposal'
    BY <1>0, LivesSorts
    DEF LivesInv, Lives!TypeOK, LivesActors, LivesCreation, LivesRecords, LivesRecordOf,
        LivesDisposal, LivesReaps, LivesReapJoins, LivesJoins, LivesReleases
  <1>6. Lives!NoDoubleFree'
    BY <1>0, LivesSorts
    DEF LivesInv, Lives!TypeOK, LivesActors, LivesCreation, LivesRecords, LivesRecordOf,
        LivesDisposal, Lives!NoDoubleFree, LivesReaps, LivesReapJoins, LivesJoins,
        LivesReleases
  <1>7. LivesKept'
    BY <1>0, LivesSorts
    DEF LivesInv, Lives!TypeOK, LivesActors, LivesCreation, LivesRecords, LivesRecordOf,
        LivesDisposal, LivesKept, LivesReaps, LivesReapJoins, LivesJoins, LivesReleases
  <1>8. Lives!ReleaseLeavesNobody'
    BY <1>0, LivesSorts
    DEF LivesInv, Lives!TypeOK, LivesActors, LivesCreation, LivesRecords, LivesRecordOf,
        Lives!ReleaseLeavesNobody, LivesReaps, LivesReapJoins, LivesJoins, LivesReleases
  <1> QED BY <1>1, <1>2, <1>3, <1>4, <1>5, <1>6, <1>7, <1>8 DEF LivesInv

\* The thread it joined is over.
LEMMA LivesReleaseJoined ==
    ASSUME LivesInv, Lives!ReleaseJoined
    PROVE  LivesInv'
  <1>1. Lives!TypeOK'
    BY LivesSorts
    DEF LivesInv, Lives!TypeOK, Lives!Places, LivesActors, Lives!ReleaseJoined,
        Lives!Over
  <1>2. LivesActors'
    BY LivesSorts
    DEF LivesInv, Lives!TypeOK, LivesActors, LivesCreation, LivesReaps, LivesReapJoins,
        LivesJoins, LivesReleases, Lives!ReleaseJoined, Lives!Over
  <1>3. LivesCreation'
    BY LivesSorts
    DEF LivesInv, Lives!TypeOK, LivesActors, LivesCreation, LivesRecords, LivesRecordOf,
        LivesDisposal, LivesReaps, LivesReapJoins, LivesJoins, LivesReleases,
        Lives!ReleaseJoined, Lives!Over
  <1>4. LivesRecords'
    BY LivesSorts
    DEF LivesInv, Lives!TypeOK, LivesActors, LivesCreation, LivesRecords, LivesRecordOf,
        LivesDisposal, LivesReaps, LivesReapJoins, LivesJoins, LivesReleases,
        Lives!ReleaseJoined, Lives!Over
  <1>5. LivesDisposal'
    BY LivesSorts
    DEF LivesInv, Lives!TypeOK, LivesActors, LivesCreation, LivesRecords, LivesRecordOf,
        LivesDisposal, LivesReaps, LivesReapJoins, LivesJoins, LivesReleases,
        Lives!ReleaseJoined, Lives!Over
  <1>6. Lives!NoDoubleFree'
    BY LivesSorts
    DEF LivesInv, Lives!TypeOK, LivesActors, LivesCreation, LivesRecords, LivesRecordOf,
        LivesDisposal, Lives!NoDoubleFree, LivesReaps, LivesReapJoins, LivesJoins,
        LivesReleases, Lives!ReleaseJoined, Lives!Over
  <1>7. LivesKept'
    BY LivesSorts
    DEF LivesInv, Lives!TypeOK, LivesActors, LivesCreation, LivesRecords, LivesRecordOf,
        LivesDisposal, LivesKept, LivesReaps, LivesReapJoins, LivesJoins, LivesReleases,
        Lives!ReleaseJoined, Lives!Over
  <1>8. Lives!ReleaseLeavesNobody'
    BY LivesSorts
    DEF LivesInv, Lives!TypeOK, LivesActors, LivesCreation, LivesRecords, LivesRecordOf,
        Lives!ReleaseLeavesNobody, LivesReaps, LivesReapJoins, LivesJoins,
        LivesReleases, Lives!ReleaseJoined, Lives!Over
  <1> QED BY <1>1, <1>2, <1>3, <1>4, <1>5, <1>6, <1>7, <1>8 DEF LivesInv

\* When no entry is mapped, every thread is over: a thread that still ran would
\* wait in a join for a later one, and that one for another, without end.
LEMMA LivesReleaseEnds ==
    ASSUME LivesInv, Lives!ReleaseEnds
    PROVE  LivesInv'
  <1>1. Lives!TypeOK'
    BY LivesSorts DEF LivesInv, Lives!TypeOK, Lives!Places, LivesActors,
       Lives!ReleaseEnds
  <1>2. LivesActors'
    BY LivesSorts
    DEF LivesInv, Lives!TypeOK, LivesActors, LivesCreation, LivesReaps, LivesReapJoins,
        LivesJoins, LivesReleases, Lives!ReleaseEnds
  <1>3. LivesCreation'
    BY LivesSorts
    DEF LivesInv, Lives!TypeOK, LivesActors, LivesCreation, LivesRecords, LivesRecordOf,
        LivesDisposal, LivesReaps, LivesReapJoins, LivesJoins, LivesReleases,
        Lives!ReleaseEnds
  <1>4. LivesRecords'
    BY LivesSorts
    DEF LivesInv, Lives!TypeOK, LivesActors, LivesCreation, LivesRecords, LivesRecordOf,
        LivesDisposal, LivesReaps, LivesReapJoins, LivesJoins, LivesReleases,
        Lives!ReleaseEnds
  <1>5. LivesDisposal'
    BY LivesSorts
    DEF LivesInv, Lives!TypeOK, LivesActors, LivesCreation, LivesRecords, LivesRecordOf,
        LivesDisposal, LivesReaps, LivesReapJoins, LivesJoins, LivesReleases,
        Lives!ReleaseEnds
  <1>6. Lives!NoDoubleFree'
    BY LivesSorts
    DEF LivesInv, Lives!TypeOK, LivesActors, LivesCreation, LivesRecords, LivesRecordOf,
        LivesDisposal, Lives!NoDoubleFree, LivesReaps, LivesReapJoins, LivesJoins,
        LivesReleases, Lives!ReleaseEnds
  <1>7. LivesKept'
    BY LivesSorts
    DEF LivesInv, Lives!TypeOK, LivesActors, LivesCreation, LivesRecords, LivesRecordOf,
        LivesDisposal, LivesKept, LivesReaps, LivesReapJoins, LivesJoins, LivesReleases,
        Lives!ReleaseEnds
  <1>8. Lives!ReleaseLeavesNobody'
    <2>1. \A t \in GuestThreads : entry[t] # "mapped"
      BY DEF Lives!ReleaseEnds
    <2>2. ASSUME NEW t \in GuestThreads, life[t] \notin {"none", "ended"}
          PROVE  \E a \in GuestThreads : joining[a] = t /\ place[a] \in {"join", "reapJoin"} /\ life[a] = "run"
      <3>1. entry[t] = "taken"
        BY <2>1, <2>2 DEF LivesInv, LivesRecords, LivesRecordOf, Lives!TypeOK
      <3>2. PICK a \in Lives!Actors : joining[a] = t /\ place[a] \in {"join", "reapJoin", "releaseJoin"}
        BY <2>2, <3>1 DEF LivesInv, LivesRecords, LivesRecordOf
      <3>3. a \in GuestThreads /\ place[a] # "releaseJoin"
        BY <3>2, LivesSorts DEF LivesInv, LivesActors, LivesReleases, Lives!ReleaseEnds
      <3> QED BY <3>2, <3>3, LivesSorts DEF LivesInv, LivesActors
    <2> DEFINE S == {t \in GuestThreads : life[t] = "run"}
    <2>3. ASSUME S # {} PROVE FALSE
      <3>1. S \in SUBSET Nat
        BY LivesSorts
      <3>2. PICK t \in S : \A u \in S : t <= u
        BY <2>3, <3>1, Least
      <3>3. PICK a \in GuestThreads : joining[a] = t /\ place[a] \in {"join", "reapJoin"} /\ life[a] = "run"
        BY <2>2
      <3>4. place[a] # "reapJoin"
        BY <3>3, LivesSorts
        DEF LivesInv, LivesDisposal, LivesRecords, LivesRecordOf, LivesReapJoins
      <3>5. a < t
        BY <3>3, <3>4, LivesSorts DEF LivesInv, LivesActors
      <3> QED BY <3>2, <3>3, <3>5, LivesSorts
    <2>4. \A t \in GuestThreads : life[t] # "run"
      BY <2>3
    <2> QED BY <2>2, <2>4 DEF Lives!ReleaseLeavesNobody, Lives!ReleaseEnds
  <1> QED BY <1>1, <1>2, <1>3, <1>4, <1>5, <1>6, <1>7, <1>8 DEF LivesInv

\* Every step keeps LivesInv when no handle is shared before the creator has it.
LEMMA LivesStep ==
    ASSUME LivesInv, ~SharesEarly, Lives!Next
    PROVE  LivesInv'
  <1>1. ASSUME NEW a \in Lives!Actors, Lives!Continue(a)
        PROVE  LivesInv'
    BY <1>1, LivesCollect, LivesReapNext, LivesReapJoined, LivesReapFree, LivesReaped,
       LivesAllocate,
       LivesAllocateFails, LivesSpawn, LivesSpawnFails, LivesUndo, LivesStoreId, LivesJoined, LivesJoinFree
    DEF Lives!Continue
  <1>2. ASSUME Lives!Release
        PROVE  LivesInv'
    BY <1>2, LivesReleaseOwner, LivesReleaseNext, LivesReleaseJoined, LivesReleaseEnds
    DEF Lives!Release
  <1> QED BY <1>1, <1>2, LivesCreate, LivesJoin, LivesDetach, LivesFinish, LivesEnd,
             LivesTrap, LivesTerminate
          DEF Lives!Next

\* Who has the record of a thread at hand to free it, or freed it, came after the end
\* of the thread, or the release of the module waits for that thread.
LivesLet(t) ==
    record[t] = "freed" \/
    \E a \in Lives!Actors : joining[a] = t /\ place[a] \in {"reapFree", "joinFree"}
LivesOver(t) == life[t] \in {"none", "ended"} \/ Lives!ReleaseWaitsFor(t)
LivesEarly == \A t \in GuestThreads : LivesLet(t) => LivesOver(t)

\* A call that does not find the entry of a thread meets one that is over, or that
\* the release took: nobody else joins a thread whose record is still to be disposed of.
LEMMA LivesTaken ==
    ASSUME LivesInv, NEW t \in GuestThreads, entry[t] # "mapped", life[t] # "none",
           claim[t] = "joinable" \/ \E a \in Lives!Actors : t \in reaping[a]
    PROVE  LivesOver(t)
  <1>1. entry[t] = "taken"
    BY DEF LivesInv, Lives!TypeOK, LivesRecords, LivesRecordOf
  <1>2. CASE life[t] = "ended"
    BY <1>2 DEF LivesOver
  <1>3. CASE life[t] # "ended"
    <2>1. PICK a \in Lives!Actors : joining[a] = t /\ place[a] \in {"join", "reapJoin", "releaseJoin"}
      BY <1>1, <1>3 DEF LivesInv, LivesRecords, LivesRecordOf
    <2>2. place[a] # "join" /\ place[a] # "reapJoin"
      BY <2>1 DEF LivesInv, LivesDisposal, LivesJoins, LivesReapJoins
    <2>3. a = Main
      BY <2>1, <2>2 DEF LivesInv, LivesActors, LivesReleases
    <2> QED BY <2>1, <2>2, <2>3 DEF LivesOver, Lives!ReleaseWaitsFor
  <1> QED BY <1>2, <1>3

\* A thread that is over, or waited for, stays so when its record is let go: only
\* the end of the thread ends the wait, and nobody starts it.
LEMMA LivesStaysOver ==
    ASSUME LivesInv, Lives!Next, NEW t \in GuestThreads, LivesLet(t), LivesOver(t)
    PROVE  LivesOver(t)'
  <1>1. life[t] = "none" => \A a \in Lives!Actors : place[a] = "spawn" => target[a] # t
    <2>1. life[t] = "none" => record[t] = "freed"
      BY DEF LivesInv, LivesLet, LivesDisposal, LivesRecords, LivesRecordOf,
             LivesReapJoins, LivesJoins
    <2> QED BY <2>1 DEF LivesInv, LivesCreation
  <1>2. CASE life[t] \in {"none", "ended"}
    <2>1. ASSUME NEW a \in Lives!Actors, Lives!Continue(a) \/ Lives!Create(a) \/ Lives!Join(a) \/ Lives!Detach(a)
          PROVE  life' = life \/ (place[a] = "spawn" /\ life' = [life EXCEPT ![target[a]] = "run"])
      BY <2>1
      DEF Lives!Continue, Lives!Create, Lives!Join, Lives!Detach, Lives!Collect,
          Lives!ReapNext, Lives!ReapJoined, Lives!ReapFree, Lives!Reaped, Lives!Allocate,
          Lives!AllocateFails, Lives!Spawn, Lives!SpawnFails, Lives!Undo, Lives!StoreId,
          Lives!Joined, Lives!JoinFree
    <2>2. ASSUME NEW u \in GuestThreads,
                 Lives!Finish(u) \/ Lives!End(u) \/ Lives!Trap(u) \/ Lives!Terminate(u)
          PROVE  life[u] \notin {"none", "ended"} /\ \E l : life' = [life EXCEPT ![u] = l]
      BY <2>2, LivesSorts
      DEF Lives!Finish, Lives!End, Lives!Trap, Lives!Terminate, Lives!Free, Lives!Running
    <2>3. Lives!Release => life' = life
      BY DEF Lives!Release, Lives!ReleaseOwner, Lives!ReleaseNext, Lives!ReleaseJoined,
             Lives!ReleaseEnds
    <2>4. life \in [GuestThreads -> {"none", "run", "flagged", "ended"}]
      BY DEF LivesInv, Lives!TypeOK
    <2>5. life'[t] = life[t]
      <3>1. ASSUME NEW a \in Lives!Actors, Lives!Continue(a) \/ Lives!Create(a) \/ Lives!Join(a) \/ Lives!Detach(a)
            PROVE  life'[t] = life[t]
        <4>1. CASE life' = life
          BY <4>1
        <4>2. CASE place[a] = "spawn" /\ life' = [life EXCEPT ![target[a]] = "run"]
          <5>1. target[a] # t
            BY <1>1, <1>2, <4>2 DEF LivesInv, LivesCreation, Lives!TypeOK
          <5> QED BY <2>4, <4>2, <5>1
        <4> QED BY <2>1, <3>1, <4>1, <4>2
      <3>2. ASSUME NEW u \in GuestThreads,
                   Lives!Finish(u) \/ Lives!End(u) \/ Lives!Trap(u) \/ Lives!Terminate(u)
            PROVE  life'[t] = life[t]
        BY <1>2, <2>2, <2>4, <3>2
      <3> QED BY <2>3, <3>1, <3>2 DEF Lives!Next
    <2> QED BY <1>2, <2>5 DEF LivesOver
  <1>3. CASE life[t] \notin {"none", "ended"}
    <2>1. place[Main] = "releaseJoin" /\ joining[Main] = t
      BY <1>3 DEF LivesOver, Lives!ReleaseWaitsFor
    <2>2. ~Lives!ReleaseJoined
      BY <1>3, <2>1 DEF Lives!ReleaseJoined, Lives!Over
    <2>3. ASSUME NEW a \in Lives!Actors, Lives!Continue(a) \/ Lives!Create(a) \/ Lives!Join(a) \/ Lives!Detach(a)
          PROVE  /\ place[a] # "releaseJoin"
                 /\ \E p : place' = [place EXCEPT ![a] = p]
                 /\ joining' = joining \/ \E u : joining' = [joining EXCEPT ![a] = u]
      <3>1. place[a] # "releaseJoin"
        BY <2>3
        DEF Lives!Continue, Lives!Create, Lives!Join, Lives!Detach, Lives!Collect, Lives!Free,
            Lives!ReapNext, Lives!ReapJoined, Lives!ReapFree, Lives!Reaped, Lives!Allocate,
            Lives!AllocateFails, Lives!Spawn, Lives!SpawnFails, Lives!Undo, Lives!StoreId,
            Lives!Joined, Lives!JoinFree
      <3>2. \E p : place' = [place EXCEPT ![a] = p]
        BY <2>3
        DEF Lives!Continue, Lives!Create, Lives!Join, Lives!Detach, Lives!Collect,
            Lives!ReapNext, Lives!ReapJoined, Lives!ReapFree, Lives!Reaped, Lives!Allocate,
            Lives!AllocateFails, Lives!Spawn, Lives!SpawnFails, Lives!Undo, Lives!StoreId,
            Lives!Joined, Lives!JoinFree
      <3>3. joining' = joining \/ \E u : joining' = [joining EXCEPT ![a] = u]
        BY <2>3
        DEF Lives!Continue, Lives!Create, Lives!Join, Lives!Detach, Lives!Collect,
            Lives!ReapNext, Lives!ReapJoined, Lives!ReapFree, Lives!Reaped, Lives!Allocate,
            Lives!AllocateFails, Lives!Spawn, Lives!SpawnFails, Lives!Undo, Lives!StoreId,
            Lives!Joined, Lives!JoinFree
      <3> QED BY <3>1, <3>2, <3>3
    <2>4. ASSUME NEW u \in GuestThreads,
                 Lives!Finish(u) \/ Lives!End(u) \/ Lives!Trap(u) \/ Lives!Terminate(u)
          PROVE  UNCHANGED <<place, joining>>
      BY <2>4 DEF Lives!Finish, Lives!End, Lives!Trap, Lives!Terminate
    <2>5. ~Lives!Release
      BY <2>1, <2>2 DEF Lives!Release, Lives!ReleaseOwner, Lives!ReleaseNext, Lives!ReleaseEnds
    <2>6. place'[Main] = "releaseJoin" /\ joining'[Main] = t
      <3>1. ASSUME NEW a \in Lives!Actors, Lives!Continue(a) \/ Lives!Create(a) \/ Lives!Join(a) \/ Lives!Detach(a)
            PROVE  place'[Main] = "releaseJoin" /\ joining'[Main] = t
        <4>1. a # Main
          BY <2>1, <2>3, <3>1
        <4>2. place'[Main] = place[Main]
          BY <2>3, <3>1, <4>1, LivesSorts DEF LivesInv, Lives!TypeOK
        <4>3. joining'[Main] = joining[Main]
          BY <2>3, <3>1, <4>1, LivesSorts DEF LivesInv, Lives!TypeOK
        <4> QED BY <2>1, <4>2, <4>3
      <3> QED BY <2>1, <2>4, <2>5, <3>1 DEF Lives!Next
    <2> QED BY <2>6 DEF LivesOver, Lives!ReleaseWaitsFor
  <1> QED BY <1>2, <1>3

\* A record is let go of by an actor that did not find the entry, or whose join
\* returned; an undone creation had no thread.
LEMMA LivesNewlyLet ==
    ASSUME LivesInv, ~SharesEarly, Lives!Next, NEW t \in GuestThreads,
           ~LivesLet(t), LivesLet(t)'
    PROVE  LivesOver(t)'
  <1>1. ASSUME NEW a \in Lives!Actors, Lives!Join(a)
        PROVE  LivesOver(t)'
    <2>0. PICK u \in GuestThreads :
          /\ claim[u] = "joinable" /\ hostId[u] /\ place[a] = "idle"
          /\ joining' = [joining EXCEPT ![a] = u]
          /\ IF entry[u] = "mapped" THEN place' = [place EXCEPT ![a] = "join"]
                                    ELSE place' = [place EXCEPT ![a] = "joinFree"]
          /\ UNCHANGED <<record, life>>
      BY <1>1 DEF Lives!Join, Lives!Knows, Lives!Free
    <2>1. t = u /\ entry[t] # "mapped" /\ life[t] # "none"
      <3>1. t = u /\ entry[t] # "mapped"
        BY <2>0, LivesSorts DEF LivesInv, Lives!TypeOK, LivesLet
      <3> QED BY <2>0, <3>1 DEF LivesInv, LivesRecords, LivesRecordOf
    <2>2. LivesOver(t)
      BY <2>0, <2>1, LivesTaken
    <2> QED BY <2>0, <2>1, <2>2, LivesSorts DEF LivesOver, Lives!ReleaseWaitsFor, LivesInv, Lives!TypeOK
  <1>2. ASSUME NEW a \in Lives!Actors, Lives!ReapNext(a)
        PROVE  LivesOver(t)'
    <2>1. PICK u \in reaping[a] :
          /\ hostId[u] /\ place[a] = "reaping"
          /\ joining' = [joining EXCEPT ![a] = u]
          /\ IF entry[u] = "mapped" THEN place' = [place EXCEPT ![a] = "reapJoin"]
                                    ELSE place' = [place EXCEPT ![a] = "reapFree"]
          /\ UNCHANGED <<record, life>>
      BY <1>2 DEF Lives!ReapNext, Lives!IdKnown
    <2>2. t = u /\ entry[t] # "mapped"
      BY <2>1, LivesSorts DEF LivesInv, Lives!TypeOK, LivesLet
    <2>3. life[t] # "none"
      BY <2>1, <2>2 DEF LivesInv, LivesRecords, LivesRecordOf
    <2>4. LivesOver(t)
      BY <2>1, <2>2, <2>3, LivesTaken
    <2>5. LivesOver(t) => LivesOver(t)'
      <3>1. ~(a = Main /\ Lives!ReleaseWaitsFor(t))
        BY <2>1 DEF Lives!ReleaseWaitsFor
      <3> QED BY <2>1, <3>1, LivesSorts DEF LivesOver, Lives!ReleaseWaitsFor, LivesInv, Lives!TypeOK
    <2> QED BY <2>4, <2>5
  <1>3. ASSUME NEW a \in Lives!Actors, Lives!Joined(a) \/ Lives!ReapJoined(a)
        PROVE  LivesOver(t)'
    <2>1. joining[a] = t /\ life[t] = "ended" /\ life' = life
      BY <1>3, LivesSorts DEF LivesInv, Lives!TypeOK, LivesLet, Lives!Joined, Lives!ReapJoined,
                              Lives!Over
    <2> QED BY <2>1 DEF LivesOver
  <1>4. ASSUME NEW a \in Lives!Actors, Lives!Undo(a)
        PROVE  LivesOver(t)'
    <2>1. target[a] = t /\ place[a] = "undo" /\ life' = life
      BY <1>4, LivesSorts DEF LivesInv, Lives!TypeOK, LivesLet, Lives!Undo, Lives!FreeRecord
    <2>2. life[t] = "none"
      BY <2>1 DEF LivesInv, LivesCreation
    <2> QED BY <2>1, <2>2 DEF LivesOver
  <1>5. ASSUME NEW a \in Lives!Actors, Lives!JoinFree(a) \/ Lives!ReapFree(a)
        PROVE  FALSE
    BY <1>5, LivesSorts DEF LivesInv, Lives!TypeOK, LivesLet, Lives!JoinFree, Lives!ReapFree,
                            Lives!FreeRecord
  <1>6. ASSUME NEW a \in Lives!Actors,
               \/ Lives!Create(a) \/ Lives!Detach(a) \/ Lives!Collect(a) \/ Lives!Allocate(a)
               \/ Lives!Reaped(a) \/ Lives!AllocateFails(a) \/ Lives!Spawn(a)
               \/ Lives!SpawnFails(a) \/ Lives!StoreId(a)
        PROVE  FALSE
    BY <1>6, LivesSorts
    DEF LivesInv, Lives!TypeOK, LivesActors, LivesReaps, LivesLet, Lives!Create, Lives!Detach,
        Lives!Collect, Lives!Allocate, Lives!Reaped, Lives!AllocateFails, Lives!Spawn,
        Lives!SpawnFails, Lives!StoreId
  <1>7. ASSUME \/ Lives!Release
               \/ \E u \in GuestThreads : \/ Lives!Finish(u) \/ Lives!End(u)
                                          \/ Lives!Trap(u) \/ Lives!Terminate(u)
        PROVE  FALSE
    BY <1>7, LivesSorts
    DEF LivesInv, Lives!TypeOK, LivesLet, Lives!Release, Lives!ReleaseOwner, Lives!ReleaseNext,
        Lives!ReleaseJoined, Lives!ReleaseEnds, Lives!Finish, Lives!End, Lives!Trap,
        Lives!Terminate
  <1> QED BY <1>1, <1>2, <1>3, <1>4, <1>5, <1>6, <1>7 DEF Lives!Next, Lives!Continue

\* Every step keeps LivesEarly.
LEMMA LivesEarlyStep ==
    ASSUME LivesInv, LivesEarly, ~SharesEarly, Lives!Next
    PROVE  LivesEarly'
  <1> SUFFICES ASSUME NEW t \in GuestThreads, LivesLet(t)'
               PROVE  LivesOver(t)'
    BY DEF LivesEarly
  <1> QED BY LivesStaysOver, LivesNewlyLet DEF LivesEarly

\* Before the first thread both hold.
LEMMA LivesInit == Lives!Init => LivesInv /\ LivesEarly
  <1> SUFFICES ASSUME Lives!Init PROVE LivesInv /\ LivesEarly
    OBVIOUS
  <1>1. Lives!TypeOK
    BY LivesSorts DEF Lives!Init, Lives!TypeOK, Lives!Places
  <1>2. LivesActors /\ LivesCreation /\ LivesRecords
    BY LivesSorts DEF Lives!Init, LivesActors, LivesCreation, LivesRecords,
       LivesRecordOf,
         LivesReaps, LivesReapJoins, LivesJoins, LivesReleases
  <1>3. LivesDisposal /\ LivesKept /\ Lives!NoDoubleFree /\ Lives!ReleaseLeavesNobody
    BY LivesSorts
    DEF Lives!Init, LivesDisposal, LivesKept, LivesReapJoins, LivesJoins,
        Lives!NoDoubleFree,
         Lives!ReleaseLeavesNobody
  <1>4. LivesEarly
    BY DEF Lives!Init, LivesEarly, LivesLet
  <1> QED BY <1>1, <1>2, <1>3, <1>4 DEF LivesInv

\* LivesInv and LivesEarly imply what the records and the release promise.
LEMMA LivesSound ==
    ASSUME LivesInv, LivesEarly
    PROVE  Lives!RecordsSound /\ Lives!ReleaseLeavesNobody
  <1>1. Lives!DetachedAreKept
    BY DEF LivesInv, LivesKept, Lives!DetachedAreKept
  <1>2. Lives!RecordOutlivesUse
    <2> SUFFICES ASSUME NEW t \in GuestThreads, record[t] = "freed"
                 PROVE  /\ life[t] \in {"none", "ended"} \/ Lives!ReleaseWaitsFor(t)
                        /\ t \notin list
                        /\ \A a \in Lives!Actors : target[a] # t /\ t \notin reaping[a]
      BY DEF Lives!RecordOutlivesUse
    <2>1. LivesRecordOf(t)
      BY DEF LivesInv, LivesRecords
    <2>2. life[t] \in {"none", "ended"} \/ Lives!ReleaseWaitsFor(t)
      BY DEF LivesEarly, LivesLet, LivesOver
    <2> QED BY <2>1, <2>2 DEF LivesInv, LivesRecordOf, LivesCreation, LivesDisposal
  <1> QED BY <1>1, <1>2 DEF LivesInv, Lives!RecordsSound

\* Nothing of it changes when the program uses something else.
LEMMA LivesIdle ==
    ASSUME LivesInv, UNCHANGED threadVars
    PROVE  LivesInv'
  <1>1. Lives!TypeOK'
    BY DEF LivesInv, threadVars, Lives!TypeOK
  <1>2. LivesActors'
    BY DEF LivesInv, threadVars, LivesActors
  <1>3. LivesCreation'
    BY DEF LivesInv, threadVars, LivesCreation
  <1>4. LivesRecords'
    BY DEF LivesInv, threadVars, LivesRecords, LivesRecordOf
  <1>5. LivesDisposal'
    BY DEF LivesInv, threadVars, LivesDisposal
  <1>6. LivesKept'
    BY DEF LivesInv, threadVars, LivesKept
  <1>7. (Lives!NoDoubleFree /\ Lives!ReleaseLeavesNobody)'
    BY DEF LivesInv, threadVars, Lives!NoDoubleFree, Lives!ReleaseLeavesNobody
  <1> QED BY <1>1, <1>2, <1>3, <1>4, <1>5, <1>6, <1>7 DEF LivesInv

-----------------------------------------------------------------------------
(* Together *)

\* What holds of the primitive that the program uses.
SyncInv ==
    /\ primitive = "rwlock" => RwlockInv
    /\ primitive = "barrier" => BarrierInv
    /\ KeyInv

\* The invariants hold at first.
LEMMA SyncInit == Init => SyncInv
  BY RwlockInit, BarrierInit, KeyInit DEF Init, SyncInv

\* Every step keeps them.
LEMMA SyncStep ==
    ASSUME SyncInv, [Next]_vars
    PROVE  SyncInv'
  <1>1. CASE RwlockNext
    <2>1. UNCHANGED keyVars /\ primitive' = "rwlock"
      BY <1>1 DEF RwlockNext
    <2>2. KeyInv'
      BY <2>1, KeysIdle DEF SyncInv
    <2>3. RwlockInv'
      BY <1>1, RwlockStep DEF RwlockNext, Rwlock!Next, SyncInv
    <2> QED BY <2>1, <2>2, <2>3 DEF SyncInv
  <1>2. CASE BarrierNext
    <2>1. UNCHANGED keyVars /\ primitive' = "barrier"
      BY <1>2 DEF BarrierNext
    <2>2. KeyInv'
      BY <2>1, KeysIdle DEF SyncInv
    <2>3. BarrierInv'
      BY <1>2, BarrierStep DEF BarrierNext, SyncInv
    <2> QED BY <2>1, <2>2, <2>3 DEF SyncInv
  <1>3. CASE KeysNext
    <2>1. KeyInv' /\ primitive' = "keys"
      BY <1>3, KeyStep DEF KeysNext, SyncInv
    <2> QED BY <2>1 DEF SyncInv
  <1>4. CASE ThreadsNext
    <2>1. UNCHANGED keyVars /\ primitive' = "threads"
      BY <1>4 DEF ThreadsNext
    <2> QED BY <2>1, KeysIdle DEF SyncInv
  <1>5. CASE UNCHANGED vars
    <2>1. UNCHANGED keyVars /\ UNCHANGED primitive
      BY <1>5 DEF vars
    <2>2. primitive = "rwlock" => RwlockInv'
      BY <1>5, RwlockIdle DEF vars, SyncInv
    <2>3. primitive = "barrier" => BarrierInv'
      BY <1>5, BarrierIdle DEF vars, SyncInv
    <2> QED BY <2>1, <2>2, <2>3, KeysIdle DEF SyncInv
  <1> QED BY <1>1, <1>2, <1>3, <1>4, <1>5 DEF Next

\* SyncInv holds in every reachable state.
THEOREM SyncInvariant == Spec => []SyncInv
  <1>1. Init => SyncInv
    BY SyncInit
  <1>2. SyncInv /\ [Next]_vars => SyncInv'
    BY SyncStep
  <1> QED BY <1>1, <1>2, PTL DEF Spec

\* No thread waits in vain at a read-write lock or a barrier, and both keep apart
\* whom they have to, for every number of threads: no wakeup falls between the
\* test under the mutex and the sleep.
THEOREM SleepersAreSound == Spec => []SleepersSound
  <1>1. SyncInv => SleepersSound
    <2> SUFFICES ASSUME SyncInv PROVE RwlockSound /\ BarrierSound
      BY DEF SleepersSound
    <2>1. RwlockSound
      BY DEF SyncInv, RwlockInv, RwlockSound
    <2>2. BarrierSound
      BY BarrierPromises DEF SyncInv, BarrierInv, BarrierSound
    <2> QED BY <2>1, <2>2
  <1> QED BY <1>1, SyncInvariant, PTL

\* A thread reads under a key what it stored under it, a destructor gets values of
\* its own key, and a thread leaves none behind, however slots are used again.
THEOREM KeysAreSound == Spec => []KeysSound
  <1>1. SyncInv => KeysSound
    BY KeySound DEF SyncInv, KeyInv, KeysSound
  <1> QED BY <1>1, SyncInvariant, PTL

\* When no handle is shared before pthread_create returned, every record is freed
\* once and out of use, but for the one whose thread the release of the module is
\* waiting for, and that release leaves no thread behind.
THEOREM ThreadsAreSound ==
    ASSUME ~SharesEarly
    PROVE  Spec => []ThreadsSound
  <1> DEFINE Inv == primitive = "threads" => LivesInv /\ LivesEarly
  <1>1. Init => Inv
    BY LivesInit DEF Init
  <1>2. Inv /\ [Next]_vars => Inv'
    <2> SUFFICES ASSUME Inv, [Next]_vars, primitive' = "threads" PROVE (LivesInv /\ LivesEarly)'
      OBVIOUS
    <2>1. CASE ThreadsNext
      BY <2>1, LivesStep, LivesEarlyStep DEF ThreadsNext
    <2>2. CASE UNCHANGED vars
      <3>1. LivesEarly'
        BY <2>2 DEF vars, threadVars, LivesEarly, LivesLet, LivesOver, Lives!ReleaseWaitsFor
      <3> QED BY <2>2, <3>1, LivesIdle DEF vars
    <2> QED BY <2>1, <2>2 DEF Next, RwlockNext, BarrierNext, KeysNext
  <1>3. Inv => ThreadsSound
    BY LivesSound DEF ThreadsSound
  <1> QED BY <1>1, <1>2, <1>3, PTL DEF Spec

=============================================================================
