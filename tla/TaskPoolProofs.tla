--------------------------- MODULE TaskPoolProofs ---------------------------
(***************************************************************************)
(* Proofs about TaskPool for every set of modules, jobs, workers and       *)
(* contexts: IInv is inductive, and with it the pool never dereferences a  *)
(* missing job, context or owner, and a drained module stays silent.       *)
(* Relative to it no job, context or runnable owner is forgotten, and the  *)
(* pool implements TaskService.                                            *)
(***************************************************************************)
EXTENDS TaskPool, FiniteSetTheorems, SequenceTheorems, TLAPS

\* Appending an element to a queue.
LEMMA AppendFacts ==
    ASSUME NEW S, NEW q \in Seq(S), NEW x \in S
    PROVE  /\ Append(q, x) \in Seq(S)
           /\ \A y : Occurs(y, Append(q, x)) <=> Occurs(y, q) \/ y = x
           /\ NoRepeat(q) /\ ~Occurs(x, q) => NoRepeat(Append(q, x))
           /\ Append(q, x) # <<>>
  <1>1. Len(Append(q, x)) = Len(q) + 1 /\ Len(q) \in Nat
    OBVIOUS
  <1>2. Append(q, x) # <<>>
    <2>1. Len(<<>>) = 0
      OBVIOUS
    <2> QED BY <1>1, <2>1
  <1> QED BY <1>2 DEF Occurs, NoRepeat

\* Removing the head of a queue.
LEMMA TailFacts ==
    ASSUME NEW S, NEW q \in Seq(S), q # <<>>, NoRepeat(q)
    PROVE  /\ Tail(q) \in Seq(S) /\ Head(q) \in S
           /\ NoRepeat(Tail(q))
           /\ \A y : Occurs(y, Tail(q)) <=> Occurs(y, q) /\ y # Head(q)
  <1>1. Tail(q) \in Seq(S) /\ Head(q) = q[1] /\ q[1] \in S /\ Len(q) \in Nat \ {0}
    OBVIOUS
  <1>2. Len(Tail(q)) = Len(q) - 1
    OBVIOUS
  <1>3. \A i \in 1..Len(Tail(q)) : Tail(q)[i] = q[i + 1]
    OBVIOUS
  <1>4. NoRepeat(Tail(q))
    <2> SUFFICES ASSUME NEW i \in 1..Len(Tail(q)), NEW k \in 1..Len(Tail(q)),
                        Tail(q)[i] = Tail(q)[k]
                 PROVE  i = k
      BY DEF NoRepeat
    <2>1. q[i + 1] = q[k + 1] /\ i + 1 \in 1..Len(q) /\ k + 1 \in 1..Len(q)
      BY <1>1, <1>2, <1>3
    <2> QED BY <2>1 DEF NoRepeat
  <1>5. ASSUME NEW y PROVE Occurs(y, Tail(q)) <=> Occurs(y, q) /\ y # Head(q)
    <2>1. ASSUME NEW i \in 1..Len(Tail(q)), Tail(q)[i] = y
          PROVE  Occurs(y, q) /\ y # Head(q)
      <3>1. q[i + 1] = y /\ i + 1 \in 1..Len(q) /\ i + 1 # 1 /\ 1 \in 1..Len(q)
        BY <1>1, <1>2, <1>3, <2>1
      <3>2. y # q[1]
        BY <3>1 DEF NoRepeat
      <3> QED BY <1>1, <3>1, <3>2 DEF Occurs
    <2>2. ASSUME NEW i \in 1..Len(q), q[i] = y, y # Head(q)
          PROVE  Occurs(y, Tail(q))
      <3>1. i # 1
        BY <1>1, <2>2
      <3>2. i - 1 \in 1..Len(Tail(q))
        BY <1>1, <1>2, <3>1
      <3>3. Tail(q)[i - 1] = y
        BY <1>3, <2>2, <3>2
      <3> QED BY <3>2, <3>3 DEF Occurs
    <2> QED BY <2>1, <2>2 DEF Occurs
  <1> QED BY <1>1, <1>4, <1>5

\* Removing the innermost job of a stack.
LEMMA PopFacts ==
    ASSUME NEW S, NEW s \in Seq(S), s # <<>>
    PROVE  /\ SubSeq(s, 1, Len(s) - 1) \in Seq(S)
           /\ s[Len(s)] \in S
  OBVIOUS

\* What Schedule establishes: the queue, the flags and the runnable owners agree
\* after it when they agreed for every other owner before it.
LEMMA ScheduleFacts ==
    ASSUME NEW m \in Modules, NEW line \in Seq(Modules),
           NEW flagged \in [Modules -> BOOLEAN], NEW all \in BOOLEAN,
           NoRepeat(line),
           \A k \in Modules : flagged[k] <=> Occurs(k, line),
           \A k \in Modules : (flagged[k] /\ k = m) \/ k # m =>
               (flagged[k] <=> jobs'[k] # <<>> /\ contexts'[k] \ busy'[k] # {}),
           sleeping \subseteq Workers \cup {Emu},
           Schedule(m, line, flagged, all)
    PROVE  /\ queue' \in Seq(Modules)
           /\ ready' \in [Modules -> BOOLEAN]
           /\ sleeping' \subseteq Workers \cup {Emu}
           /\ NoRepeat(queue')
           /\ \A k \in Modules : ready'[k] <=> Occurs(k, queue')
           /\ \A k \in Modules : ready'[k] <=> jobs'[k] # <<>> /\ contexts'[k] \ busy'[k] # {}
  <1>1. sleeping' \subseteq Workers \cup {Emu}
    BY DEF Schedule, NotifyOne, NotifyAll
  <1>2. /\ queue' = IF Runnable(m, flagged) THEN Append(line, m) ELSE line
        /\ ready' = [flagged EXCEPT ![m] = @ \/ Runnable(m, flagged)]
    BY DEF Schedule
  <1>3. /\ Append(line, m) \in Seq(Modules)
        /\ \A k : Occurs(k, Append(line, m)) <=> Occurs(k, line) \/ k = m
        /\ ~Occurs(m, line) => NoRepeat(Append(line, m))
    BY AppendFacts
  <1>4. CASE Runnable(m, flagged)
    <2>1. queue' = Append(line, m) /\ ready' = [flagged EXCEPT ![m] = TRUE]
      BY <1>2, <1>4
    <2>2. ~flagged[m] /\ jobs'[m] # <<>> /\ contexts'[m] \ busy'[m] # {}
      BY <1>4 DEF Runnable
    <2> QED BY <1>1, <1>3, <2>1, <2>2
  <1>5. CASE ~Runnable(m, flagged)
    <2>1. queue' = line /\ ready' = flagged
      BY <1>2, <1>5
    <2>2. flagged[m] <=> jobs'[m] # <<>> /\ contexts'[m] \ busy'[m] # {}
      BY <1>5 DEF Runnable
    <2> QED BY <1>1, <2>1, <2>2
  <1> QED BY <1>4, <1>5

-----------------------------------------------------------------------------
(* Steps *)

\* `running` is zero exactly when no worker holds the owner.
LEMMA EngagedFacts ==
    ASSUME IInv, NEW m \in Modules
    PROVE  /\ IsFiniteSet(Engaged(m))
           /\ running[m] = 0 <=> Engaged(m) = {}
           /\ Quiet(m) => ~ready[m] /\ Engaged(m) = {}
           /\ entry[m] = "none" => Quiet(m)
  <1>1. IsFiniteSet(Engaged(m))
    BY PoolAssumption, FS_Subset DEF Engaged
  <1>2. running[m] = Cardinality(Engaged(m))
    BY DEF IInv, OwnerOutlivesWorkers
  <1>3. running[m] = 0 <=> Engaged(m) = {}
    BY <1>1, <1>2, FS_EmptySet
  <1>4. entry[m] = "none" => jobs[m] = <<>> /\ Engaged(m) = {}
    BY DEF IInv, QueueSound, OwnerOutlivesWorkers
  <1> QED BY <1>1, <1>3, <1>4 DEF IInv, QueueSound, Quiet

\* A job is pushed on the stack of a worker that is already inside.
LEMMA SubmitInlineStep ==
    ASSUME IInv, NEW w \in Workers, NEW j \in Jobs, SubmitInline(w, j)
    PROVE  IInv'
  <1> USE PoolAssumption DEF IInv, SubmitInline, vars, poolVars, ownerVars, moduleVars, workerVars,
                             emuVars, Inside, NotifyAll
  <1>1. TypeOK'
    BY DEF TypeOK
  <1>2. QueueSound'
    BY DEF TypeOK, QueueSound, Available
  <1>3. \A k \in Modules : Engaged(k)' = Engaged(k)
    BY DEF TypeOK, Engaged, WorkersSound, Awake
  <1>4. ContextsExclusive'
    BY <1>3 DEF TypeOK, ContextsExclusive, Engaged, WorkersSound, Awake
  <1>5. OwnerOutlivesWorkers'
    BY <1>3 DEF OwnerOutlivesWorkers
  <1>6. DrainedIsQuiet'
    BY <1>3, EngagedFacts DEF TypeOK, DrainedIsQuiet, Quiet, EmuSound
  <1>7. WorkersSound'
    BY DEF TypeOK, WorkersSound, Awake
  <1>8. EmuSound'
    BY DEF TypeOK, EmuSound
  <1> QED BY <1>1, <1>2, <1>4, <1>5, <1>6, <1>7, <1>8

\* An idle worker falls asleep.
LEMMA SleepStep ==
    ASSUME IInv, NEW w \in Workers, Sleep(w)
    PROVE  IInv'
  <1> USE PoolAssumption DEF IInv, Sleep, vars, poolVars, ownerVars, moduleVars, workerVars,
                             emuVars, Inside, NotifyAll
  <1>1. TypeOK'
    BY DEF TypeOK
  <1>2. QueueSound'
    BY DEF TypeOK, QueueSound, Available
  <1>3. \A k \in Modules : Engaged(k)' = Engaged(k)
    BY DEF TypeOK, Engaged, WorkersSound, Awake
  <1>4. ContextsExclusive'
    BY <1>3 DEF TypeOK, ContextsExclusive, Engaged, WorkersSound, Awake
  <1>5. OwnerOutlivesWorkers'
    BY <1>3 DEF OwnerOutlivesWorkers
  <1>6. DrainedIsQuiet'
    BY <1>3, EngagedFacts DEF TypeOK, DrainedIsQuiet, Quiet, EmuSound
  <1>7. WorkersSound'
    BY DEF TypeOK, WorkersSound, Awake
  <1>8. EmuSound'
    BY DEF TypeOK, EmuSound
  <1> QED BY <1>1, <1>2, <1>4, <1>5, <1>6, <1>7, <1>8

\* A worker leaves.
LEMMA ExitStep ==
    ASSUME IInv, NEW w \in Workers, Exit(w)
    PROVE  IInv'
  <1> USE PoolAssumption DEF IInv, Exit, vars, poolVars, ownerVars, moduleVars, workerVars,
                             emuVars, Inside, NotifyAll
  <1>1. TypeOK'
    BY DEF TypeOK
  <1>2. QueueSound'
    BY DEF TypeOK, QueueSound, Available
  <1>3. \A k \in Modules : Engaged(k)' = Engaged(k)
    BY DEF TypeOK, Engaged, WorkersSound, Awake
  <1>4. ContextsExclusive'
    BY <1>3 DEF TypeOK, ContextsExclusive, Engaged, WorkersSound, Awake
  <1>5. OwnerOutlivesWorkers'
    BY <1>3 DEF OwnerOutlivesWorkers
  <1>6. DrainedIsQuiet'
    BY <1>3, EngagedFacts DEF TypeOK, DrainedIsQuiet, Quiet, EmuSound
  <1>7. WorkersSound'
    BY DEF TypeOK, WorkersSound, Awake
  <1>8. EmuSound'
    BY DEF TypeOK, EmuSound
  <1> QED BY <1>1, <1>2, <1>4, <1>5, <1>6, <1>7, <1>8

\* A worker enters the guest.
LEMMA StartStep ==
    ASSUME IInv, NEW w \in Workers, Start(w)
    PROVE  IInv'
  <1> USE PoolAssumption DEF IInv, Start, vars, poolVars, ownerVars, moduleVars, workerVars,
                             emuVars, Inside, NotifyAll
  <1>1. TypeOK'
    BY DEF TypeOK
  <1>2. QueueSound'
    BY DEF TypeOK, QueueSound, Available
  <1>3. \A k \in Modules : Engaged(k)' = Engaged(k)
    BY DEF TypeOK, Engaged, WorkersSound, Awake
  <1>4. ContextsExclusive'
    BY <1>3 DEF TypeOK, ContextsExclusive, Engaged, WorkersSound, Awake
  <1>5. OwnerOutlivesWorkers'
    BY <1>3 DEF OwnerOutlivesWorkers
  <1>6. DrainedIsQuiet'
    BY <1>3, EngagedFacts DEF TypeOK, DrainedIsQuiet, Quiet, EmuSound
  <1>7. WorkersSound'
    BY DEF TypeOK, WorkersSound, Awake
  <1>8. EmuSound'
    BY DEF TypeOK, EmuSound
  <1> QED BY <1>1, <1>2, <1>4, <1>5, <1>6, <1>7, <1>8

\* A worker drops the job it picked.
LEMMA SkipStep ==
    ASSUME IInv, NEW w \in Workers, Skip(w)
    PROVE  IInv'
  <1> USE PoolAssumption DEF IInv, Skip, vars, poolVars, ownerVars, moduleVars, workerVars,
                             emuVars, Inside, NotifyAll
  <1>a. stack[w][1] \in Jobs /\ wmod[w] \in Modules
    BY DEF TypeOK, WorkersSound
  <1>1. TypeOK'
    BY <1>a DEF TypeOK
  <1>2. QueueSound'
    BY DEF TypeOK, QueueSound, Available
  <1>3. \A k \in Modules : Engaged(k)' = Engaged(k)
    BY DEF TypeOK, Engaged, WorkersSound, Awake
  <1>4. ContextsExclusive'
    BY <1>3 DEF TypeOK, ContextsExclusive, Engaged, WorkersSound, Awake
  <1>5. OwnerOutlivesWorkers'
    BY <1>3 DEF OwnerOutlivesWorkers
  <1>6. DrainedIsQuiet'
    BY <1>3, EngagedFacts DEF TypeOK, DrainedIsQuiet, Quiet, EmuSound
  <1>7. WorkersSound'
    BY DEF TypeOK, WorkersSound, Awake
  <1>8. EmuSound'
    BY DEF TypeOK, EmuSound
  <1> QED BY <1>1, <1>2, <1>4, <1>5, <1>6, <1>7, <1>8

\* The innermost job of a worker returns.
LEMMA ReturnStep ==
    ASSUME IInv, NEW w \in Workers, Return(w)
    PROVE  IInv'
  <1> USE PoolAssumption DEF IInv, Return, vars, poolVars, ownerVars, moduleVars, workerVars,
                             emuVars, Inside, NotifyAll
  <1>1. TypeOK'
    BY PopFacts DEF TypeOK
  <1>2. QueueSound'
    BY DEF TypeOK, QueueSound, Available
  <1>3. \A k \in Modules : Engaged(k)' = Engaged(k)
    BY DEF TypeOK, Engaged, WorkersSound, Awake
  <1>4. ContextsExclusive'
    BY <1>3 DEF TypeOK, ContextsExclusive, Engaged, WorkersSound, Awake
  <1>5. OwnerOutlivesWorkers'
    BY <1>3 DEF OwnerOutlivesWorkers
  <1>6. DrainedIsQuiet'
    BY <1>3, EngagedFacts DEF TypeOK, DrainedIsQuiet, Quiet, EmuSound
  <1>7. WorkersSound'
    BY DEF TypeOK, WorkersSound, Awake
  <1>8. EmuSound'
    BY DEF TypeOK, EmuSound
  <1> QED BY <1>1, <1>2, <1>4, <1>5, <1>6, <1>7, <1>8

\* The release of a context that a worker retires traps.
LEMMA ReleaseTrapsStep ==
    ASSUME IInv, NEW w \in Workers, ReleaseTraps(w)
    PROVE  IInv'
  <1> USE DEF IInv, ReleaseTraps, vars, poolVars, ownerVars, moduleVars, workerVars, emuVars
  <1>1. TypeOK'
    BY DEF TypeOK
  <1>2. QueueSound' /\ WorkersSound' /\ EmuSound'
    BY DEF QueueSound, Available, WorkersSound, EmuSound
  <1>3. ContextsExclusive'
    BY DEF ContextsExclusive, Engaged
  <1>4. OwnerOutlivesWorkers'
    BY DEF OwnerOutlivesWorkers, Engaged
  <1>5. DrainedIsQuiet'
    BY DEF DrainedIsQuiet, Quiet, Engaged
  <1> QED BY <1>1, <1>2, <1>3, <1>4, <1>5

\* The innermost job of a worker traps.
LEMMA TrapStep ==
    ASSUME IInv, NEW w \in Workers, Trap(w)
    PROVE  IInv'
  <1> USE PoolAssumption DEF IInv, Trap, vars, poolVars, ownerVars, moduleVars, workerVars,
                             emuVars, Inside, NotifyAll
  <1>1. TypeOK'
    BY PopFacts DEF TypeOK
  <1>2. QueueSound'
    BY DEF TypeOK, QueueSound, Available
  <1>3. \A k \in Modules : Engaged(k)' = Engaged(k)
    BY DEF TypeOK, Engaged, WorkersSound, Awake
  <1>4. ContextsExclusive'
    BY <1>3 DEF TypeOK, ContextsExclusive, Engaged, WorkersSound, Awake
  <1>5. OwnerOutlivesWorkers'
    BY <1>3 DEF OwnerOutlivesWorkers
  <1>6. DrainedIsQuiet'
    BY <1>3, EngagedFacts DEF TypeOK, DrainedIsQuiet, Quiet, EmuSound
  <1>7. WorkersSound'
    BY DEF TypeOK, WorkersSound, Awake
  <1>8. EmuSound'
    BY DEF TypeOK, EmuSound
  <1> QED BY <1>1, <1>2, <1>4, <1>5, <1>6, <1>7, <1>8

\* A waiter wakes for no reason.
LEMMA SpuriousStep ==
    ASSUME IInv, NEW t, Spurious(t)
    PROVE  IInv'
  <1> USE PoolAssumption DEF IInv, Spurious, vars, poolVars, ownerVars, moduleVars, workerVars,
                             emuVars, Inside, NotifyAll
  <1>1. TypeOK'
    BY DEF TypeOK
  <1>2. QueueSound'
    BY DEF TypeOK, QueueSound, Available
  <1>3. \A k \in Modules : Engaged(k)' = Engaged(k)
    BY DEF TypeOK, Engaged, WorkersSound, Awake
  <1>4. ContextsExclusive'
    BY <1>3 DEF TypeOK, ContextsExclusive, Engaged, WorkersSound, Awake
  <1>5. OwnerOutlivesWorkers'
    BY <1>3 DEF OwnerOutlivesWorkers
  <1>6. DrainedIsQuiet'
    BY <1>3, EngagedFacts DEF TypeOK, DrainedIsQuiet, Quiet, EmuSound
  <1>7. WorkersSound'
    BY DEF TypeOK, WorkersSound, Awake
  <1>8. EmuSound'
    BY DEF TypeOK, EmuSound
  <1> QED BY <1>1, <1>2, <1>4, <1>5, <1>6, <1>7, <1>8

\* The pool is destroyed.
LEMMA HaltStep ==
    ASSUME IInv, Halt
    PROVE  IInv'
  <1> USE PoolAssumption DEF IInv, Halt, vars, poolVars, ownerVars, moduleVars, workerVars,
                             emuVars, Inside, NotifyAll
  <1>1. TypeOK'
    BY DEF TypeOK
  <1>2. QueueSound'
    BY DEF TypeOK, QueueSound, Available
  <1>3. \A k \in Modules : Engaged(k)' = Engaged(k)
    BY DEF TypeOK, Engaged, WorkersSound, Awake
  <1>4. ContextsExclusive'
    BY <1>3 DEF TypeOK, ContextsExclusive, Engaged, WorkersSound, Awake
  <1>5. OwnerOutlivesWorkers'
    BY <1>3 DEF OwnerOutlivesWorkers
  <1>6. DrainedIsQuiet'
    BY <1>3, EngagedFacts DEF TypeOK, DrainedIsQuiet, Quiet, EmuSound
  <1>7. WorkersSound'
    BY DEF TypeOK, WorkersSound, Awake
  <1>8. EmuSound'
    BY DEF TypeOK, EmuSound
  <1> QED BY <1>1, <1>2, <1>4, <1>5, <1>6, <1>7, <1>8

\* The emulation thread begins to release a module.
LEMMA ReleaseStep ==
    ASSUME IInv, NEW m \in Modules, Release(m)
    PROVE  IInv'
  <1> USE PoolAssumption DEF IInv, Release, vars, poolVars, ownerVars, moduleVars, workerVars,
                             emuVars, Inside, NotifyAll
  <1>1. TypeOK'
    BY DEF TypeOK
  <1>2. QueueSound'
    BY DEF TypeOK, QueueSound, Available
  <1>3. \A k \in Modules : Engaged(k)' = Engaged(k)
    BY DEF TypeOK, Engaged, WorkersSound, Awake
  <1>4. ContextsExclusive'
    BY <1>3 DEF TypeOK, ContextsExclusive, Engaged, WorkersSound, Awake
  <1>5. OwnerOutlivesWorkers'
    BY <1>3 DEF OwnerOutlivesWorkers
  <1>6. DrainedIsQuiet'
    BY <1>3, EngagedFacts DEF TypeOK, DrainedIsQuiet, Quiet, EmuSound
  <1>7. WorkersSound'
    BY DEF TypeOK, WorkersSound, Awake
  <1>8. EmuSound'
    BY DEF TypeOK, EmuSound
  <1> QED BY <1>1, <1>2, <1>4, <1>5, <1>6, <1>7, <1>8

\* The emulation thread flags every module.
LEMMA StopModulesStep ==
    ASSUME IInv, StopModules
    PROVE  IInv'
  <1> USE PoolAssumption DEF IInv, StopModules, poolVars, ownerVars, workerVars, emuVars
  <1>1. TypeOK'
    BY DEF TypeOK
  <1>2. QueueSound' /\ WorkersSound' /\ ContextsExclusive'
    BY DEF TypeOK, QueueSound, Available, WorkersSound, ContextsExclusive, Engaged
  <1>3. \A k \in Modules : Engaged(k)' = Engaged(k)
    BY DEF Engaged
  <1>4. OwnerOutlivesWorkers'
    BY <1>3 DEF OwnerOutlivesWorkers
  <1>5. DrainedIsQuiet'
    BY <1>3, EngagedFacts DEF TypeOK, DrainedIsQuiet, Quiet
  <1>6. EmuSound'
    BY DEF TypeOK, EmuSound
  <1> QED BY <1>1, <1>2, <1>4, <1>5, <1>6

\* The draining thread looks at the predicate again.
LEMMA DrainAgainStep ==
    ASSUME IInv, DrainAgain
    PROVE  IInv'
  <1> USE PoolAssumption DEF IInv, DrainAgain, ownerVars, workerVars, moduleVars
  <1>1. TypeOK'
    BY DEF TypeOK
  <1>2. QueueSound' /\ WorkersSound' /\ ContextsExclusive'
    BY DEF TypeOK, QueueSound, Available, WorkersSound, ContextsExclusive, Engaged
  <1>3. \A k \in Modules : Engaged(k)' = Engaged(k)
    BY DEF Engaged
  <1>4. OwnerOutlivesWorkers'
    BY <1>3 DEF OwnerOutlivesWorkers
  <1>5. DrainedIsQuiet'
    BY <1>3, EngagedFacts DEF TypeOK, DrainedIsQuiet, Quiet, EmuSound
  <1>6. EmuSound'
    BY DEF TypeOK, EmuSound
  <1> QED BY <1>1, <1>2, <1>4, <1>5, <1>6

\* Drain and the release's drain close an owner in the same way.
LEMMA CloseOwnerStep ==
    ASSUME IInv, NEW m \in Modules, NEW next \in {"free", "erase"},
           CloseOwner(m, next),
           UNCHANGED <<workers, queue, halting, contexts, busy, jobs, running, ready,
                       moduleVars, workerVars, emuFrees, fate>>,
           \/ emuPc = "free" /\ next = "free" /\ emuMod' = IF emuPc' = "drain" THEN m ELSE None
           \/ emuPc = "enter" /\ next = "erase" /\ emuMod' = m /\ emuMod = m
    PROVE  IInv'
  <1> USE PoolAssumption DEF IInv, CloseOwner, workerVars, moduleVars
  <1>1. TypeOK'
    BY DEF TypeOK
  <1>2. QueueSound' /\ WorkersSound' /\ ContextsExclusive'
    BY DEF TypeOK, QueueSound, Available, WorkersSound, ContextsExclusive, Engaged
  <1>3. \A k \in Modules : Engaged(k)' = Engaged(k)
    BY DEF Engaged
  <1>4. OwnerOutlivesWorkers'
    BY <1>3 DEF OwnerOutlivesWorkers, TypeOK
  <1>5. DrainedIsQuiet'
    BY <1>3, EngagedFacts DEF TypeOK, DrainedIsQuiet, Quiet, EmuSound
  <1>6. EmuSound'
    BY DEF TypeOK, EmuSound
  <1> QED BY <1>1, <1>2, <1>4, <1>5, <1>6

\* The emulation thread drains on behalf of a module.
LEMMA DrainStep ==
    ASSUME IInv, NEW m \in Modules, Drain(m)
    PROVE  IInv'
  BY CloseOwnerStep DEF Drain

\* The emulation thread drains a module it releases.
LEMMA ReleaseDrainStep ==
    ASSUME IInv, ReleaseDrain
    PROVE  IInv'
  <1>1. emuMod \in Modules
    BY DEF IInv, EmuSound, TypeOK, ReleaseDrain
  <1> QED BY <1>1, CloseOwnerStep DEF ReleaseDrain

\* The owner record is freed: nobody holds it.
LEMMA EraseStep ==
    ASSUME IInv, Erase
    PROVE  IInv'
  <1> USE PoolAssumption DEF IInv, Erase, poolVars, workerVars, moduleVars
  <1>1. emuMod \in Modules /\ stopping[emuMod]
    BY DEF EmuSound, TypeOK
  <1>2. Quiet(emuMod) /\ ~ready[emuMod] /\ Engaged(emuMod) = {}
    BY <1>1, EngagedFacts DEF DrainedIsQuiet
  <1>3. TypeOK'
    BY <1>1 DEF TypeOK
  <1>4. \A k \in Modules : Engaged(k)' = Engaged(k)
    BY DEF Engaged
  <1>5. QueueSound'
    BY <1>1, <1>2 DEF TypeOK, QueueSound, Available, Quiet
  <1>6. OwnerOutlivesWorkers'
    BY <1>1, <1>2, <1>4 DEF OwnerOutlivesWorkers, TypeOK
  <1>7. ContextsExclusive'
    BY DEF ContextsExclusive, Engaged, TypeOK
  <1>8. WorkersSound'
    BY <1>1, <1>2 DEF WorkersSound, Engaged, Inside, TypeOK
  <1>9. DrainedIsQuiet'
    BY <1>1, <1>2, <1>4 DEF TypeOK, DrainedIsQuiet, Quiet
  <1>10. EmuSound'
    BY <1>1 DEF TypeOK, EmuSound
  <1> QED BY <1>3, <1>5, <1>6, <1>7, <1>8, <1>9, <1>10

\* When the first Submit starts workers, no worker inside an owner is disturbed.
LEMMA StartWorkersFacts ==
    ASSUME IInv, StartWorkers
    PROVE  /\ workers' \subseteq Workers
           /\ wpc' \in [Workers -> {"off", "check", "exit"} \cup Inside]
           /\ \A w \in Workers : wpc'[w] = "off" <=> w \notin workers'
           /\ \A w \in Workers : wpc[w] = wpc'[w] \/ {wpc[w], wpc'[w]} \cap Inside = {}
  <1>1. CASE workers = {}
    <2>1. PICK started \in (SUBSET Workers) \ {{}} :
              /\ workers' = started
              /\ wpc' = [w \in Workers |-> IF w \in started THEN "check" ELSE wpc[w]]
      BY <1>1 DEF StartWorkers
    <2>2. \A w \in Workers : wpc[w] = "off"
      BY <1>1 DEF IInv, WorkersSound
    <2> QED BY <2>1, <2>2 DEF IInv, TypeOK, Inside
  <1>2. CASE workers # {}
    <2>1. workers' = workers /\ wpc' = wpc
      BY <1>2 DEF StartWorkers
    <2>2. /\ workers \subseteq Workers
          /\ wpc \in [Workers -> {"off", "check", "exit"} \cup Inside]
          /\ \A w \in Workers : wpc[w] = "off" <=> w \notin workers
      BY DEF IInv, TypeOK, WorkersSound
    <2> QED BY <2>1, <2>2
  <1> QED BY <1>1, <1>2

\* Submit opens the owner but cannot create a context.
LEMMA SubmitFailsStep ==
    ASSUME IInv, NEW m \in Modules, SubmitFails(m)
    PROVE  IInv'
  <1> USE PoolAssumption DEF IInv, emuVars
  <1>1. /\ entry[m] # "closing" /\ ~stopping[m]
        /\ entry' = [entry EXCEPT ![m] = "open"]
        /\ \E trapped \in BOOLEAN : disabled' = [disabled EXCEPT ![m] = @ \/ trapped]
        /\ UNCHANGED <<queue, sleeping, halting, contexts, busy, jobs, running, ready,
                       stopping, wmod, wctx, stack, emuPc, emuMod, emuFrees, fate>>
        /\ StartWorkers
    BY DEF SubmitFails, Admits
  <1>2. /\ workers' \subseteq Workers
        /\ wpc' \in [Workers -> {"off", "check", "exit"} \cup Inside]
        /\ \A w \in Workers : wpc'[w] = "off" <=> w \notin workers'
        /\ \A w \in Workers : wpc[w] = wpc'[w] \/ {wpc[w], wpc'[w]} \cap Inside = {}
    BY <1>1, StartWorkersFacts
  <1>3. \A k \in Modules : Engaged(k)' = Engaged(k)
    BY <1>2, <1>1 DEF Engaged
  <1>4. TypeOK'
    BY <1>1, <1>2 DEF TypeOK
  <1>5. QueueSound'
    BY <1>1 DEF TypeOK, QueueSound, Available
  <1>6. ContextsExclusive'
    <2>1. \A k \in Modules : \A v \in Engaged(k) : wpc'[v] = wpc[v]
      BY <1>2 DEF Engaged
    <2>2. \A k \in Modules, c \in Contexts :
              c \in busy'[k] <=> \E v \in Engaged(k)' : wpc'[v] # "retire" /\ wctx'[v] = c
      BY <1>1, <1>3, <2>1 DEF ContextsExclusive
    <2> QED BY <1>1, <2>2 DEF ContextsExclusive
  <1>7. OwnerOutlivesWorkers'
    BY <1>1, <1>3 DEF OwnerOutlivesWorkers, TypeOK
  <1>8. DrainedIsQuiet'
    BY <1>1, <1>3, EngagedFacts DEF TypeOK, DrainedIsQuiet, Quiet, EmuSound
  <1>9. WorkersSound'
    BY <1>1, <1>2 DEF WorkersSound, Inside, TypeOK
  <1>10. EmuSound'
    BY <1>1 DEF TypeOK, EmuSound
  <1> QED BY <1>4, <1>5, <1>6, <1>7, <1>8, <1>9, <1>10

\* Submit appends a job, with a context to run it in.
LEMMA SubmitStep ==
    ASSUME IInv, NEW m \in Modules, NEW j \in Jobs, Submit(m, j)
    PROVE  IInv'
  <1> USE PoolAssumption DEF IInv, emuVars, moduleVars
  <1>1. /\ entry[m] # "closing" /\ ~stopping[m]
        /\ entry' = [entry EXCEPT ![m] = "open"]
        /\ jobs' = [jobs EXCEPT ![m] = Append(@, j)]
        /\ fate' = [fate EXCEPT ![j] = "accepted"]
        /\ UNCHANGED <<halting, running, busy, disabled, stopping, wmod, wctx, stack,
                       emuPc, emuMod, emuFrees>>
        /\ StartWorkers
        /\ Schedule(m, queue, ready, FALSE)
    BY DEF Submit, Admits
  <1>2. /\ workers' \subseteq Workers
        /\ wpc' \in [Workers -> {"off", "check", "exit"} \cup Inside]
        /\ \A w \in Workers : wpc'[w] = "off" <=> w \notin workers'
        /\ \A w \in Workers : wpc[w] = wpc'[w] \/ {wpc[w], wpc'[w]} \cap Inside = {}
    BY <1>1, StartWorkersFacts
  <1>3. /\ contexts' \in [Modules -> SUBSET Contexts]
        /\ \A k \in Modules : contexts[k] \subseteq contexts'[k] /\ (k # m => contexts'[k] = contexts[k])
        /\ \A w \in Workers, k \in Modules : wctx[w] \in contexts'[k] => wctx[w] \in contexts[k]
    <2>1. CASE WantsContext(m)
      <3>1. PICK c \in Contexts \ (contexts[m] \cup {wctx[w] : w \in Workers}) :
                contexts' = [contexts EXCEPT ![m] = @ \cup {c}]
        BY <2>1 DEF Submit
      <3> QED BY <3>1 DEF TypeOK
    <2>2. CASE ~WantsContext(m)
      BY <2>2 DEF Submit, TypeOK
    <2> QED BY <2>1, <2>2
  <1>4. \A k \in Modules : Engaged(k)' = Engaged(k)
    BY <1>2, <1>1 DEF Engaged
  <1>5. /\ jobs' \in [Modules -> Seq(Jobs)]
        /\ jobs'[m] # <<>>
        /\ \A k \in Modules : k # m => jobs'[k] = jobs[k]
    <2>1. jobs[m] \in Seq(Jobs)
      BY DEF TypeOK
    <2>2. Append(jobs[m], j) \in Seq(Jobs) /\ Append(jobs[m], j) # <<>>
      BY <2>1, AppendFacts
    <2> QED BY <1>1, <2>2 DEF TypeOK
  <1>6. /\ queue' \in Seq(Modules)
        /\ ready' \in [Modules -> BOOLEAN]
        /\ sleeping' \subseteq Workers \cup {Emu}
        /\ NoRepeat(queue')
        /\ \A k \in Modules : ready'[k] <=> Occurs(k, queue')
        /\ \A k \in Modules : ready'[k] <=> jobs'[k] # <<>> /\ contexts'[k] \ busy'[k] # {}
    <2>1. \A k \in Modules : (ready[k] /\ k = m) \/ k # m =>
              (ready[k] <=> jobs'[k] # <<>> /\ contexts'[k] \ busy'[k] # {})
      BY <1>1, <1>3, <1>5 DEF QueueSound, Available
    <2> QED BY <1>1, <2>1, ScheduleFacts DEF QueueSound, TypeOK
  <1>7. TypeOK'
    BY <1>1, <1>2, <1>3, <1>5, <1>6 DEF TypeOK
  <1>8. QueueSound'
    <2>1. \A k \in Modules : entry'[k] = "none" => jobs'[k] = <<>>
      BY <1>1, <1>5 DEF QueueSound, TypeOK
    <2> QED BY <1>6, <2>1 DEF QueueSound, Available
  <1>9. ContextsExclusive'
    <2>1. \A k \in Modules : \A v \in Engaged(k) : wpc'[v] = wpc[v]
      BY <1>2 DEF Engaged
    <2>2. \A k \in Modules, c \in Contexts :
              c \in busy'[k] <=> \E v \in Engaged(k)' : wpc'[v] # "retire" /\ wctx'[v] = c
      BY <1>1, <1>4, <2>1 DEF ContextsExclusive
    <2> QED BY <1>1, <2>2 DEF ContextsExclusive
  <1>10. OwnerOutlivesWorkers'
    BY <1>1, <1>4 DEF OwnerOutlivesWorkers, TypeOK
  <1>11. DrainedIsQuiet'
    <2> SUFFICES ASSUME NEW k \in Modules,
                        \/ entry'[k] = "closing" /\ ~(emuPc' = "drain" /\ emuMod' = k)
                        \/ emuPc' = "erase" /\ emuMod' = k
                        \/ entry'[k] = "none" /\ stopping'[k] /\ emuMod' # k
                 PROVE  Quiet(k)' /\ ~ready'[k] /\ Engaged(k)' = {}
      BY DEF DrainedIsQuiet
    <2>1. k # m
      BY <1>1 DEF EmuSound, TypeOK
    <2>2. Quiet(k) /\ Engaged(k) = {}
      BY <1>1, <2>1 DEF DrainedIsQuiet, TypeOK
    <2> QED BY <1>1, <1>4, <1>5, <1>6, <2>1, <2>2 DEF Quiet
  <1>12. WorkersSound'
    BY <1>1, <1>2, <1>3 DEF WorkersSound, Inside, TypeOK
  <1>13. EmuSound'
    BY <1>1 DEF TypeOK, EmuSound
  <1> QED BY <1>7, <1>8, <1>9, <1>10, <1>11, <1>12, <1>13

\* A worker takes the first job of the first ready owner.
LEMMA TakeStep ==
    ASSUME IInv, NEW w \in Workers, Take(w)
    PROVE  IInv'
  <1>0. PICK m \in Modules : m = Head(queue)
    BY TailFacts DEF Take, IInv, TypeOK, QueueSound
  <1> DEFINE fresh == [ready EXCEPT ![m] = FALSE]
  <1> USE PoolAssumption DEF IInv, moduleVars, emuVars
  <1>1. /\ queue # <<>> /\ wpc[w] = "check"
        /\ UNCHANGED <<workers, halting, entry, disabled, stopping, emuPc, emuMod, emuFrees,
                       fate, contexts>>
        /\ wmod' = [wmod EXCEPT ![w] = m]
        /\ stack' = [stack EXCEPT ![w] = <<NextJob(m)>>]
        /\ jobs' = [jobs EXCEPT ![m] = Tail(@)]
        /\ running' = [running EXCEPT ![m] = @ + 1]
        /\ wpc' = [wpc EXCEPT ![w] = "picked"]
        /\ Schedule(m, Tail(queue), fresh, FALSE)
    BY <1>0 DEF Take, Awake
  <1>2. PICK c \in Available(m) : /\ busy' = [busy EXCEPT ![m] = @ \cup {c}]
                                  /\ wctx' = [wctx EXCEPT ![w] = c]
    BY <1>0 DEF Take
  <1>3. /\ Tail(queue) \in Seq(Modules)
        /\ NoRepeat(Tail(queue))
        /\ \A y : Occurs(y, Tail(queue)) <=> Occurs(y, queue) /\ y # m
    BY <1>0, <1>1, TailFacts DEF TypeOK, QueueSound
  <1>4. Occurs(m, queue)
    BY <1>0, <1>1 DEF TypeOK, Occurs
  <1>5. jobs[m] # <<>> /\ entry[m] # "none" /\ ~Quiet(m)
    BY <1>3, <1>4 DEF QueueSound, Quiet
  <1>6. c \in Contexts /\ c \in contexts[m] /\ c \notin busy[m]
    BY <1>2, <1>3 DEF Available, TypeOK
  <1>7. wmod[w] = None /\ wctx[w] = None /\ wpc[w] \notin Inside
    BY <1>1 DEF WorkersSound, Inside
  <1>8. NextJob(m) \in Jobs /\ Tail(jobs[m]) \in Seq(Jobs)
    BY <1>3, <1>5 DEF TypeOK, NextJob
  <1> HIDE DEF fresh
  <1>9. jobs' \in [Modules -> Seq(Jobs)] /\ busy' \in [Modules -> SUBSET Contexts]
    BY <1>1, <1>2, <1>3, <1>6, <1>8 DEF TypeOK
  <1>10. /\ queue' \in Seq(Modules)
         /\ ready' \in [Modules -> BOOLEAN]
         /\ sleeping' \subseteq Workers \cup {Emu}
         /\ NoRepeat(queue')
         /\ \A k \in Modules : ready'[k] <=> Occurs(k, queue')
         /\ \A k \in Modules : ready'[k] <=> jobs'[k] # <<>> /\ contexts'[k] \ busy'[k] # {}
    <2>1. /\ fresh \in [Modules -> BOOLEAN] /\ ~fresh[m]
          /\ \A k \in Modules : k # m => fresh[k] = ready[k]
      BY <1>3 DEF fresh, TypeOK
    <2>2. \A k \in Modules : fresh[k] <=> Occurs(k, Tail(queue))
      BY <1>3, <2>1 DEF QueueSound
    <2>3. \A k \in Modules : (fresh[k] /\ k = m) \/ k # m =>
              (fresh[k] <=> jobs'[k] # <<>> /\ contexts'[k] \ busy'[k] # {})
      BY <1>1, <1>2, <1>3, <2>1 DEF QueueSound, Available, TypeOK
    <2> QED BY <1>1, <1>3, <2>1, <2>2, <2>3, ScheduleFacts DEF TypeOK
  <1>11. Engaged(m)' = Engaged(m) \cup {w} /\ w \notin Engaged(m)
    <2>1. wpc'[w] = "picked" /\ wmod'[w] = m
      BY <1>1 DEF TypeOK
    <2>2. \A v \in Workers : v # w => wpc'[v] = wpc[v] /\ wmod'[v] = wmod[v]
      BY <1>1 DEF TypeOK
    <2> QED BY <1>7, <2>1, <2>2 DEF Engaged, Inside
  <1>12. \A k \in Modules : k # m => Engaged(k)' = Engaged(k)
    BY <1>1, <1>7, <1>3 DEF Engaged, Inside, TypeOK
  <1>13. TypeOK'
    <2>1. running' \in [Modules -> Nat] /\ contexts' \in [Modules -> SUBSET Contexts]
      BY <1>1, <1>3 DEF TypeOK
    <2>2. /\ wpc' \in [Workers -> {"off", "check", "exit"} \cup Inside]
          /\ wmod' \in [Workers -> Modules \cup {None}]
          /\ wctx' \in [Workers -> Contexts \cup {None}]
      BY <1>1, <1>2, <1>3, <1>6 DEF TypeOK, Inside
    <2>3. stack' \in [Workers -> Seq(Jobs)]
      BY <1>1, <1>8 DEF TypeOK
    <2> QED BY <1>1, <1>9, <1>10, <2>1, <2>2, <2>3 DEF TypeOK
  <1>14. QueueSound'
    <2>1. \A k \in Modules : entry'[k] = "none" => jobs'[k] = <<>>
      BY <1>1, <1>3, <1>5 DEF QueueSound, TypeOK
    <2> QED BY <1>10, <2>1 DEF QueueSound, Available
  <1>15. ContextsExclusive'
    <2>1. ASSUME NEW u \in Workers, NEW v \in Workers,
                 u # v, wmod'[u] # None, wmod'[u] = wmod'[v]
          PROVE  wctx'[u] # wctx'[v]
      <3>1. ASSUME NEW x \in Workers, x # w, wmod[x] = m
            PROVE  wctx[x] # c
        BY <3>1, <1>3, <1>6, <1>7 DEF WorkersSound, ContextsExclusive, Engaged, Inside, TypeOK
      <3> QED BY <1>1, <1>2, <2>1, <3>1 DEF ContextsExclusive, TypeOK
    <2>2. ASSUME NEW k \in Modules, NEW d \in Contexts
          PROVE  d \in busy'[k] <=> \E v \in Engaged(k)' : wpc'[v] # "retire" /\ wctx'[v] = d
      <3>1. d \in busy[k] <=> \E v \in Engaged(k) : wpc[v] # "retire" /\ wctx[v] = d
        BY DEF ContextsExclusive
      <3>2. \A v \in Workers : v # w => wpc'[v] = wpc[v] /\ wctx'[v] = wctx[v]
        BY <1>1, <1>2 DEF TypeOK
      <3>3. wpc'[w] = "picked" /\ wctx'[w] = c
        BY <1>1, <1>2 DEF TypeOK
      <3>4. CASE k = m
        <4>1. d \in busy'[k] <=> d \in busy[k] \/ d = c
          BY <3>4, <1>2, <1>3 DEF TypeOK
        <4>2. Engaged(k)' = Engaged(k) \cup {w} /\ w \notin Engaged(k) /\ Engaged(k) \subseteq Workers
          BY <3>4, <1>11 DEF Engaged
        <4> QED BY <3>1, <3>2, <3>3, <4>1, <4>2
      <3>5. CASE k # m
        <4>1. w \notin Engaged(k)
          BY <1>7 DEF Engaged
        <4> QED BY <3>1, <3>2, <3>5, <4>1, <1>2, <1>3, <1>12 DEF TypeOK, Engaged
      <3> QED BY <3>4, <3>5
    <2> QED BY <2>1, <2>2 DEF ContextsExclusive
  <1>16. OwnerOutlivesWorkers'
    <2>1. Cardinality(Engaged(m)') = Cardinality(Engaged(m)) + 1
      BY <1>3, <1>11, EngagedFacts, FS_AddElement
    <2>2. \A k \in Modules : running[k] = Cardinality(Engaged(k))
      BY DEF OwnerOutlivesWorkers
    <2>3. \A k \in Modules : running'[k] = Cardinality(Engaged(k)')
      BY <1>1, <1>3, <1>12, <2>1, <2>2 DEF TypeOK
    <2>4. \A k \in Modules : Engaged(k)' # {} => entry'[k] # "none"
      BY <1>1, <1>5, <1>12 DEF OwnerOutlivesWorkers
    <2> QED BY <2>3, <2>4 DEF OwnerOutlivesWorkers
  <1>17. DrainedIsQuiet'
    <2> SUFFICES ASSUME NEW k \in Modules,
                        \/ entry[k] = "closing" /\ ~(emuPc = "drain" /\ emuMod = k)
                        \/ emuPc = "erase" /\ emuMod = k
                        \/ entry[k] = "none" /\ stopping[k] /\ emuMod # k
                 PROVE  Quiet(k)' /\ ~ready'[k] /\ Engaged(k)' = {}
      BY <1>1 DEF DrainedIsQuiet
    <2>1. Quiet(k) /\ Engaged(k) = {}
      BY DEF DrainedIsQuiet
    <2>2. k # m
      BY <1>5, <2>1
    <2> QED BY <1>1, <1>10, <1>12, <2>1, <2>2 DEF Quiet, TypeOK
  <1>18. WorkersSound'
    BY <1>1, <1>2, <1>3, <1>6, <1>8 DEF WorkersSound, Inside, TypeOK
  <1>19. EmuSound'
    BY <1>1 DEF EmuSound
  <1> QED BY <1>13, <1>14, <1>15, <1>16, <1>17, <1>18, <1>19

\* A worker leaves an owner's busy contexts: the common part of Complete and
\* Retire.
LEMMA UnbusyFacts ==
    ASSUME IInv, NEW w \in Workers, NEW m \in Modules, wmod[w] = m, wpc[w] = "run",
           busy' = [busy EXCEPT ![m] = @ \ {wctx[w]}]
    PROVE  /\ busy' \in [Modules -> SUBSET Contexts]
           /\ wctx[w] \in Contexts /\ wctx[w] \in busy[m] /\ wctx[w] \in contexts[m]
           /\ entry[m] # "none" /\ ~Quiet(m)
           /\ \A k \in Modules, c \in Contexts :
                  c \in busy'[k] <=> \E v \in Engaged(k) \ {w} : wpc[v] # "retire" /\ wctx[v] = c
  <1> USE PoolAssumption DEF IInv
  <1>1. w \in Engaged(m) /\ \A k \in Modules : k # m => w \notin Engaged(k)
    BY DEF Engaged, Inside
  <1>2. wctx[w] \in Contexts /\ wctx[w] \in contexts[m]
    BY DEF WorkersSound, Inside
  <1>3. wctx[w] \in busy[m]
    BY <1>1, <1>2 DEF ContextsExclusive
  <1>4. entry[m] # "none" /\ ~Quiet(m)
    BY <1>1, EngagedFacts DEF OwnerOutlivesWorkers
  <1>5. ASSUME NEW k \in Modules, NEW c \in Contexts
        PROVE  c \in busy'[k] <=> \E v \in Engaged(k) \ {w} : wpc[v] # "retire" /\ wctx[v] = c
    <2>1. c \in busy[k] <=> \E v \in Engaged(k) : wpc[v] # "retire" /\ wctx[v] = c
      BY DEF ContextsExclusive
    <2>2. CASE k # m
      BY <2>1, <2>2, <1>1 DEF TypeOK
    <2>3. CASE k = m
      <3>1. c \in busy'[k] <=> c \in busy[k] /\ c # wctx[w]
        BY <2>3 DEF TypeOK
      <3>2. ASSUME NEW v \in Engaged(k) \ {w} PROVE wctx[v] # wctx[w]
        BY <2>3, PoolAssumption DEF ContextsExclusive, Engaged
      <3> QED BY <2>1, <3>1, <3>2
    <2> QED BY <2>2, <2>3
  <1>6. busy' \in [Modules -> SUBSET Contexts]
    BY DEF TypeOK
  <1> QED BY <1>2, <1>3, <1>4, <1>5, <1>6

\* What it means for the other workers when one of them lets go of its owner.
LEMMA LeaveFacts ==
    ASSUME IInv, NEW w \in Workers, NEW m \in Modules, wmod[w] = m, wpc[w] \in Inside,
           running' = [running EXCEPT ![m] = @ - 1],
           wpc' = [wpc EXCEPT ![w] = "check"],
           wmod' = [wmod EXCEPT ![w] = None]
    PROVE  /\ running' \in [Modules -> Nat]
           /\ \A k \in Modules : Engaged(k)' = Engaged(k) \ {w}
           /\ \A k \in Modules : running'[k] = Cardinality(Engaged(k)')
           /\ entry[m] # "none" /\ ~Quiet(m)
  <1> USE PoolAssumption DEF IInv
  <1>1. w \in Engaged(m) /\ \A k \in Modules : k # m => w \notin Engaged(k)
    BY DEF Engaged, Inside
  <1>2. \A k \in Modules : Engaged(k)' = Engaged(k) \ {w}
    <2>1. wpc'[w] \notin Inside
      BY DEF TypeOK, Inside
    <2>2. \A v \in Workers : v # w => wpc'[v] = wpc[v] /\ wmod'[v] = wmod[v]
      BY DEF TypeOK
    <2> QED BY <2>1, <2>2 DEF Engaged
  <1>3. Cardinality(Engaged(m) \ {w}) = Cardinality(Engaged(m)) - 1 /\ running[m] \in Nat \ {0}
    <2>1. Engaged(m) # {}
      BY <1>1
    <2>2. running[m] \in Nat \ {0}
      BY <2>1, EngagedFacts DEF TypeOK
    <2> QED BY <1>1, <2>2, EngagedFacts, FS_RemoveElement
  <1>4. \A k \in Modules : running[k] = Cardinality(Engaged(k))
    BY DEF OwnerOutlivesWorkers
  <1>5. running' \in [Modules -> Nat]
    BY <1>3 DEF TypeOK
  <1>6. \A k \in Modules : running'[k] = Cardinality(Engaged(k)')
    <2>1. \A k \in Modules : k # m => Engaged(k) \ {w} = Engaged(k)
      BY <1>1
    <2>2. running'[m] = running[m] - 1 /\ \A k \in Modules : k # m => running'[k] = running[k]
      BY DEF TypeOK
    <2>3. running'[m] = Cardinality(Engaged(m)')
      BY <1>2, <1>3, <1>4, <2>2
    <2> QED BY <1>2, <1>4, <2>1, <2>2, <2>3
  <1>7. entry[m] # "none" /\ ~Quiet(m)
    BY <1>1, EngagedFacts DEF OwnerOutlivesWorkers
  <1> QED BY <1>2, <1>5, <1>6, <1>7

\* A worker finishes its job and keeps the context.
LEMMA CompleteStep ==
    ASSUME IInv, NEW w \in Workers, Complete(w)
    PROVE  IInv'
  <1> USE PoolAssumption DEF IInv, moduleVars, emuVars
  <1>0. PICK m \in Modules : m = wmod[w]
    BY DEF Complete, WorkersSound, Inside
  <1>1. /\ wpc[w] = "run" /\ stack[w] = <<>> /\ wmod[w] = m
        /\ UNCHANGED <<workers, halting, entry, disabled, stopping, stack, emuPc, emuMod,
                       emuFrees, fate, contexts, jobs>>
        /\ busy' = [busy EXCEPT ![m] = @ \ {wctx[w]}]
        /\ running' = [running EXCEPT ![m] = @ - 1]
        /\ wpc' = [wpc EXCEPT ![w] = "check"]
        /\ wmod' = [wmod EXCEPT ![w] = None]
        /\ wctx' = [wctx EXCEPT ![w] = None]
        /\ Schedule(m, queue, ready, TRUE)
    BY <1>0 DEF Complete
  <1>2. /\ busy' \in [Modules -> SUBSET Contexts]
        /\ wctx[w] \in Contexts /\ wctx[w] \in busy[m] /\ wctx[w] \in contexts[m]
        /\ \A k \in Modules, c \in Contexts :
               c \in busy'[k] <=> \E v \in Engaged(k) \ {w} : wpc[v] # "retire" /\ wctx[v] = c
    BY <1>1, UnbusyFacts
  <1>3. /\ running' \in [Modules -> Nat]
        /\ \A k \in Modules : Engaged(k)' = Engaged(k) \ {w}
        /\ \A k \in Modules : running'[k] = Cardinality(Engaged(k)')
        /\ entry[m] # "none" /\ ~Quiet(m)
    BY <1>1, LeaveFacts DEF Inside
  <1>4. /\ queue' \in Seq(Modules)
        /\ ready' \in [Modules -> BOOLEAN]
        /\ sleeping' \subseteq Workers \cup {Emu}
        /\ NoRepeat(queue')
        /\ \A k \in Modules : ready'[k] <=> Occurs(k, queue')
        /\ \A k \in Modules : ready'[k] <=> jobs'[k] # <<>> /\ contexts'[k] \ busy'[k] # {}
    <2>1. \A k \in Modules : (ready[k] /\ k = m) \/ k # m =>
              (ready[k] <=> jobs'[k] # <<>> /\ contexts'[k] \ busy'[k] # {})
      BY <1>1, <1>2 DEF QueueSound, Available, TypeOK
    <2> QED BY <1>1, <2>1, ScheduleFacts DEF QueueSound, TypeOK
  <1>5. TypeOK'
    BY <1>1, <1>2, <1>3, <1>4 DEF TypeOK, Inside
  <1>6. QueueSound'
    BY <1>1, <1>4 DEF QueueSound, Available
  <1>7. ContextsExclusive'
    <2>1. \A v \in Workers : v # w => wpc'[v] = wpc[v] /\ wctx'[v] = wctx[v] /\ wmod'[v] = wmod[v]
      BY <1>1 DEF TypeOK
    <2>2. wmod'[w] = None
      BY <1>1 DEF TypeOK
    <2>3. \A k \in Modules : Engaged(k) \subseteq Workers
      BY DEF Engaged
    <2>4. \A k \in Modules, c \in Contexts :
              c \in busy'[k] <=> \E v \in Engaged(k)' : wpc'[v] # "retire" /\ wctx'[v] = c
      BY <1>2, <1>3, <2>1, <2>3
    <2> QED BY <2>1, <2>2, <2>4 DEF ContextsExclusive
  <1>8. OwnerOutlivesWorkers'
    BY <1>1, <1>3 DEF OwnerOutlivesWorkers
  <1>9. DrainedIsQuiet'
    BY <1>1, <1>3, <1>4, EngagedFacts DEF DrainedIsQuiet, Quiet, TypeOK
  <1>10. WorkersSound'
    BY <1>1, <1>2 DEF WorkersSound, Inside, TypeOK
  <1>11. EmuSound'
    BY <1>1 DEF EmuSound
  <1> QED BY <1>5, <1>6, <1>7, <1>8, <1>9, <1>10, <1>11

\* A worker finishes its job and takes the context out of the owner.
LEMMA RetireStep ==
    ASSUME IInv, NEW w \in Workers, Retire(w)
    PROVE  IInv'
  <1> USE PoolAssumption DEF IInv, moduleVars, emuVars, poolVars
  <1>0. PICK m \in Modules : m = wmod[w]
    BY DEF Retire, WorkersSound, Inside
  <1>1. /\ wpc[w] = "run" /\ stack[w] = <<>> /\ wmod[w] = m /\ jobs[m] = <<>>
        /\ UNCHANGED <<workers, queue, sleeping, halting, entry, disabled, stopping, stack,
                       emuPc, emuMod, emuFrees, fate, jobs, running, ready, wmod, wctx>>
        /\ busy' = [busy EXCEPT ![m] = @ \ {wctx[w]}]
        /\ contexts' = [contexts EXCEPT ![m] = @ \ {wctx[w]}]
        /\ wpc' = [wpc EXCEPT ![w] = "retire"]
    BY <1>0 DEF Retire, Retires
  <1>2. /\ busy' \in [Modules -> SUBSET Contexts]
        /\ wctx[w] \in Contexts /\ wctx[w] \in busy[m] /\ wctx[w] \in contexts[m]
        /\ \A k \in Modules, c \in Contexts :
               c \in busy'[k] <=> \E v \in Engaged(k) \ {w} : wpc[v] # "retire" /\ wctx[v] = c
    BY <1>1, UnbusyFacts
  <1>3. wpc'[w] = "retire" /\ \A v \in Workers : v # w => wpc'[v] = wpc[v]
    BY <1>1 DEF TypeOK
  <1>4. \A k \in Modules : Engaged(k)' = Engaged(k)
    BY <1>1, <1>3 DEF Engaged, Inside
  <1>5. /\ contexts' \in [Modules -> SUBSET Contexts]
        /\ contexts'[m] = contexts[m] \ {wctx[w]}
        /\ \A k \in Modules : k # m => contexts'[k] = contexts[k]
    BY <1>1 DEF TypeOK
  <1>6. TypeOK'
    BY <1>1, <1>2, <1>5 DEF TypeOK, Inside
  <1>7. QueueSound'
    <2>1. \A k \in Modules : k # m => contexts'[k] \ busy'[k] = contexts[k] \ busy[k]
      BY <1>1, <1>5 DEF TypeOK
    <2> QED BY <1>1, <2>1 DEF QueueSound, Available
  <1>8. ContextsExclusive'
    <2>1. \A k \in Modules : Engaged(k) \subseteq Workers
      BY DEF Engaged
    <2>2. \A k \in Modules, c \in Contexts :
              c \in busy'[k] <=> \E v \in Engaged(k)' : wpc'[v] # "retire" /\ wctx'[v] = c
      BY <1>1, <1>2, <1>3, <1>4, <2>1
    <2> QED BY <1>1, <2>2 DEF ContextsExclusive
  <1>9. OwnerOutlivesWorkers'
    BY <1>1, <1>4 DEF OwnerOutlivesWorkers
  <1>10. DrainedIsQuiet'
    BY <1>1, <1>4 DEF DrainedIsQuiet, Quiet
  <1>11. WorkersSound'
    <2> SUFFICES ASSUME NEW v \in Workers PROVE WorkersSound!(v)'
      BY DEF WorkersSound
    <2>1. CASE v = w
      BY <1>1, <1>2, <1>3, <1>5, <2>1 DEF WorkersSound, Inside
    <2>2. CASE v # w
      <3>1. wmod[v] = m => wctx[v] # wctx[w]
        BY <1>1, <2>2 DEF ContextsExclusive
      <3>2. wpc[v] \in Inside => wmod[v] \in Modules
        BY DEF WorkersSound
      <3> QED BY <1>1, <1>3, <1>5, <2>2, <3>1, <3>2 DEF WorkersSound, Inside
    <2> QED BY <2>1, <2>2
  <1>12. EmuSound'
    BY <1>1 DEF EmuSound
  <1> QED BY <1>6, <1>7, <1>8, <1>9, <1>10, <1>11, <1>12

\* A worker has destroyed the context it retired.
LEMMA RetiredStep ==
    ASSUME IInv, NEW w \in Workers, Retired(w)
    PROVE  IInv'
  <1> USE PoolAssumption DEF IInv, moduleVars, emuVars
  <1>0. PICK m \in Modules : m = wmod[w]
    BY DEF Retired, WorkersSound, Inside
  <1>1. /\ wpc[w] = "retire" /\ stack[w] = <<>> /\ wmod[w] = m
        /\ UNCHANGED <<workers, halting, entry, disabled, stopping, stack, emuPc, emuMod,
                       emuFrees, fate, contexts, busy, jobs>>
        /\ running' = [running EXCEPT ![m] = @ - 1]
        /\ wpc' = [wpc EXCEPT ![w] = "check"]
        /\ wmod' = [wmod EXCEPT ![w] = None]
        /\ wctx' = [wctx EXCEPT ![w] = None]
        /\ Schedule(m, queue, ready, TRUE)
    BY <1>0 DEF Retired
  <1>2. /\ running' \in [Modules -> Nat]
        /\ \A k \in Modules : Engaged(k)' = Engaged(k) \ {w}
        /\ \A k \in Modules : running'[k] = Cardinality(Engaged(k)')
        /\ entry[m] # "none" /\ ~Quiet(m)
    BY <1>1, LeaveFacts DEF Inside
  <1>3. /\ queue' \in Seq(Modules)
        /\ ready' \in [Modules -> BOOLEAN]
        /\ sleeping' \subseteq Workers \cup {Emu}
        /\ NoRepeat(queue')
        /\ \A k \in Modules : ready'[k] <=> Occurs(k, queue')
        /\ \A k \in Modules : ready'[k] <=> jobs'[k] # <<>> /\ contexts'[k] \ busy'[k] # {}
    <2>1. \A k \in Modules : ready[k] <=> jobs'[k] # <<>> /\ contexts'[k] \ busy'[k] # {}
      BY <1>1 DEF QueueSound, Available
    <2> QED BY <1>1, <2>1, ScheduleFacts DEF QueueSound, TypeOK
  <1>4. TypeOK'
    BY <1>1, <1>2, <1>3 DEF TypeOK, Inside
  <1>5. QueueSound'
    BY <1>1, <1>3 DEF QueueSound, Available
  <1>6. ContextsExclusive'
    <2>1. \A v \in Workers : v # w => wpc'[v] = wpc[v] /\ wctx'[v] = wctx[v] /\ wmod'[v] = wmod[v]
      BY <1>1 DEF TypeOK
    <2>2. wmod'[w] = None
      BY <1>1 DEF TypeOK
    <2>3. \A k \in Modules, c \in Contexts :
              c \in busy'[k] <=> \E v \in Engaged(k)' : wpc'[v] # "retire" /\ wctx'[v] = c
      BY <1>1, <1>2, <2>1 DEF ContextsExclusive, Engaged
    <2> QED BY <2>1, <2>2, <2>3 DEF ContextsExclusive
  <1>7. OwnerOutlivesWorkers'
    BY <1>1, <1>2 DEF OwnerOutlivesWorkers
  <1>8. DrainedIsQuiet'
    BY <1>1, <1>2, <1>3, EngagedFacts DEF DrainedIsQuiet, Quiet, TypeOK
  <1>9. WorkersSound'
    BY <1>1 DEF WorkersSound, Inside, TypeOK
  <1>10. EmuSound'
    BY <1>1 DEF EmuSound
  <1> QED BY <1>4, <1>5, <1>6, <1>7, <1>8, <1>9, <1>10

-----------------------------------------------------------------------------
(* Theorems *)

\* The invariant holds before the first Submit.
LEMMA InitIInv == Init => IInv
  <1> SUFFICES ASSUME Init PROVE IInv
    OBVIOUS
  <1> USE PoolAssumption DEF Init, IInv
  <1>1. TypeOK
    <2>1. <<>> \in Seq(Modules) /\ <<>> \in Seq(Jobs) /\ 0 \in Nat
      OBVIOUS
    <2> QED BY <2>1 DEF TypeOK, Inside
  <1>2. \A m \in Modules : Engaged(m) = {}
    BY DEF Engaged, Inside
  <1>3. QueueSound /\ ContextsExclusive /\ WorkersSound /\ EmuSound
    BY <1>2 DEF QueueSound, NoRepeat, Occurs, Available, ContextsExclusive, WorkersSound,
                EmuSound, Inside
  <1>4. OwnerOutlivesWorkers
    BY <1>2, FS_EmptySet DEF OwnerOutlivesWorkers
  <1>5. DrainedIsQuiet
    BY <1>2 DEF DrainedIsQuiet, Quiet
  <1> QED BY <1>1, <1>3, <1>4, <1>5

\* Every step keeps the invariant.
LEMMA NextIInv == IInv /\ [Next]_vars => IInv'
  <1> SUFFICES ASSUME IInv, [Next]_vars PROVE IInv'
    OBVIOUS
  <1>1. CASE UNCHANGED vars
    <2> USE <1>1 DEF vars, poolVars, ownerVars, moduleVars, workerVars, emuVars, IInv
    <2>1. TypeOK'
      BY DEF TypeOK
    <2>2. QueueSound' /\ WorkersSound' /\ EmuSound'
      BY DEF QueueSound, Available, WorkersSound, EmuSound
    <2>3. ContextsExclusive'
      BY DEF ContextsExclusive, Engaged
    <2>4. OwnerOutlivesWorkers'
      BY DEF OwnerOutlivesWorkers, Engaged
    <2>5. DrainedIsQuiet'
      BY DEF DrainedIsQuiet, Quiet, Engaged
    <2> QED BY <2>1, <2>2, <2>3, <2>4, <2>5
  <1>2. CASE Guest
    BY <1>2, SubmitFailsStep, SubmitStep DEF Guest
  <1>3. CASE Emulation
    BY <1>3, ReleaseDrainStep, DrainAgainStep, EraseStep, StopModulesStep, HaltStep,
       DrainStep, ReleaseStep DEF Emulation, EmuStep
  <1>4. ASSUME NEW w \in Workers, WorkerStep(w) PROVE IInv'
    BY <1>4, SleepStep, ExitStep, TakeStep, StartStep, SkipStep, CompleteStep, RetireStep,
       RetiredStep DEF WorkerStep
  <1>5. ASSUME NEW w \in Workers,
               Return(w) \/ Trap(w) \/ ReleaseTraps(w) \/ \E j \in Jobs : SubmitInline(w, j)
        PROVE  IInv'
    BY <1>5, ReturnStep, TrapStep, ReleaseTrapsStep, SubmitInlineStep
  <1>6. ASSUME NEW t \in Workers \cup {Emu}, Spurious(t) PROVE IInv'
    BY <1>6, SpuriousStep
  <1> QED BY <1>1, <1>2, <1>3, <1>4, <1>5, <1>6 DEF Next

\* The invariant holds in every behaviour of the pool.
LEMMA Inductive == Spec => []IInv
  BY InitIInv, NextIInv, PTL DEF Spec

\* Every variable keeps its type, for any number of modules, jobs and workers.
THEOREM TypeCorrect == Spec => []TypeOK
  BY Inductive, PTL DEF IInv

\* A popped owner always has a job and an idle context, and a runnable owner is
\* always queued once: Worker_Main's unchecked dereferences are safe and
\* Schedule never forgets an owner.
THEOREM QueueIsSound == Spec => []QueueSound
  BY Inductive, PTL DEF IInv

\* No two workers execute in one context.
THEOREM ContextsAreExclusive == Spec => []ContextsExclusive
  BY Inductive, PTL DEF IInv

\* Tasks_Release_Owner never frees an owner a worker still uses.
THEOREM OwnersOutliveWorkers == Spec => []OwnerOutlivesWorkers
  BY Inductive, PTL DEF IInv

\* After Drain returns nothing of the module is queued or running, for ever.
THEOREM DrainedModulesAreQuiet == Spec => []DrainedIsQuiet
  BY Inductive, PTL DEF IInv

-----------------------------------------------------------------------------
(* Where the jobs are *)

\* A job waits at one place of one owner or is on the stack of one worker, from
\* the Submit that accepts it until it ran or was dropped.
JobsInv ==
    /\ \A m \in Modules : NoRepeat(jobs[m])
    /\ \A w \in Workers : NoRepeat(stack[w])
    /\ \A j \in Jobs, m, n \in Modules : Occurs(j, jobs[m]) /\ Occurs(j, jobs[n]) => m = n
    /\ \A j \in Jobs, v, w \in Workers :
          Occurs(j, stack[v]) /\ Occurs(j, stack[w]) => v = w
    /\ \A j \in Jobs, m \in Modules, w \in Workers :
          ~(Occurs(j, jobs[m]) /\ Occurs(j, stack[w]))
    /\ \A j \in Jobs : fate[j] = "accepted" <=>
          (\E m \in Modules : Occurs(j, jobs[m])) \/ (\E w \in Workers : Occurs(j, stack[w]))

\* Nothing occurs in an empty sequence, and one thing in a sequence of one.
LEMMA ShortFacts ==
    /\ \A x : ~Occurs(x, <<>>)
    /\ NoRepeat(<<>>)
    /\ \A x, y : Occurs(x, <<y>>) <=> x = y
    /\ \A y : NoRepeat(<<y>>)
  BY DEF Occurs, NoRepeat

\* Removing the innermost job of a stack removes that job only.
LEMMA PopOccurs ==
    ASSUME NEW S, NEW s \in Seq(S), s # <<>>, NoRepeat(s)
    PROVE  LET rest == SubSeq(s, 1, Len(s) - 1) IN
           /\ NoRepeat(rest)
           /\ Occurs(s[Len(s)], s) /\ s[Len(s)] \in S
           /\ \A x : Occurs(x, rest) <=> Occurs(x, s) /\ x # s[Len(s)]
  <1> DEFINE rest == SubSeq(s, 1, Len(s) - 1)
  <1>1. /\ Len(s) \in Nat /\ Len(s) >= 1 /\ Len(rest) = Len(s) - 1
        /\ \A i \in 1..(Len(s) - 1) : rest[i] = s[i]
    <2>1. Len(s) \in Nat /\ Len(s) >= 1 /\ Len(s) - 1 \in 0..Len(s)
      OBVIOUS
    <2>2. Len(s) - 1 \in Int /\ 1 \in Int /\ \A i \in 1..(Len(s) - 1) : s[i] \in S
      BY <2>1
    <2>3. /\ Len(rest) = IF 1 <= Len(s) - 1 THEN Len(s) - 1 - 1 + 1 ELSE 0
          /\ \A i \in 1..(Len(s) - 1 - 1 + 1) : rest[i] = s[1 + i - 1]
      BY <2>2, SubSeqProperties
    <2> HIDE DEF rest
    <2>4. Len(rest) = Len(s) - 1
      <3>1. PICK n \in Nat : n = Len(s)
        BY <2>1
      <3>2. n >= 1 /\ Len(rest) = IF 1 <= n - 1 THEN n - 1 - 1 + 1 ELSE 0
        BY <2>1, <2>3, <3>1
      <3>3. Len(rest) = n - 1
        BY <3>2
      <3> QED BY <3>1, <3>3
    <2>5. ASSUME NEW i \in 1..(Len(s) - 1)
          PROVE  rest[i] = s[i]
      <3>1. i \in 1..(Len(s) - 1 - 1 + 1) /\ 1 + i - 1 = i
        BY <2>1
      <3> QED BY <2>3, <3>1
    <2> QED BY <2>1, <2>4, <2>5
  <1> HIDE DEF rest
  <1>2. NoRepeat(rest)
    BY <1>1 DEF NoRepeat
  <1>3. Occurs(s[Len(s)], s)
    BY <1>1 DEF Occurs
  <1>4. ASSUME NEW x
        PROVE  Occurs(x, rest) <=> Occurs(x, s) /\ x # s[Len(s)]
    <2>1. ASSUME NEW i \in 1..Len(rest), rest[i] = x
          PROVE  Occurs(x, s) /\ x # s[Len(s)]
      <3>1. i \in 1..Len(s) /\ s[i] = x /\ i # Len(s) /\ Len(s) \in 1..Len(s)
        BY <1>1, <2>1
      <3> QED BY <3>1 DEF Occurs, NoRepeat
    <2>2. ASSUME NEW i \in 1..Len(s), s[i] = x, x # s[Len(s)]
          PROVE  Occurs(x, rest)
      <3>1. i \in 1..Len(rest) /\ rest[i] = x
        BY <1>1, <2>2
      <3> QED BY <3>1 DEF Occurs
    <2> QED BY <2>1, <2>2 DEF Occurs
  <1>5. s[Len(s)] \in S
    BY <1>1
  <1> QED BY <1>2, <1>3, <1>4, <1>5 DEF rest

\* A new job is nowhere.
LEMMA NewIsNowhere ==
    ASSUME JobsInv, NEW j \in Jobs, fate[j] = "new"
    PROVE  /\ \A m \in Modules : ~Occurs(j, jobs[m])
           /\ \A w \in Workers : ~Occurs(j, stack[w])
  BY DEF JobsInv

\* A step that moves no job.
LEMMA JobsKept ==
    ASSUME JobsInv, UNCHANGED <<jobs, stack, fate>>
    PROVE  JobsInv'
  BY DEF JobsInv

\* Submit puts the job behind the others of its owner.
LEMMA SubmitJobs ==
    ASSUME IInv, JobsInv, NEW m \in Modules, NEW j \in Jobs, Submit(m, j)
    PROVE  JobsInv'
  <1>1. /\ fate[j] = "new"
        /\ jobs' = [jobs EXCEPT ![m] = Append(@, j)]
        /\ fate' = [fate EXCEPT ![j] = "accepted"]
        /\ stack' = stack
    BY DEF Submit
  <1>2. jobs \in [Modules -> Seq(Jobs)] /\ fate \in [Jobs -> {"new", "accepted", "ran", "dropped"}]
    BY DEF IInv, TypeOK
  <1>3. \A w \in Workers : ~Occurs(j, stack[w])
    BY <1>1, NewIsNowhere
  <1>4. \A k \in Modules : ~Occurs(j, jobs[k])
    BY <1>1, NewIsNowhere
  <1>5. /\ \A x : Occurs(x, Append(jobs[m], j)) <=> Occurs(x, jobs[m]) \/ x = j
        /\ NoRepeat(Append(jobs[m], j))
    BY <1>2, <1>4, AppendFacts DEF JobsInv
  <1>6. jobs'[m] = Append(jobs[m], j) /\ \A k \in Modules : k # m => jobs'[k] = jobs[k]
    BY <1>1, <1>2
  <1>7. \A k \in Modules, x \in Jobs : Occurs(x, jobs'[k]) <=> Occurs(x, jobs[k]) \/ (k = m /\ x = j)
    BY <1>5, <1>6
  <1>8. \A x \in Jobs : fate'[x] = IF x = j THEN "accepted" ELSE fate[x]
    BY <1>1, <1>2
  <1>9. \A k \in Modules : NoRepeat(jobs'[k])
    BY <1>5, <1>6 DEF JobsInv
  <1> QED BY <1>1, <1>3, <1>4, <1>7, <1>8, <1>9 DEF JobsInv

\* A job that a job submits goes on top of its stack.
LEMMA SubmitInlineJobs ==
    ASSUME IInv, JobsInv, NEW w \in Workers, NEW j \in Jobs, SubmitInline(w, j)
    PROVE  JobsInv'
  <1>1. /\ fate[j] = "new"
        /\ stack' = [stack EXCEPT ![w] = Append(@, j)]
        /\ fate' = [fate EXCEPT ![j] = "accepted"]
        /\ jobs' = jobs
    BY DEF SubmitInline, ownerVars
  <1>2. stack \in [Workers -> Seq(Jobs)] /\ fate \in [Jobs -> {"new", "accepted", "ran", "dropped"}]
    BY DEF IInv, TypeOK
  <1>3. \A v \in Workers : ~Occurs(j, stack[v])
    BY <1>1, NewIsNowhere
  <1>4. \A k \in Modules : ~Occurs(j, jobs[k])
    BY <1>1, NewIsNowhere
  <1>5. /\ \A x : Occurs(x, Append(stack[w], j)) <=> Occurs(x, stack[w]) \/ x = j
        /\ NoRepeat(Append(stack[w], j))
    BY <1>2, <1>3, AppendFacts DEF JobsInv
  <1>6. stack'[w] = Append(stack[w], j) /\ \A v \in Workers : v # w => stack'[v] = stack[v]
    BY <1>1, <1>2
  <1>7. \A v \in Workers, x \in Jobs : Occurs(x, stack'[v]) <=> Occurs(x, stack[v]) \/ (v = w /\ x = j)
    BY <1>5, <1>6
  <1>8. \A x \in Jobs : fate'[x] = IF x = j THEN "accepted" ELSE fate[x]
    BY <1>1, <1>2
  <1>9. \A v \in Workers : NoRepeat(stack'[v])
    BY <1>5, <1>6 DEF JobsInv
  <1> QED BY <1>1, <1>3, <1>4, <1>7, <1>8, <1>9 DEF JobsInv

\* The job that a worker takes leaves the queue for its empty stack.
LEMMA TakeJobs ==
    ASSUME IInv, JobsInv, NEW w \in Workers, Take(w)
    PROVE  JobsInv'
  <1>1. PICK m \in Modules : m = Head(queue)
    BY TailFacts DEF Take, IInv, TypeOK, QueueSound
  <1>2. /\ queue # <<>> /\ wpc[w] = "check"
        /\ stack' = [stack EXCEPT ![w] = <<Head(jobs[m])>>]
        /\ jobs' = [jobs EXCEPT ![m] = Tail(@)]
        /\ fate' = fate
    BY <1>1 DEF Take, Awake, NextJob
  <1>3. jobs \in [Modules -> Seq(Jobs)] /\ stack \in [Workers -> Seq(Jobs)]
    BY DEF IInv, TypeOK
  <1>4. jobs[m] # <<>>
    <2>1. Occurs(m, queue)
      BY <1>1, <1>2 DEF IInv, TypeOK, Occurs
    <2> QED BY <2>1 DEF IInv, QueueSound
  <1>5. stack[w] = <<>>
    BY <1>2 DEF IInv, WorkersSound, Inside
  <1>6. /\ Head(jobs[m]) \in Jobs /\ Occurs(Head(jobs[m]), jobs[m]) /\ NoRepeat(Tail(jobs[m]))
        /\ \A x : Occurs(x, Tail(jobs[m])) <=> Occurs(x, jobs[m]) /\ x # Head(jobs[m])
    <2>1. Occurs(Head(jobs[m]), jobs[m])
      BY <1>3, <1>4 DEF Occurs
    <2> QED BY <1>3, <1>4, <2>1, TailFacts DEF JobsInv
  <1>7. /\ jobs'[m] = Tail(jobs[m]) /\ stack'[w] = <<Head(jobs[m])>>
        /\ \A k \in Modules : k # m => jobs'[k] = jobs[k]
        /\ \A v \in Workers : v # w => stack'[v] = stack[v]
    BY <1>2, <1>3
  <1>8. PICK j \in Jobs : j = Head(jobs[m])
    BY <1>6
  <1>9. \A v \in Workers, x \in Jobs : Occurs(x, stack'[v]) <=> Occurs(x, stack[v]) \/ (v = w /\ x = j)
    <2>1. SUFFICES ASSUME NEW v \in Workers, NEW x \in Jobs
                   PROVE  Occurs(x, stack'[v]) <=> Occurs(x, stack[v]) \/ (v = w /\ x = j)
      OBVIOUS
    <2>2. CASE v = w
      <3>1. stack'[v] = <<j>> /\ stack[v] = <<>>
        BY <1>5, <1>7, <1>8, <2>2
      <3> QED BY <2>2, <3>1, ShortFacts
    <2>3. CASE v # w
      <3>1. stack'[v] = stack[v]
        BY <1>7, <2>3
      <3> QED BY <2>3, <3>1
    <2> QED BY <2>2, <2>3
  <1>10. \A k \in Modules, x \in Jobs : Occurs(x, jobs'[k]) <=> Occurs(x, jobs[k]) /\ ~(k = m /\ x = j)
    BY <1>6, <1>7, <1>8
  <1>11. Occurs(j, jobs[m])
    BY <1>6, <1>8
  <1>12. /\ \A k \in Modules : NoRepeat(jobs'[k])
         /\ \A v \in Workers : NoRepeat(stack'[v])
    <2>1. NoRepeat(stack'[w])
      BY <1>7, ShortFacts
    <2> QED BY <1>6, <1>7, <2>1 DEF JobsInv
  <1>13. /\ \A x \in Jobs, k, n \in Modules : Occurs(x, jobs'[k]) /\ Occurs(x, jobs'[n]) => k = n
         /\ \A x \in Jobs, u, v \in Workers :
               Occurs(x, stack'[u]) /\ Occurs(x, stack'[v]) => u = v
    BY <1>9, <1>10, <1>11 DEF JobsInv
  <1>14. \A x \in Jobs, k \in Modules, v \in Workers :
            ~(Occurs(x, jobs'[k]) /\ Occurs(x, stack'[v]))
    BY <1>9, <1>10, <1>11 DEF JobsInv
  <1>15. \A x \in Jobs :
            (\E k \in Modules : Occurs(x, jobs'[k])) \/ (\E v \in Workers : Occurs(x, stack'[v]))
            <=> (\E k \in Modules : Occurs(x, jobs[k])) \/ (\E v \in Workers : Occurs(x, stack[v]))
    BY <1>9, <1>10, <1>11
  <1> QED BY <1>2, <1>12, <1>13, <1>14, <1>15 DEF JobsInv

\* The innermost job of a worker leaves it for its fate.
LEMMA PopJobs ==
    ASSUME IInv, JobsInv, NEW w \in Workers, stack[w] # <<>>, NEW result,
           result # "accepted",
           fate' = [fate EXCEPT ![stack[w][Len(stack[w])]] = result],
           stack' = [stack EXCEPT ![w] = SubSeq(@, 1, Len(@) - 1)],
           UNCHANGED jobs
    PROVE  JobsInv'
  <1>1. /\ stack \in [Workers -> Seq(Jobs)] /\ NoRepeat(stack[w])
        /\ fate \in [Jobs -> {"new", "accepted", "ran", "dropped"}]
    BY DEF IInv, TypeOK, JobsInv
  <1>2. PICK j \in Jobs : j = stack[w][Len(stack[w])] /\ Occurs(j, stack[w])
    BY <1>1, PopOccurs
  <1>3. /\ NoRepeat(stack'[w])
        /\ \A x : Occurs(x, stack'[w]) <=> Occurs(x, stack[w]) /\ x # j
    BY <1>1, <1>2, PopOccurs
  <1>4. \A v \in Workers : v # w => stack'[v] = stack[v]
    BY <1>1
  <1>5. \A v \in Workers, x \in Jobs : Occurs(x, stack'[v]) <=> Occurs(x, stack[v]) /\ ~(v = w /\ x = j)
    BY <1>3, <1>4
  <1>6. \A x \in Jobs : fate'[x] = IF x = j THEN result ELSE fate[x]
    BY <1>1, <1>2
  <1>7. \A v \in Workers : NoRepeat(stack'[v])
    BY <1>3, <1>4 DEF JobsInv
  <1> QED BY <1>2, <1>5, <1>6, <1>7 DEF JobsInv

\* A dropped job was the only one of its worker.
LEMMA SkipPops ==
    ASSUME IInv, NEW w \in Workers, Skip(w)
    PROVE  /\ stack[w] # <<>> /\ wmod[w] \in Modules
           /\ fate' = [fate EXCEPT ![stack[w][Len(stack[w])]] = "dropped"]
           /\ stack' = [stack EXCEPT ![w] = SubSeq(@, 1, Len(@) - 1)]
           /\ UNCHANGED jobs
  <1>1. /\ Len(stack[w]) = 1 /\ stack[w] \in Seq(Jobs) /\ wmod[w] \in Modules
        /\ stack \in [Workers -> Seq(Jobs)]
    BY DEF IInv, TypeOK, WorkersSound, Skip, Inside
  <1>2. stack[w] # <<>> /\ SubSeq(stack[w], 1, Len(stack[w]) - 1) = <<>>
    <2>1. Len(stack[w]) - 1 = 0
      BY <1>1
    <2>2. stack[w] # <<>>
      <3>1. Len(<<>>) = 0
        OBVIOUS
      <3>2. SUFFICES ASSUME stack[w] = <<>> PROVE FALSE
        OBVIOUS
      <3> QED BY <1>1, <3>1, <3>2
    <2>3. SubSeq(stack[w], 1, 0) = <<>>
      BY SubSeqEmpty
    <2> QED BY <2>1, <2>2, <2>3
  <1> QED BY <1>1, <1>2 DEF Skip, ownerVars

\* A skipped job is popped.
LEMMA SkipJobs ==
    ASSUME IInv, JobsInv, NEW w \in Workers, Skip(w)
    PROVE  JobsInv'
  BY SkipPops, PopJobs

\* A job that returns or traps is popped.
LEMMA ReturnJobs ==
    ASSUME IInv, JobsInv, NEW w \in Workers, Return(w) \/ Trap(w)
    PROVE  JobsInv'
  <1>1. PICK result \in {"ran", "dropped"} :
           /\ stack[w] # <<>>
           /\ fate' = [fate EXCEPT ![stack[w][Len(stack[w])]] = result]
           /\ stack' = [stack EXCEPT ![w] = SubSeq(@, 1, Len(@) - 1)]
           /\ UNCHANGED jobs
    BY DEF Return, Trap, ownerVars
  <1> QED BY <1>1, PopJobs

\* JobsInv is kept by every step.
LEMMA NextJobsInv == IInv /\ JobsInv /\ [Next]_vars => JobsInv'
  <1> SUFFICES ASSUME IInv, JobsInv, [Next]_vars PROVE JobsInv'
    OBVIOUS
  <1> USE DEF ownerVars, workerVars
  <1>1. CASE UNCHANGED vars
    BY <1>1, JobsKept DEF vars
  <1>2. CASE Guest
    BY <1>2, SubmitJobs, JobsKept DEF Guest, SubmitFails
  <1>3. CASE Emulation
    BY <1>3, JobsKept DEF Emulation, EmuStep, ReleaseDrain, DrainAgain, Erase, StopModules,
       Halt, Drain, Release
  <1>4. ASSUME NEW w \in Workers, WorkerStep(w)
        PROVE  JobsInv'
    <2>1. CASE Take(w)
      BY <2>1, TakeJobs
    <2>2. CASE Skip(w)
      BY <2>2, SkipJobs
    <2>3. CASE Sleep(w) \/ Exit(w) \/ Start(w) \/ Complete(w) \/ Retire(w) \/ Retired(w)
      BY <2>3, JobsKept DEF Sleep, Exit, Start, Complete, Retire, Retired
    <2> QED BY <1>4, <2>1, <2>2, <2>3 DEF WorkerStep
  <1>5. ASSUME NEW w \in Workers,
               Return(w) \/ Trap(w) \/ ReleaseTraps(w) \/ \E j \in Jobs : SubmitInline(w, j)
        PROVE  JobsInv'
    BY <1>5, ReturnJobs, SubmitInlineJobs, JobsKept DEF ReleaseTraps
  <1>6. ASSUME NEW t \in Workers \cup {Emu}, Spurious(t)
        PROVE  JobsInv'
    BY <1>6, JobsKept DEF Spurious
  <1> QED BY <1>1, <1>2, <1>3, <1>4, <1>5, <1>6 DEF Next

\* At first every job is new and nowhere.
LEMMA InitJobsInv == Init => JobsInv
  BY ShortFacts DEF Init, JobsInv

\* JobsAccounted counts the places that JobsInv speaks of.
LEMMA JobsCounted == JobsInv /\ TypeOK => JobsAccounted
  <1> SUFFICES ASSUME JobsInv, TypeOK, NEW j \in Jobs
               PROVE  Cardinality(Places(j)) = IF fate[j] = "accepted" THEN 1 ELSE 0
    BY DEF JobsAccounted
  <1>0. /\ jobs \in [Modules -> Seq(Jobs)] /\ stack \in [Workers -> Seq(Jobs)]
        /\ DOMAIN jobs = Modules /\ DOMAIN stack = Workers
    BY DEF TypeOK
  <1>1. Places(j) = {p \in UNION {{k} \X (1..Len(jobs[k])) : k \in Modules} : jobs[p[1]][p[2]] = j}
             \cup {p \in UNION {{k} \X (1..Len(stack[k])) : k \in Workers} : stack[p[1]][p[2]] = j}
    BY <1>0 DEF Places
  <1>2. ASSUME NEW p \in Places(j)
        PROVE  \/ \E m \in Modules : \E i \in 1..Len(jobs[m]) : p = <<m, i>> /\ jobs[m][i] = j
               \/ \E w \in Workers : \E i \in 1..Len(stack[w]) : p = <<w, i>> /\ stack[w][i] = j
    BY <1>1
  <1>3. ASSUME NEW p \in Places(j), NEW q \in Places(j)
        PROVE  p = q /\ fate[j] = "accepted"
    <2>1. CASE \E m \in Modules : \E i \in 1..Len(jobs[m]) : p = <<m, i>> /\ jobs[m][i] = j
      <3>1. PICK m \in Modules : \E i \in 1..Len(jobs[m]) : p = <<m, i>> /\ jobs[m][i] = j
        BY <2>1
      <3>2. PICK i \in 1..Len(jobs[m]) : p = <<m, i>> /\ jobs[m][i] = j
        BY <3>1
      <3>3. Occurs(j, jobs[m])
        BY <3>2 DEF Occurs
      <3>4. PICK n \in Modules : \E k \in 1..Len(jobs[n]) : q = <<n, k>> /\ jobs[n][k] = j
        BY <1>2, <3>3 DEF JobsInv, Occurs
      <3>5. PICK k \in 1..Len(jobs[n]) : q = <<n, k>> /\ jobs[n][k] = j
        BY <3>4
      <3>6. m = n
        BY <3>3, <3>5 DEF JobsInv, Occurs
      <3>7. i = k
        BY <3>2, <3>5, <3>6 DEF JobsInv, NoRepeat
      <3> QED BY <3>2, <3>3, <3>5, <3>6, <3>7 DEF JobsInv
    <2>2. CASE \E w \in Workers : \E i \in 1..Len(stack[w]) : p = <<w, i>> /\ stack[w][i] = j
      <3>1. PICK w \in Workers : \E i \in 1..Len(stack[w]) : p = <<w, i>> /\ stack[w][i] = j
        BY <2>2
      <3>2. PICK i \in 1..Len(stack[w]) : p = <<w, i>> /\ stack[w][i] = j
        BY <3>1
      <3>3. Occurs(j, stack[w])
        BY <3>2 DEF Occurs
      <3>4. PICK v \in Workers : \E k \in 1..Len(stack[v]) : q = <<v, k>> /\ stack[v][k] = j
        BY <1>2, <3>3 DEF JobsInv, Occurs
      <3>5. PICK k \in 1..Len(stack[v]) : q = <<v, k>> /\ stack[v][k] = j
        BY <3>4
      <3>6. w = v
        BY <3>3, <3>5 DEF JobsInv, Occurs
      <3>7. i = k
        BY <3>2, <3>5, <3>6 DEF JobsInv, NoRepeat
      <3> QED BY <3>2, <3>3, <3>5, <3>6, <3>7 DEF JobsInv
    <2> QED BY <1>2, <2>1, <2>2
  <1>4. ASSUME fate[j] = "accepted"
        PROVE  Places(j) # {}
    <2>1. CASE \E m \in Modules : Occurs(j, jobs[m])
      <3>1. PICK m \in Modules : Occurs(j, jobs[m])
        BY <2>1
      <3>2. PICK i \in 1..Len(jobs[m]) : jobs[m][i] = j
        BY <3>1 DEF Occurs
      <3>3. <<m, i>> \in {m} \X (1..Len(jobs[m]))
        OBVIOUS
      <3>4. <<m, i>> \in UNION {{k} \X (1..Len(jobs[k])) : k \in Modules}
        BY <3>3
      <3> QED BY <1>1, <3>2, <3>4
    <2>2. CASE \E w \in Workers : Occurs(j, stack[w])
      <3>1. PICK w \in Workers : Occurs(j, stack[w])
        BY <2>2
      <3>2. PICK i \in 1..Len(stack[w]) : stack[w][i] = j
        BY <3>1 DEF Occurs
      <3>3. <<w, i>> \in {w} \X (1..Len(stack[w]))
        OBVIOUS
      <3>4. <<w, i>> \in UNION {{k} \X (1..Len(stack[k])) : k \in Workers}
        BY <3>3
      <3> QED BY <1>1, <3>2, <3>4
    <2> QED BY <1>4, <2>1, <2>2 DEF JobsInv
  <1>5. CASE fate[j] = "accepted"
    <2>1. PICK p : p \in Places(j)
      BY <1>4, <1>5
    <2>2. Places(j) = {p}
      BY <1>3, <2>1
    <2> QED BY <1>5, <2>2, FS_Singleton
  <1>6. CASE fate[j] # "accepted"
    <2>1. Places(j) = {}
      BY <1>3, <1>6
    <2> QED BY <1>6, <2>1, FS_EmptySet
  <1> QED BY <1>5, <1>6

-----------------------------------------------------------------------------
(* Enough contexts *)

\* The contexts of an owner are counted, and before the workers start nobody has
\* submitted anything.
ContextsInv ==
    /\ \A m \in Modules : IsFiniteSet(contexts[m])
    /\ workers = {} => \A m \in Modules : jobs[m] = <<>>
    /\ EnoughContexts

\* The busy contexts are among the contexts, and no more than the workers that
\* `running` counts.
LEMMA BusyFacts ==
    ASSUME IInv, ContextsInv, NEW m \in Modules
    PROVE  /\ busy[m] \subseteq contexts[m]
           /\ IsFiniteSet(busy[m]) /\ IsFiniteSet(contexts[m]) /\ IsFiniteSet(workers)
           /\ Cardinality(busy[m]) \in Nat /\ Cardinality(contexts[m]) \in Nat
           /\ Cardinality(workers) \in Nat /\ Len(jobs[m]) \in Nat
           /\ Cardinality(busy[m]) <= running[m] /\ running[m] \in Nat
  <1>1. ASSUME NEW c \in busy[m]
        PROVE  \E w \in Engaged(m) : wpc[w] # "retire" /\ wctx[w] = c
    BY DEF IInv, ContextsExclusive, TypeOK
  <1>2. busy[m] \subseteq contexts[m]
    BY <1>1 DEF Engaged, IInv, WorkersSound, Inside
  <1>3. IsFiniteSet(contexts[m]) /\ IsFiniteSet(busy[m]) /\ IsFiniteSet(workers)
    BY <1>2, PoolAssumption, FS_Subset DEF ContextsInv, IInv, TypeOK
  <1>4. Cardinality(busy[m]) <= Cardinality(Engaged(m))
    <2> DEFINE held == {w \in Engaged(m) : wpc[w] # "retire"}
               f == [w \in held |-> wctx[w]]
    <2>1. IsFiniteSet(held) /\ Cardinality(held) <= Cardinality(Engaged(m))
      BY EngagedFacts, FS_Subset
    <2>2. \A w \in held : wctx[w] \in busy[m]
      BY DEF IInv, ContextsExclusive, TypeOK, Engaged, WorkersSound
    <2>3. f \in Surjection(held, busy[m])
      BY <1>1, <2>2 DEF Surjection
    <2> HIDE DEF held, f
    <2>4. Cardinality(busy[m]) <= Cardinality(held)
      BY <2>1, <2>3, FS_Surjection
    <2> QED BY <1>3, <2>1, <2>4, EngagedFacts, FS_CardinalityType
  <1> QED BY <1>2, <1>3, <1>4, FS_CardinalityType DEF IInv, OwnerOutlivesWorkers, TypeOK

\* The arithmetic of EnoughContexts, for one owner.
Serves(held, waiting, inUse, threads) ==
    held >= IF waiting + inUse < threads THEN waiting + inUse ELSE threads

\* EnoughContexts in these terms.
LEMMA ServesFacts ==
    EnoughContexts <=> \A m \in Modules :
        Serves(Cardinality(contexts[m]), Len(jobs[m]), Cardinality(busy[m]), Cardinality(workers))
  BY DEF EnoughContexts, Serves

\* A step that touches no context, job or worker set.
LEMMA ContextsKept ==
    ASSUME ContextsInv, UNCHANGED <<contexts, jobs, busy, workers>>
    PROVE  ContextsInv'
  BY DEF ContextsInv, EnoughContexts

\* Before the workers start nothing is in use.
LEMMA NotStarted ==
    ASSUME IInv, ContextsInv, workers = {}, NEW m \in Modules
    PROVE  Len(jobs[m]) = 0 /\ Cardinality(busy[m]) = 0 /\ Cardinality(workers) = 0
  <1>1. Engaged(m) = {}
    BY DEF Engaged, IInv, WorkersSound, Inside
  <1>2. busy[m] = {}
    BY <1>1 DEF IInv, ContextsExclusive, TypeOK
  <1>3. jobs[m] = <<>> /\ Len(<<>>) = 0
    BY DEF ContextsInv
  <1> QED BY <1>2, <1>3, FS_EmptySet

\* The first Submit starts the workers; later ones leave them alone.
LEMMA Started ==
    ASSUME IInv, ContextsInv, StartWorkers
    PROVE  /\ IsFiniteSet(workers') /\ Cardinality(workers') \in Nat /\ workers' # {}
           /\ workers' = workers \/ workers = {}
           /\ Cardinality(workers') >= 1
  <1>1. workers' \subseteq Workers /\ (workers' = workers \/ workers = {}) /\ workers' # {}
    BY StartWorkersFacts DEF StartWorkers
  <1>2. IsFiniteSet(workers')
    BY <1>1, PoolAssumption, FS_Subset
  <1> QED BY <1>1, <1>2, FS_CardinalityType, FS_EmptySet

\* Submit creates a context when the new job would lack one.
LEMMA SubmitContexts ==
    ASSUME IInv, ContextsInv, NEW m \in Modules, NEW j \in Jobs, Submit(m, j)
    PROVE  ContextsInv'
  <1>1. /\ StartWorkers /\ busy' = busy
        /\ jobs' = [jobs EXCEPT ![m] = Append(@, j)]
        /\ jobs \in [Modules -> Seq(Jobs)] /\ contexts \in [Modules -> SUBSET Contexts]
    BY DEF Submit, IInv, TypeOK
  <1>2. /\ Len(jobs'[m]) = Len(jobs[m]) + 1 /\ Len(jobs[m]) \in Nat
        /\ \A k \in Modules : k # m => jobs'[k] = jobs[k]
    BY <1>1
  <1>3. \A k \in Modules : k # m => contexts'[k] = contexts[k]
    BY <1>1 DEF Submit
  <1>4. /\ IsFiniteSet(contexts'[m]) /\ Cardinality(contexts'[m]) \in Nat
        /\ \/ Cardinality(contexts'[m]) = Cardinality(contexts[m]) + 1
           \/ /\ Cardinality(contexts'[m]) = Cardinality(contexts[m])
              /\ \/ Cardinality(contexts[m]) >= Len(jobs[m]) + running[m] + 1
                 \/ Cardinality(contexts[m]) >= Cardinality(workers')
    <2>1. CASE WantsContext(m)
      <3>1. PICK c \in Contexts \ (contexts[m] \cup {wctx[w] : w \in Workers}) :
                contexts' = [contexts EXCEPT ![m] = @ \cup {c}]
        BY <2>1 DEF Submit
      <3>2. contexts'[m] = contexts[m] \cup {c} /\ c \notin contexts[m]
        BY <1>1, <3>1
      <3>3. IsFiniteSet(contexts[m]) /\ Cardinality(contexts[m]) \in Nat
        BY BusyFacts
      <3>4. /\ IsFiniteSet(contexts[m] \cup {c})
            /\ Cardinality(contexts[m] \cup {c}) = Cardinality(contexts[m]) + 1
        BY <3>2, <3>3, FS_AddElement
      <3> QED BY <3>2, <3>3, <3>4
    <2>2. CASE ~WantsContext(m)
      <3>1. contexts' = contexts
        BY <2>2 DEF Submit
      <3> QED BY <2>2, <3>1, <1>1, BusyFacts, Started DEF WantsContext
    <2> QED BY <2>1, <2>2
  <1>5. ASSUME NEW k \in Modules
        PROVE  Serves(Cardinality(contexts'[k]), Len(jobs'[k]), Cardinality(busy'[k]),
                      Cardinality(workers'))
    <2>1. Serves(Cardinality(contexts[k]), Len(jobs[k]), Cardinality(busy[k]), Cardinality(workers))
      BY ServesFacts DEF ContextsInv
    <2>2. /\ Cardinality(busy[k]) \in Nat /\ Cardinality(contexts[k]) \in Nat
          /\ Cardinality(workers) \in Nat /\ Len(jobs[k]) \in Nat
          /\ Cardinality(busy[k]) <= running[k] /\ running[k] \in Nat
      BY BusyFacts
    <2>3. /\ Cardinality(workers') \in Nat /\ Cardinality(workers') >= 1
          /\ workers' = workers \/ workers = {}
      BY <1>1, Started
    <2>4. CASE workers = {}
      <3>1. Len(jobs[k]) = 0 /\ Cardinality(busy[k]) = 0
        BY <2>4, NotStarted
      <3>2. CASE k = m
        BY <1>1, <1>2, <1>4, <2>2, <2>3, <3>1, <3>2 DEF Serves
      <3>3. CASE k # m
        BY <1>1, <1>2, <1>3, <2>2, <2>3, <3>1, <3>3 DEF Serves
      <3> QED BY <3>2, <3>3
    <2>5. CASE workers' = workers
      <3>1. CASE k = m
        BY <1>1, <1>2, <1>4, <2>1, <2>2, <2>5, <3>1 DEF Serves
      <3>2. CASE k # m
        BY <1>1, <1>2, <1>3, <2>1, <2>5, <3>2 DEF Serves
      <3> QED BY <3>1, <3>2
    <2> QED BY <2>3, <2>4, <2>5
  <1>6. EnoughContexts'
    BY <1>5 DEF EnoughContexts, Serves
  <1>7. workers' # {}
    BY <1>1, Started
  <1>8. \A k \in Modules : IsFiniteSet(contexts'[k])
    BY <1>3, <1>4 DEF ContextsInv
  <1> QED BY <1>6, <1>7, <1>8 DEF ContextsInv

\* A Submit that fails may have started the workers.
LEMMA SubmitFailsContexts ==
    ASSUME IInv, ContextsInv, NEW m \in Modules, SubmitFails(m)
    PROVE  ContextsInv'
  <1>1. StartWorkers /\ UNCHANGED <<contexts, jobs, busy>>
    BY DEF SubmitFails
  <1>2. CASE workers' = workers
    BY <1>1, <1>2, ContextsKept
  <1>3. CASE workers = {}
    <2>1. ASSUME NEW k \in Modules
          PROVE  Serves(Cardinality(contexts'[k]), Len(jobs'[k]), Cardinality(busy'[k]),
                        Cardinality(workers'))
      <3>1. Len(jobs'[k]) = 0 /\ Cardinality(busy'[k]) = 0
        BY <1>1, <1>3, NotStarted
      <3>2. Cardinality(contexts'[k]) \in Nat /\ Cardinality(workers') \in Nat
        BY <1>1, BusyFacts, Started
      <3> QED BY <3>1, <3>2 DEF Serves
    <2> QED BY <1>1, <1>3, <2>1 DEF ContextsInv, EnoughContexts, Serves
  <1> QED BY <1>1, <1>2, <1>3, Started

\* What a worker takes from the queue it uses.
LEMMA TakeContexts ==
    ASSUME IInv, ContextsInv, NEW w \in Workers, Take(w)
    PROVE  ContextsInv'
  <1>1. PICK m \in Modules : m = Head(queue)
    BY TailFacts DEF Take, IInv, TypeOK, QueueSound
  <1>2. /\ queue # <<>>
        /\ jobs' = [jobs EXCEPT ![m] = Tail(@)]
        /\ contexts' = contexts /\ workers' = workers
    BY <1>1 DEF Take
  <1>3. PICK c \in contexts[m] : c \notin busy[m] /\ busy' = [busy EXCEPT ![m] = @ \cup {c}]
    BY <1>1 DEF Take, Available
  <1>4. jobs \in [Modules -> Seq(Jobs)] /\ busy \in [Modules -> SUBSET Contexts]
    BY DEF IInv, TypeOK
  <1>5. jobs[m] # <<>>
    <2>1. Occurs(m, queue)
      BY <1>1, <1>2 DEF IInv, TypeOK, Occurs
    <2> QED BY <2>1 DEF IInv, QueueSound
  <1>6. Len(jobs'[m]) = Len(jobs[m]) - 1 /\ Len(jobs[m]) \in Nat
    BY <1>2, <1>4, <1>5
  <1>7. Cardinality(busy'[m]) = Cardinality(busy[m]) + 1
    BY <1>3, <1>4, BusyFacts, FS_AddElement
  <1>8. Cardinality(busy[m]) \in Nat
    BY BusyFacts
  <1>9. \A k \in Modules : k # m => jobs'[k] = jobs[k] /\ busy'[k] = busy[k]
    BY <1>2, <1>3, <1>4
  <1>10. ASSUME NEW k \in Modules
         PROVE  Len(jobs'[k]) + Cardinality(busy'[k]) = Len(jobs[k]) + Cardinality(busy[k])
    BY <1>6, <1>7, <1>8, <1>9
  <1>11. workers # {}
    BY <1>5 DEF ContextsInv
  <1>12. EnoughContexts'
    BY <1>2, <1>10 DEF ContextsInv, EnoughContexts
  <1> QED BY <1>2, <1>11, <1>12 DEF ContextsInv

\* A worker that is done gives its context back, to the owner or for good.
LEMMA CompleteContexts ==
    ASSUME IInv, ContextsInv, NEW w \in Workers, Complete(w) \/ Retire(w)
    PROVE  ContextsInv'
  <1>1. PICK m \in Modules : m = wmod[w]
    BY DEF Complete, Retire, IInv, WorkersSound, Inside
  <1>2. /\ wpc[w] = "run" /\ jobs' = jobs /\ workers' = workers
        /\ busy' = [busy EXCEPT ![m] = @ \ {wctx[w]}]
        /\ busy \in [Modules -> SUBSET Contexts] /\ contexts \in [Modules -> SUBSET Contexts]
    BY <1>1 DEF Complete, Retire, IInv, TypeOK, poolVars
  <1>3. wctx[w] \in busy[m]
    BY <1>1, <1>2 DEF IInv, ContextsExclusive, Engaged, Inside, WorkersSound
  <1>4. /\ Cardinality(busy'[m]) = Cardinality(busy[m]) - 1
        /\ \A k \in Modules : k # m => busy'[k] = busy[k]
    BY <1>2, <1>3, BusyFacts, FS_RemoveElement
  <1>5. CASE Complete(w)
    <2>1. contexts' = contexts
      BY <1>5 DEF Complete
    <2>2. ASSUME NEW k \in Modules
          PROVE  Serves(Cardinality(contexts'[k]), Len(jobs'[k]), Cardinality(busy'[k]),
                        Cardinality(workers'))
      <3>1. Serves(Cardinality(contexts[k]), Len(jobs[k]), Cardinality(busy[k]), Cardinality(workers))
        BY ServesFacts DEF ContextsInv
      <3>2. /\ Cardinality(busy[k]) \in Nat /\ Cardinality(contexts[k]) \in Nat
            /\ Cardinality(workers) \in Nat /\ Len(jobs[k]) \in Nat
        BY BusyFacts
      <3>3. Cardinality(busy'[k]) \in {Cardinality(busy[k]), Cardinality(busy[k]) - 1}
        BY <1>4
      <3> QED BY <1>2, <2>1, <3>1, <3>2, <3>3 DEF Serves
    <2> QED BY <1>2, <2>1, <2>2 DEF ContextsInv, EnoughContexts, Serves
  <1>6. CASE Retire(w)
    <2>1. jobs[m] = <<>> /\ contexts' = [contexts EXCEPT ![m] = @ \ {wctx[w]}]
      BY <1>1, <1>6 DEF Retire, Retires
    <2>2. /\ contexts'[m] = contexts[m] \ {wctx[w]} /\ wctx[w] \in contexts[m]
          /\ \A k \in Modules : k # m => contexts'[k] = contexts[k]
      BY <1>2, <1>3, <2>1, BusyFacts
    <2>3. /\ IsFiniteSet(contexts'[m])
          /\ Cardinality(contexts'[m]) = Cardinality(contexts[m]) - 1
      BY <2>2, BusyFacts, FS_RemoveElement
    <2>4. Cardinality(busy[m]) <= Cardinality(contexts[m])
      BY BusyFacts, FS_Subset
    <2>5. Len(jobs[m]) = 0
      BY <2>1
    <2>6. ASSUME NEW k \in Modules
          PROVE  Serves(Cardinality(contexts'[k]), Len(jobs'[k]), Cardinality(busy'[k]),
                        Cardinality(workers'))
      <3>1. CASE k = m
        <4>1. /\ Cardinality(busy[k]) \in Nat /\ Cardinality(contexts[k]) \in Nat
              /\ Cardinality(workers) \in Nat /\ Len(jobs[k]) = 0
          BY <3>1, <2>5, BusyFacts
        <4> QED BY <1>2, <1>4, <2>3, <2>4, <3>1, <4>1 DEF Serves
      <3>2. CASE k # m
        BY <1>2, <1>4, <2>2, <3>2, ServesFacts DEF ContextsInv
      <3> QED BY <3>1, <3>2
    <2>7. \A k \in Modules : IsFiniteSet(contexts'[k])
      BY <2>2, <2>3 DEF ContextsInv
    <2> QED BY <1>2, <2>6, <2>7 DEF ContextsInv, EnoughContexts, Serves
  <1> QED BY <1>5, <1>6

\* An erased owner has nothing to serve.
LEMMA EraseContexts ==
    ASSUME IInv, ContextsInv, Erase
    PROVE  ContextsInv'
  <1>1. PICK m \in Modules : m = emuMod
    BY DEF Erase, IInv, EmuSound, TypeOK
  <1>2. /\ contexts' = [contexts EXCEPT ![m] = {}] /\ UNCHANGED <<jobs, busy, workers>>
        /\ contexts \in [Modules -> SUBSET Contexts]
    BY <1>1 DEF Erase, poolVars, IInv, TypeOK
  <1>3. contexts'[m] = {} /\ \A k \in Modules : k # m => contexts'[k] = contexts[k]
    BY <1>2
  <1>4. Quiet(m) /\ Engaged(m) = {}
    BY <1>1 DEF Erase, IInv, DrainedIsQuiet
  <1>5. busy[m] = {}
    BY <1>4 DEF IInv, ContextsExclusive, TypeOK
  <1>6. Len(jobs[m]) = 0 /\ Cardinality(busy[m]) = 0 /\ Cardinality(contexts'[m]) = 0
    BY <1>3, <1>4, <1>5, FS_EmptySet DEF Quiet
  <1>7. ASSUME NEW k \in Modules
        PROVE  Serves(Cardinality(contexts'[k]), Len(jobs'[k]), Cardinality(busy'[k]),
                      Cardinality(workers'))
    <2>1. CASE k = m
      <3>1. Cardinality(workers) \in Nat
        BY BusyFacts
      <3> QED BY <1>2, <1>6, <2>1, <3>1 DEF Serves
    <2>2. CASE k # m
      BY <1>2, <1>3, <2>2, ServesFacts DEF ContextsInv
    <2> QED BY <2>1, <2>2
  <1>8. \A k \in Modules : IsFiniteSet(contexts'[k])
    BY <1>3, FS_EmptySet DEF ContextsInv
  <1> QED BY <1>2, <1>7, <1>8 DEF ContextsInv, EnoughContexts, Serves

\* ContextsInv is kept by every step.
LEMMA NextContextsInv == IInv /\ ContextsInv /\ [Next]_vars => ContextsInv'
  <1> SUFFICES ASSUME IInv, ContextsInv, [Next]_vars PROVE ContextsInv'
    OBVIOUS
  <1> USE DEF ownerVars, poolVars
  <1>1. CASE UNCHANGED vars
    BY <1>1, ContextsKept DEF vars
  <1>2. CASE Guest
    BY <1>2, SubmitContexts, SubmitFailsContexts DEF Guest
  <1>3. CASE Emulation
    <2>1. CASE Erase
      BY <2>1, EraseContexts
    <2>2. CASE ~Erase
      BY <1>3, <2>2, ContextsKept DEF Emulation, EmuStep, ReleaseDrain, DrainAgain,
         StopModules, Halt, Drain, Release
    <2> QED BY <2>1, <2>2
  <1>4. ASSUME NEW w \in Workers, WorkerStep(w)
        PROVE  ContextsInv'
    <2>1. CASE Take(w)
      BY <2>1, TakeContexts
    <2>2. CASE Complete(w) \/ Retire(w)
      BY <2>2, CompleteContexts
    <2>3. CASE Sleep(w) \/ Exit(w) \/ Start(w) \/ Skip(w) \/ Retired(w)
      BY <2>3, ContextsKept DEF Sleep, Exit, Start, Skip, Retired
    <2> QED BY <1>4, <2>1, <2>2, <2>3 DEF WorkerStep
  <1>5. ASSUME NEW w \in Workers,
               Return(w) \/ Trap(w) \/ ReleaseTraps(w) \/ \E j \in Jobs : SubmitInline(w, j)
        PROVE  ContextsInv'
    BY <1>5, ContextsKept DEF Return, Trap, ReleaseTraps, SubmitInline
  <1>6. ASSUME NEW t \in Workers \cup {Emu}, Spurious(t)
        PROVE  ContextsInv'
    BY <1>6, ContextsKept DEF Spurious
  <1> QED BY <1>1, <1>2, <1>3, <1>4, <1>5, <1>6 DEF Next

\* At first there are neither contexts nor jobs.
LEMMA InitContextsInv == Init => ContextsInv
  <1> SUFFICES ASSUME Init PROVE ContextsInv
    OBVIOUS
  <1>1. /\ workers = {} /\ Len(<<>>) = 0
        /\ \A m \in Modules : jobs[m] = <<>> /\ contexts[m] = {} /\ busy[m] = {}
    BY DEF Init
  <1>2. Cardinality(workers) = 0 /\ IsFiniteSet({})
    BY <1>1, FS_EmptySet
  <1>3. ASSUME NEW m \in Modules
        PROVE  Cardinality(contexts[m]) = 0 /\ Cardinality(busy[m]) = 0 /\ Len(jobs[m]) = 0
    BY <1>1, FS_EmptySet
  <1>4. EnoughContexts
    BY <1>2, <1>3 DEF EnoughContexts
  <1> QED BY <1>1, <1>2, <1>4 DEF ContextsInv

-----------------------------------------------------------------------------
(* No runnable owner is stranded *)

AwakeWorkers == {w \in Workers : Awake(w)}

\* Whether a thread that drains has what it waits for, whatever it knows of it.
DrainIsOver == emuPc = "drain" => Quiet(emuMod)

\* Who sleeps, and why: idle workers, and a drainer with something to wait for.
\* Only such a drainer can take a notification away from the workers.
SleepInv ==
    /\ \A w \in Workers \cap sleeping : wpc[w] = "check"
    /\ Emu \in sleeping => emuPc = "drain" /\ ~Quiet(emuMod)
    /\ halting => sleeping = {} /\ emuPc = "free"
    /\ DrainIsOver /\ sleeping # {} => Len(queue) <= Cardinality(AwakeWorkers)

\* The workers that are awake can be counted.
LEMMA AwakeFacts ==
    /\ IsFiniteSet(AwakeWorkers) /\ Cardinality(AwakeWorkers) \in Nat
    /\ IsFiniteSet(AwakeWorkers') /\ Cardinality(AwakeWorkers') \in Nat
  <1>1. AwakeWorkers \subseteq Workers /\ AwakeWorkers' \subseteq Workers
    BY DEF AwakeWorkers
  <1> QED BY <1>1, PoolAssumption, FS_Subset, FS_CardinalityType

\* A step that lets nobody fall asleep, keeps the queue and leaves as many awake.
LEMMA SleepKept ==
    ASSUME IInv, SleepInv,
           UNCHANGED <<queue, halting, emuPc, emuMod>>, sleeping' \subseteq sleeping,
           \A w \in Workers : wpc[w] = "check" => wpc'[w] = "check",
           emuPc = "drain" => (Quiet(emuMod)' <=> Quiet(emuMod))
    PROVE  SleepInv'
  <1>1. AwakeWorkers \subseteq AwakeWorkers'
    BY DEF AwakeWorkers, Awake
  <1>2. Cardinality(AwakeWorkers) <= Cardinality(AwakeWorkers')
    BY <1>1, AwakeFacts, FS_Subset
  <1>3. Len(queue) \in Nat /\ Len(queue') = Len(queue)
    BY DEF IInv, TypeOK
  <1>4. DrainIsOver' <=> DrainIsOver
    BY DEF DrainIsOver
  <1>5. DrainIsOver' /\ sleeping' # {} => Len(queue') <= Cardinality(AwakeWorkers')
    <2>1. DrainIsOver' /\ sleeping' # {} => Len(queue) <= Cardinality(AwakeWorkers)
      BY <1>4 DEF SleepInv
    <2> QED BY <1>2, <1>3, <2>1, AwakeFacts
  <1>6. \A w \in Workers \cap sleeping' : wpc'[w] = "check"
    BY DEF SleepInv
  <1>7. Emu \in sleeping' => emuPc' = "drain" /\ ~Quiet(emuMod)'
    BY DEF SleepInv
  <1>8. halting' => sleeping' = {} /\ emuPc' = "free"
    BY DEF SleepInv
  <1> QED BY <1>5, <1>6, <1>7, <1>8 DEF SleepInv

\* What a module waits for is unchanged when its jobs and its count are.
LEMMA QuietKept ==
    ASSUME UNCHANGED <<jobs, running, emuMod>>
    PROVE  Quiet(emuMod)' <=> Quiet(emuMod)
  BY DEF Quiet

\* After notify_all nobody sleeps.
LEMMA NotifyAllSleeps ==
    ASSUME SleepInv, sleeping' = {}, halting' => emuPc' = "free"
    PROVE  SleepInv'
  BY DEF SleepInv

\* Schedule wakes somebody for the owner it queues; a drainer that is woken in
\* place of a worker still has to wait, and Drain notices that.
LEMMA ScheduleSleeps ==
    ASSUME IInv, SleepInv, NEW m \in Modules, NEW line \in Seq(Modules),
           NEW flagged \in [Modules -> BOOLEAN], NEW w,
           Schedule(m, line, flagged, FALSE), ~halting,
           UNCHANGED <<halting, emuPc, emuMod>>,
           \A v \in Workers : v # w /\ wpc[v] = "check" => wpc'[v] = "check",
           emuPc = "drain" /\ Quiet(emuMod)' => Quiet(emuMod),
           w \notin Workers \cap sleeping,
           \/ line = queue /\ w \notin Workers
           \/ Len(line) + 1 = Len(queue)
    PROVE  SleepInv'
  <1>1. sleeping \subseteq Workers \cup {Emu} /\ queue \in Seq(Modules) /\ Emu \notin Workers
    BY PoolAssumption DEF IInv, TypeOK
  <1>2. /\ Len(queue) \in Nat /\ Len(line) \in Nat /\ Len(queue') \in Nat
        /\ Len(Append(line, m)) = Len(line) + 1
    BY <1>1 DEF Schedule
  <1>3. sleeping' \subseteq sleeping
    BY DEF Schedule, NotifyOne
  <1>4. \A v \in Workers \cap sleeping' : wpc'[v] = "check"
    BY <1>3 DEF SleepInv
  <1>5. Emu \in sleeping' => emuPc' = "drain" /\ ~Quiet(emuMod)'
    BY <1>3 DEF SleepInv
  <1>6. DrainIsOver' => DrainIsOver
    BY DEF DrainIsOver
  <1>7. ASSUME DrainIsOver', sleeping' # {}
        PROVE  Len(queue') <= Cardinality(AwakeWorkers')
    <2>1. Len(queue) <= Cardinality(AwakeWorkers)
      BY <1>3, <1>6, <1>7 DEF SleepInv
    <2>2. Emu \notin sleeping
      BY <1>6, <1>7 DEF SleepInv, DrainIsOver
    <2>3. /\ Len(line) <= Cardinality(AwakeWorkers \cap AwakeWorkers')
          /\ IsFiniteSet(AwakeWorkers \cap AwakeWorkers')
          /\ Cardinality(AwakeWorkers \cap AwakeWorkers') \in Nat
      <3>1. IsFiniteSet(AwakeWorkers \cap AwakeWorkers')
        BY AwakeFacts, FS_Subset
      <3>2. CASE line = queue /\ w \notin Workers
        <4>1. AwakeWorkers \cap AwakeWorkers' = AwakeWorkers
          BY <1>3, <3>2 DEF AwakeWorkers, Awake
        <4> QED BY <2>1, <3>2, <4>1, AwakeFacts
      <3>3. CASE Len(line) + 1 = Len(queue)
        <4>1. AwakeWorkers \ {w} \subseteq AwakeWorkers \cap AwakeWorkers'
          BY <1>3 DEF AwakeWorkers, Awake
        <4>2. /\ Cardinality(AwakeWorkers \ {w}) <= Cardinality(AwakeWorkers \cap AwakeWorkers')
              /\ IsFiniteSet(AwakeWorkers \ {w})
          BY <3>1, <4>1, FS_Subset
        <4>3. Cardinality(AwakeWorkers \ {w}) >= Cardinality(AwakeWorkers) - 1
          <5>1. CASE w \in AwakeWorkers
            <6>1. Cardinality(AwakeWorkers \ {w}) = Cardinality(AwakeWorkers) - 1
              BY <5>1, AwakeFacts, FS_RemoveElement
            <6>2. Cardinality(AwakeWorkers) \in Nat
              BY AwakeFacts
            <6> QED BY <6>1, <6>2
          <5>2. CASE w \notin AwakeWorkers
            <6>0. AwakeWorkers \ {w} = AwakeWorkers
              BY <5>2
            <6>1. Cardinality(AwakeWorkers \ {w}) = Cardinality(AwakeWorkers)
              BY <6>0
            <6>2. Cardinality(AwakeWorkers) \in Nat
              BY AwakeFacts
            <6> QED BY <6>1, <6>2
          <5> QED BY <5>1, <5>2
        <4>4. /\ Cardinality(AwakeWorkers \ {w}) \in Nat
              /\ Cardinality(AwakeWorkers \cap AwakeWorkers') \in Nat
          BY <3>1, <4>2, FS_CardinalityType
        <4> QED BY <1>2, <2>1, <3>1, <3>3, <4>2, <4>3, <4>4, AwakeFacts
      <3> QED BY <3>1, <3>2, <3>3, FS_CardinalityType
    <2>4. CASE Runnable(m, flagged)
      <3>1. sleeping # {} /\ queue' = Append(line, m) /\ sleeping' \in NotifyOne(sleeping)
        BY <1>3, <1>7, <2>4 DEF Schedule
      <3>2. PICK t \in sleeping : sleeping' = sleeping \ {t}
        BY <3>1 DEF NotifyOne
      <3>3. t \in Workers /\ t \notin AwakeWorkers /\ t # w /\ wpc[t] = "check"
        BY <1>1, <2>2, <3>2 DEF AwakeWorkers, Awake, SleepInv
      <3>4. t \in AwakeWorkers'
        BY <3>2, <3>3 DEF AwakeWorkers, Awake
      <3>5. /\ Cardinality((AwakeWorkers \cap AwakeWorkers') \cup {t})
                  = Cardinality(AwakeWorkers \cap AwakeWorkers') + 1
            /\ (AwakeWorkers \cap AwakeWorkers') \cup {t} \subseteq AwakeWorkers'
        BY <2>3, <3>3, <3>4, FS_AddElement
      <3>6. Cardinality((AwakeWorkers \cap AwakeWorkers') \cup {t}) <= Cardinality(AwakeWorkers')
        BY <3>5, AwakeFacts, FS_Subset
      <3> QED BY <1>2, <2>3, <3>1, <3>5, <3>6, AwakeFacts
    <2>5. CASE ~Runnable(m, flagged)
      <3>1. queue' = line
        BY <2>5 DEF Schedule
      <3>2. Cardinality(AwakeWorkers \cap AwakeWorkers') <= Cardinality(AwakeWorkers')
        BY AwakeFacts, FS_Subset
      <3> QED BY <1>2, <2>3, <3>1, <3>2, AwakeFacts
    <2> QED BY <2>4, <2>5
  <1> QED BY <1>4, <1>5, <1>7 DEF SleepInv

\* The workers that the first Submit starts were off.
LEMMA StartSleeps ==
    ASSUME IInv, StartWorkers
    PROVE  \A w \in Workers : wpc[w] = "check" => wpc'[w] = "check"
  BY StartWorkersFacts DEF StartWorkers, IInv, TypeOK

\* Submit queues the owner and notifies one sleeper.
LEMMA SubmitSleeps ==
    ASSUME IInv, SleepInv, NEW m \in Modules, NEW j \in Jobs, Submit(m, j)
    PROVE  SleepInv'
  <1>1. /\ StartWorkers /\ ~halting /\ Schedule(m, queue, ready, FALSE)
        /\ UNCHANGED <<halting, running, emuPc, emuMod>>
        /\ jobs' = [jobs EXCEPT ![m] = Append(@, j)]
        /\ queue \in Seq(Modules) /\ ready \in [Modules -> BOOLEAN]
        /\ jobs \in [Modules -> Seq(Jobs)]
    BY DEF Submit, Admits, emuVars, IInv, TypeOK
  <1>2. \A w \in Workers : wpc[w] = "check" => wpc'[w] = "check"
    BY <1>1, StartSleeps
  <1>3. jobs'[m] # <<>> /\ \A k \in Modules : k # m => jobs'[k] = jobs[k]
    BY <1>1, AppendFacts
  <1>4. emuPc = "drain" /\ Quiet(emuMod)' => Quiet(emuMod)
    <2>1. emuPc = "drain" => emuMod \in Modules
      BY DEF IInv, EmuSound, TypeOK
    <2> QED BY <1>1, <1>3, <2>1 DEF Quiet
  <1>5. Emu \notin Workers
    BY PoolAssumption
  <1> QED BY <1>1, <1>2, <1>4, <1>5, ScheduleSleeps

\* A Submit that fails may have started workers, which are awake.
LEMMA SubmitFailsSleeps ==
    ASSUME IInv, SleepInv, NEW m \in Modules, SubmitFails(m)
    PROVE  SleepInv'
  <1>1. /\ StartWorkers
        /\ UNCHANGED <<queue, sleeping, halting, jobs, running, emuPc, emuMod>>
    BY DEF SubmitFails, emuVars
  <1>2. \A w \in Workers : wpc[w] = "check" => wpc'[w] = "check"
    BY <1>1, StartSleeps
  <1> QED BY <1>1, <1>2, QuietKept, SleepKept

\* The worker that takes a job is one awake worker less, for one queued owner less.
LEMMA TakeSleeps ==
    ASSUME IInv, SleepInv, NEW w \in Workers, Take(w)
    PROVE  SleepInv'
  <1>1. PICK m \in Modules : m = Head(queue)
    BY TailFacts DEF Take, IInv, TypeOK, QueueSound
  <1>2. /\ queue # <<>> /\ ~halting /\ w \notin sleeping
        /\ jobs' = [jobs EXCEPT ![m] = Tail(@)]
        /\ running' = [running EXCEPT ![m] = @ + 1]
        /\ Schedule(m, Tail(queue), [ready EXCEPT ![m] = FALSE], FALSE)
        /\ wpc' = [wpc EXCEPT ![w] = "picked"]
        /\ UNCHANGED <<halting, emuPc, emuMod>>
    BY <1>1 DEF Take, Awake, emuVars
  <1>3. /\ queue \in Seq(Modules) /\ running \in [Modules -> Nat]
        /\ jobs \in [Modules -> Seq(Jobs)] /\ ready \in [Modules -> BOOLEAN]
        /\ wpc \in [Workers -> {"off", "check", "exit"} \cup Inside]
    BY DEF IInv, TypeOK
  <1>4. Tail(queue) \in Seq(Modules) /\ Len(Tail(queue)) + 1 = Len(queue)
    BY <1>2, <1>3
  <1>5. [ready EXCEPT ![m] = FALSE] \in [Modules -> BOOLEAN]
    BY <1>3
  <1>6. emuPc = "drain" /\ Quiet(emuMod)' => Quiet(emuMod)
    <2>1. emuPc = "drain" => emuMod \in Modules
      BY DEF IInv, EmuSound, TypeOK
    <2>2. running'[m] # 0
      BY <1>2, <1>3
    <2> QED BY <1>2, <1>3, <2>1, <2>2 DEF Quiet
  <1>7. \A v \in Workers : v # w /\ wpc[v] = "check" => wpc'[v] = "check"
    BY <1>2, <1>3
  <1> QED BY <1>2, <1>4, <1>5, <1>6, <1>7, ScheduleSleeps

\* A worker falls asleep only when the queue is empty.
LEMMA SleepSleeps ==
    ASSUME IInv, SleepInv, NEW w \in Workers, Sleep(w)
    PROVE  SleepInv'
  <1>1. /\ wpc[w] = "check" /\ ~halting /\ queue = <<>> /\ sleeping' = sleeping \cup {w}
        /\ UNCHANGED <<queue, halting, jobs, running, wpc, emuPc, emuMod>>
        /\ w # Emu /\ Len(<<>>) = 0
    BY PoolAssumption DEF Sleep, Awake, ownerVars, workerVars, emuVars
  <1>2. Len(queue') = 0
    BY <1>1
  <1>3. Len(queue') <= Cardinality(AwakeWorkers')
    BY <1>2, AwakeFacts
  <1>4. Quiet(emuMod)' <=> Quiet(emuMod)
    BY <1>1, QuietKept
  <1> QED BY <1>1, <1>3, <1>4 DEF SleepInv

\* A drainer falls asleep only when it has something to wait for.
LEMMA CloseSleeps ==
    ASSUME IInv, SleepInv, NEW m \in Modules, NEW next, next \in {"free", "erase"},
           CloseOwner(m, next), emuPc \in {"free", "enter"}, ~halting,
           emuPc' = "drain" => emuMod' = m,
           UNCHANGED <<queue, halting, jobs, running, wpc>>
    PROVE  SleepInv'
  <1>1. Emu \notin sleeping /\ DrainIsOver /\ Emu \notin Workers
    BY PoolAssumption DEF SleepInv, DrainIsOver
  <1>2. CASE emuPc' = next /\ sleeping' = sleeping
    <2>1. AwakeWorkers' = AwakeWorkers
      BY <1>2 DEF AwakeWorkers, Awake
    <2>2. emuPc' # "drain"
      BY <1>2
    <2> QED BY <1>1, <1>2, <2>1, <2>2 DEF SleepInv
  <1>3. CASE ~Quiet(m) /\ emuPc' = "drain" /\ sleeping' = sleeping \cup {Emu}
    <2>1. ~Quiet(emuMod)'
      BY <1>3 DEF Quiet
    <2> QED BY <1>1, <1>3, <2>1 DEF SleepInv, DrainIsOver
  <1> QED BY <1>2, <1>3 DEF CloseOwner

\* No step of the emulation thread strands an owner.
LEMMA EmulationSleeps ==
    ASSUME IInv, SleepInv, Emulation
    PROVE  SleepInv'
  <1>1. CASE ReleaseDrain
    <2>1. emuMod \in Modules
      BY <1>1 DEF ReleaseDrain, IInv, EmuSound, TypeOK
    <2>2. emuPc = "enter" /\ ~halting
      BY <1>1 DEF ReleaseDrain, SleepInv
    <2> QED BY <1>1, <2>1, <2>2, CloseSleeps DEF ReleaseDrain, workerVars
  <1>2. ASSUME NEW m \in Modules, Drain(m) PROVE SleepInv'
    <2>1. CloseOwner(m, "free") /\ emuPc = "free" /\ ~halting
      BY <1>2 DEF Drain
    <2> QED BY <1>2, <2>1, CloseSleeps DEF Drain, workerVars
  <1>3. CASE DrainAgain
    <2>1. /\ emuPc = "drain" /\ Emu \notin sleeping /\ ~halting
          /\ UNCHANGED <<queue, halting, jobs, running, wpc>>
          /\ Emu \notin Workers
      BY <1>3, PoolAssumption DEF DrainAgain, ownerVars, workerVars, SleepInv
    <2>2. CASE Quiet(emuMod)
      <3>1. sleeping' = sleeping /\ emuPc' # "drain" /\ DrainIsOver
        BY <1>3, <2>2 DEF DrainAgain, DrainIsOver
      <3>2. AwakeWorkers' = AwakeWorkers
        BY <2>1, <3>1 DEF AwakeWorkers, Awake
      <3> QED BY <2>1, <3>1, <3>2 DEF SleepInv
    <2>3. CASE ~Quiet(emuMod)
      <3>1. sleeping' = sleeping \cup {Emu} /\ UNCHANGED <<emuPc, emuMod>>
        BY <1>3, <2>3 DEF DrainAgain
      <3>2. ~Quiet(emuMod)'
        BY <2>1, <2>3, <3>1 DEF Quiet
      <3> QED BY <2>1, <3>1, <3>2 DEF SleepInv, DrainIsOver
    <2> QED BY <2>2, <2>3
  <1>4. CASE Halt
    BY <1>4, NotifyAllSleeps DEF Halt, NotifyAll, emuVars
  <1>5. ASSUME Erase \/ StopModules \/ \E m \in Modules : Release(m)
        PROVE  SleepInv'
    <2>1. /\ emuPc # "drain" /\ emuPc' # "drain" /\ ~halting
          /\ UNCHANGED <<queue, sleeping, halting, wpc>>
      BY <1>5 DEF Erase, StopModules, Release, poolVars, workerVars, emuVars, SleepInv
    <2>2. AwakeWorkers' = AwakeWorkers /\ DrainIsOver /\ Emu \notin sleeping
      BY <2>1 DEF AwakeWorkers, Awake, DrainIsOver, SleepInv
    <2> QED BY <2>1, <2>2 DEF SleepInv
  <1> QED BY <1>1, <1>2, <1>3, <1>4, <1>5 DEF Emulation, EmuStep

\* SleepInv is kept by every step.
LEMMA NextSleepInv == IInv /\ SleepInv /\ [Next]_vars => SleepInv'
  <1> SUFFICES ASSUME IInv, SleepInv, [Next]_vars PROVE SleepInv'
    OBVIOUS
  <1> USE DEF ownerVars, poolVars, workerVars, emuVars
  <1>1. CASE UNCHANGED vars
    BY <1>1, QuietKept, SleepKept DEF vars
  <1>2. CASE Guest
    BY <1>2, SubmitSleeps, SubmitFailsSleeps DEF Guest
  <1>3. CASE Emulation
    BY <1>3, EmulationSleeps
  <1>4. ASSUME NEW w \in Workers, WorkerStep(w)
        PROVE  SleepInv'
    <2>1. CASE Take(w)
      BY <2>1, TakeSleeps
    <2>2. CASE Sleep(w)
      BY <2>2, SleepSleeps
    <2>3. CASE Exit(w)
      <3>1. sleeping' = {} /\ (halting' => emuPc' = "free")
        BY <2>3 DEF Exit, SleepInv
      <3> QED BY <3>1, NotifyAllSleeps
    <2>4. CASE Complete(w) \/ Retired(w)
      <3>1. sleeping' = {} /\ (halting' => emuPc' = "free")
        BY <2>4 DEF Complete, Retired, Schedule, NotifyAll, SleepInv
      <3> QED BY <3>1, NotifyAllSleeps
    <2>5. CASE Start(w) \/ Skip(w) \/ Retire(w)
      <3>1. /\ UNCHANGED <<queue, sleeping, halting, jobs, running, emuPc, emuMod>>
            /\ wpc[w] # "check" /\ \A v \in Workers : v # w => wpc'[v] = wpc[v]
        BY <2>5 DEF Start, Skip, Retire, IInv, TypeOK
      <3>2. \A v \in Workers : wpc[v] = "check" => wpc'[v] = "check"
        BY <3>1
      <3> QED BY <3>1, <3>2, QuietKept, SleepKept
    <2> QED BY <1>4, <2>1, <2>2, <2>3, <2>4, <2>5 DEF WorkerStep
  <1>5. ASSUME NEW w \in Workers,
               Return(w) \/ Trap(w) \/ ReleaseTraps(w) \/ \E j \in Jobs : SubmitInline(w, j)
        PROVE  SleepInv'
    <2>1. UNCHANGED <<queue, sleeping, halting, jobs, running, wpc, emuPc, emuMod>>
      BY <1>5 DEF Return, Trap, ReleaseTraps, SubmitInline
    <2> QED BY <2>1, QuietKept, SleepKept
  <1>6. ASSUME NEW t \in Workers \cup {Emu}, Spurious(t)
        PROVE  SleepInv'
    <2>1. /\ UNCHANGED <<queue, halting, jobs, running, wpc, emuPc, emuMod>>
          /\ sleeping' \subseteq sleeping
      BY <1>6 DEF Spurious
    <2> QED BY <2>1, QuietKept, SleepKept
  <1> QED BY <1>1, <1>2, <1>3, <1>4, <1>5, <1>6 DEF Next

\* At first nobody sleeps.
LEMMA InitSleepInv == Init => SleepInv
  BY DEF Init, SleepInv

\* Over a whole behaviour: jobs, contexts and sleepers are as the invariants say.
LEMMA WorkIsTracked == Spec => [](IInv /\ JobsInv /\ ContextsInv /\ SleepInv)
  <1>1. Init => IInv /\ JobsInv /\ ContextsInv /\ SleepInv
    BY InitIInv, InitJobsInv, InitContextsInv, InitSleepInv
  <1>2. IInv /\ JobsInv /\ ContextsInv /\ SleepInv /\ [Next]_vars
           => (IInv /\ JobsInv /\ ContextsInv /\ SleepInv)'
    BY NextIInv, NextJobsInv, NextContextsInv, NextSleepInv
  <1> QED BY <1>1, <1>2, PTL DEF Spec

\* Nothing is forgotten (Submit, Worker_Main and Drain of tasks.cpp): every
\* accepted job is in one place, contexts suffice for the waiting jobs, and a
\* runnable owner has an awake worker unless somebody drains.
THEOREM NothingIsForgotten == Spec => []NothingForgotten
  <1>1. IInv /\ JobsInv /\ ContextsInv /\ SleepInv => NothingForgotten
    <2> SUFFICES ASSUME IInv, JobsInv, ContextsInv, SleepInv PROVE NothingForgotten
      OBVIOUS
    <2>1. TypeOK /\ JobsAccounted /\ EnoughContexts
      BY JobsCounted DEF IInv, ContextsInv
    <2>2. NoStrandedOwner
      BY DEF NoStrandedOwner, SleepInv, DrainIsOver, AwakeWorkers
    <2> QED BY <2>1, <2>2 DEF NothingForgotten
  <1> QED BY <1>1, WorkIsTracked, PTL

-----------------------------------------------------------------------------
(* The pool implements the service *)

\* A job is active for a module when a worker inside its owner has it on its stack.
LEMMA ActiveMembers ==
    \A m, x :
        /\ x \in ServiceActive(m) <=>
              \E w \in Workers : wpc[w] \in Inside /\ wmod[w] = m /\ Occurs(x, stack[w])
        /\ x \in ServiceActive(m)' <=>
              \E w \in Workers : wpc'[w] \in Inside /\ wmod'[w] = m /\ Occurs(x, stack'[w])
  BY DEF ServiceActive, Engaged, Occurs

\* Nothing is active for an owner that nobody waits for.
LEMMA QuietIsIdle ==
    ASSUME IInv, NEW m \in Modules, Quiet(m)
    PROVE  jobs[m] = <<>> /\ ServiceActive(m) = {}
  <1>1. Engaged(m) = {}
    BY EngagedFacts
  <1> QED BY <1>1 DEF ServiceActive, Quiet

\* The gate of a module depends on its owner and its `stopping` flag only.
LEMMA GateKept ==
    ASSUME NEW m \in Modules, entry'[m] = entry[m], stopping'[m] = stopping[m],
           entry[m] \notin {"none", "open"} => (Quiet(m)' <=> Quiet(m))
    PROVE  ServiceGate(m)' = ServiceGate(m)
  <1>1. CASE entry[m] \notin {"none", "open"}
    <2>1. ServiceGate(m) = IF Quiet(m) THEN "closed" ELSE "sealed"
      BY <1>1 DEF ServiceGate
    <2>2. ServiceGate(m)' = IF Quiet(m)' THEN "closed" ELSE "sealed"
      BY <1>1 DEF ServiceGate
    <2> QED BY <1>1, <2>1, <2>2
  <1>2. CASE entry[m] = "none"
    <2>1. ServiceGate(m) = IF stopping[m] THEN "closed" ELSE "open"
      BY <1>2 DEF ServiceGate
    <2>2. ServiceGate(m)' = IF stopping'[m] THEN "closed" ELSE "open"
      BY <1>2 DEF ServiceGate
    <2> QED BY <2>1, <2>2
  <1>3. CASE entry[m] = "open"
    BY <1>3 DEF ServiceGate
  <1> QED BY <1>1, <1>2, <1>3

\* Workers that keep their module and their stack keep the active jobs.
LEMMA ActiveKept ==
    ASSUME stack' = stack,
           \A w \in Workers :
              \/ wmod'[w] = wmod[w] /\ (wpc'[w] \in Inside <=> wpc[w] \in Inside)
              \/ stack[w] = <<>>
    PROVE  \A m \in Modules : ServiceActive(m)' = ServiceActive(m)
  <1> SUFFICES ASSUME NEW m \in Modules, NEW x
               PROVE  x \in ServiceActive(m)' <=> x \in ServiceActive(m)
    OBVIOUS
  <1>1. ASSUME NEW w \in Workers
        PROVE  wpc'[w] \in Inside /\ wmod'[w] = m /\ Occurs(x, stack'[w])
                  <=> wpc[w] \in Inside /\ wmod[w] = m /\ Occurs(x, stack[w])
    BY ShortFacts
  <1> QED BY <1>1, ActiveMembers

\* A step the service does not see.
LEMMA ServiceStutters ==
    ASSUME UNCHANGED <<jobs, fate>>,
           \A m \in Modules : ServiceActive(m)' = ServiceActive(m) /\ ServiceGate(m)' = ServiceGate(m)
    PROVE  UNCHANGED Service!vars
  <1>1. [m \in Modules |-> ServiceActive(m)]' = [m \in Modules |-> ServiceActive(m)]
    OBVIOUS
  <1>2. [m \in Modules |-> ServiceGate(m)]' = [m \in Modules |-> ServiceGate(m)]
    OBVIOUS
  <1> QED BY <1>1, <1>2 DEF Service!vars

\* A step in which modules only close, and close for good only when idle.
LEMMA ServiceShuts ==
    ASSUME IInv, UNCHANGED <<jobs, fate>>,
           \A m \in Modules : ServiceActive(m)' = ServiceActive(m),
           \A m \in Modules : ServiceGate(m)' # ServiceGate(m) =>
               /\ ServiceGate(m) # "closed" /\ ServiceGate(m)' # "open"
               /\ ServiceGate(m)' = "closed" => jobs[m] = <<>> /\ ServiceActive(m) = {}
    PROVE  Service!Shut
  <1>1. [m \in Modules |-> ServiceActive(m)]' = [m \in Modules |-> ServiceActive(m)]
    OBVIOUS
  <1>2. \A m \in Modules : ServiceGate(m)' \in {"open", "sealed", "closed"}
    BY DEF ServiceGate
  <1> QED BY <1>1, <1>2 DEF Service!Shut

\* Submit is Accept: the module was open, and it still is.
LEMMA SubmitAccepts ==
    ASSUME IInv, NEW m \in Modules, NEW j \in Jobs, Submit(m, j)
    PROVE  Service!Accept(m, j)
  <1>1. /\ fate[j] = "new" /\ Admits(m) /\ StartWorkers
        /\ jobs' = [jobs EXCEPT ![m] = Append(@, j)]
        /\ fate' = [fate EXCEPT ![j] = "accepted"]
        /\ entry' = [entry EXCEPT ![m] = "open"]
        /\ UNCHANGED <<running, stopping, wmod, stack>>
    BY DEF Submit, moduleVars
  <1>2. /\ jobs \in [Modules -> Seq(Jobs)]
        /\ entry \in [Modules -> {"none", "open", "closing"}]
    BY DEF IInv, TypeOK
  <1>3. ServiceGate(m) = "open" /\ ServiceGate(m)' = "open"
    BY <1>1, <1>2 DEF ServiceGate, Admits
  <1>4. ASSUME NEW k \in Modules, k # m PROVE ServiceGate(k)' = ServiceGate(k)
    BY <1>1, <1>2, <1>4, GateKept DEF Quiet
  <1>5. \A w \in Workers : wpc'[w] \in Inside <=> wpc[w] \in Inside
    BY <1>1, StartWorkersFacts DEF StartWorkers, IInv, TypeOK, WorkersSound, Inside
  <1>6. \A k \in Modules : ServiceActive(k)' = ServiceActive(k)
    BY <1>1, <1>5, ActiveKept
  <1>7. /\ [k \in Modules |-> ServiceActive(k)]' = [k \in Modules |-> ServiceActive(k)]
        /\ [k \in Modules |-> ServiceGate(k)]' = [k \in Modules |-> ServiceGate(k)]
    BY <1>3, <1>4, <1>6
  <1> QED BY <1>1, <1>3, <1>7 DEF Service!Accept

\* A Submit that fails leaves the gates as they were.
LEMMA SubmitFailsStutters ==
    ASSUME IInv, NEW m \in Modules, SubmitFails(m)
    PROVE  UNCHANGED Service!vars
  <1>1. /\ Admits(m) /\ StartWorkers
        /\ entry' = [entry EXCEPT ![m] = "open"]
        /\ UNCHANGED <<jobs, fate, running, stopping, wmod, stack>>
        /\ entry \in [Modules -> {"none", "open", "closing"}]
    BY DEF SubmitFails, IInv, TypeOK
  <1>2. ServiceGate(m) = "open" /\ ServiceGate(m)' = "open"
    BY <1>1 DEF ServiceGate, Admits
  <1>3. ASSUME NEW k \in Modules, k # m PROVE ServiceGate(k)' = ServiceGate(k)
    BY <1>1, <1>3, GateKept DEF Quiet
  <1>4. \A w \in Workers : wpc'[w] \in Inside <=> wpc[w] \in Inside
    BY <1>1, StartWorkersFacts DEF StartWorkers, IInv, TypeOK, WorkersSound, Inside
  <1>5. \A k \in Modules : ServiceActive(k)' = ServiceActive(k)
    BY <1>1, <1>4, ActiveKept
  <1> QED BY <1>1, <1>2, <1>3, <1>5, ServiceStutters

\* A job submitted by a job is accepted inline: its module cannot be closed
\* while a worker runs a job of it.
LEMMA SubmitInlineAccepts ==
    ASSUME IInv, NEW w \in Workers, NEW j \in Jobs, SubmitInline(w, j)
    PROVE  wmod[w] \in Modules /\ Service!AcceptInline(wmod[w], j)
  <1>1. /\ wpc[w] \in Inside /\ fate[j] = "new"
        /\ stack' = [stack EXCEPT ![w] = Append(@, j)]
        /\ fate' = [fate EXCEPT ![j] = "accepted"]
        /\ UNCHANGED <<entry, jobs, running, stopping, wpc, wmod>>
    BY DEF SubmitInline, Inside, ownerVars, moduleVars
  <1>2. PICK m \in Modules : m = wmod[w]
    BY <1>1 DEF IInv, WorkersSound
  <1>3. ServiceGate(m) # "closed"
    <2>1. w \in Engaged(m)
      BY <1>1, <1>2 DEF Engaged
    <2>2. entry[m] # "none" /\ ~Quiet(m)
      BY <2>1, EngagedFacts
    <2> QED BY <2>2 DEF ServiceGate
  <1>4. \A k \in Modules : ServiceGate(k)' = ServiceGate(k)
    BY <1>1, GateKept DEF Quiet
  <1>5. stack \in [Workers -> Seq(Jobs)]
    BY DEF IInv, TypeOK
  <1>6. \A v \in Workers : \A x : Occurs(x, stack'[v]) <=> Occurs(x, stack[v]) \/ (v = w /\ x = j)
    BY <1>1, <1>5, AppendFacts
  <1>7. ASSUME NEW k \in Modules
        PROVE  ServiceActive(k)' = IF k = m THEN ServiceActive(k) \cup {j} ELSE ServiceActive(k)
    <2>1. ASSUME NEW x
          PROVE  x \in ServiceActive(k)' <=> x \in ServiceActive(k) \/ (k = m /\ x = j)
      BY <1>1, <1>2, <1>6, ActiveMembers
    <2> QED BY <2>1
  <1>8. /\ [k \in Modules |-> ServiceGate(k)]' = [k \in Modules |-> ServiceGate(k)]
        /\ [k \in Modules |-> ServiceActive(k)]' =
              [[k \in Modules |-> ServiceActive(k)] EXCEPT ![m] = @ \cup {j}]
    BY <1>4, <1>7
  <1> QED BY <1>1, <1>2, <1>3, <1>8 DEF Service!AcceptInline

\* Take starts the oldest waiting job of a module that is not closed.
LEMMA TakeStarts ==
    ASSUME IInv, NEW w \in Workers, Take(w)
    PROVE  \E m \in Modules : Service!Start(m)
  <1>1. PICK m \in Modules : m = Head(queue)
    BY TailFacts DEF Take, IInv, TypeOK, QueueSound
  <1>2. /\ queue # <<>> /\ wpc[w] = "check"
        /\ stack' = [stack EXCEPT ![w] = <<Head(jobs[m])>>]
        /\ jobs' = [jobs EXCEPT ![m] = Tail(@)]
        /\ running' = [running EXCEPT ![m] = @ + 1]
        /\ wmod' = [wmod EXCEPT ![w] = m]
        /\ wpc' = [wpc EXCEPT ![w] = "picked"]
        /\ UNCHANGED <<fate, entry, stopping>>
    BY <1>1 DEF Take, Awake, NextJob, moduleVars
  <1>3. /\ jobs \in [Modules -> Seq(Jobs)] /\ stack \in [Workers -> Seq(Jobs)]
        /\ running \in [Modules -> Nat] /\ wmod \in [Workers -> Modules \cup {None}]
        /\ wpc \in [Workers -> {"off", "check", "exit"} \cup Inside]
    BY DEF IInv, TypeOK
  <1>4. jobs[m] # <<>>
    <2>1. Occurs(m, queue)
      BY <1>1, <1>2 DEF IInv, TypeOK, Occurs
    <2> QED BY <2>1 DEF IInv, QueueSound
  <1>5. stack[w] = <<>> /\ wpc[w] \notin Inside
    BY <1>2 DEF IInv, WorkersSound, Inside
  <1>6. ~Quiet(m) /\ ~Quiet(m)'
    BY <1>2, <1>3, <1>4 DEF Quiet
  <1>7. \A k \in Modules : k # m => (Quiet(k)' <=> Quiet(k))
    BY <1>2, <1>3 DEF Quiet
  <1>8. \A k \in Modules : ServiceGate(k)' = ServiceGate(k)
    BY <1>2, <1>6, <1>7, GateKept
  <1>9. /\ \A v \in Workers \ {w} :
              wpc'[v] = wpc[v] /\ wmod'[v] = wmod[v] /\ stack'[v] = stack[v]
        /\ wpc'[w] \in Inside /\ wmod'[w] = m
        /\ \A x : Occurs(x, stack'[w]) <=> x = Head(jobs[m])
    BY <1>2, <1>3, ShortFacts DEF Inside
  <1>10. ASSUME NEW k \in Modules
         PROVE  ServiceActive(k)' = IF k = m THEN ServiceActive(k) \cup {Head(jobs[m])}
                                    ELSE ServiceActive(k)
    <2>1. ASSUME NEW x
          PROVE  x \in ServiceActive(k)' <=> x \in ServiceActive(k) \/ (k = m /\ x = Head(jobs[m]))
      BY <1>5, <1>9, ActiveMembers
    <2> QED BY <2>1
  <1>11. /\ [k \in Modules |-> ServiceGate(k)]' = [k \in Modules |-> ServiceGate(k)]
         /\ [k \in Modules |-> ServiceActive(k)]' =
               [[k \in Modules |-> ServiceActive(k)] EXCEPT ![m] = @ \cup {Head(jobs[m])}]
    BY <1>8, <1>10
  <1> QED BY <1>2, <1>4, <1>11 DEF Service!Start

\* The innermost job of a worker ends, and that job only: it is nowhere else.
LEMMA PopFinishes ==
    ASSUME IInv, JobsInv, NEW w \in Workers, wpc[w] \in Inside, stack[w] # <<>>,
           NEW result \in {"ran", "dropped"},
           fate' = [fate EXCEPT ![stack[w][Len(stack[w])]] = result],
           stack' = [stack EXCEPT ![w] = SubSeq(@, 1, Len(@) - 1)],
           \A v \in Workers : wpc'[v] \in Inside <=> wpc[v] \in Inside,
           UNCHANGED <<entry, jobs, running, stopping, wmod>>
    PROVE  \E m \in Modules, j \in Jobs : Service!Finish(m, j)
  <1>1. PICK m \in Modules : m = wmod[w]
    BY DEF IInv, WorkersSound
  <1>2. stack \in [Workers -> Seq(Jobs)] /\ NoRepeat(stack[w])
    BY DEF IInv, TypeOK, JobsInv
  <1>3. PICK j \in Jobs : j = stack[w][Len(stack[w])] /\ Occurs(j, stack[w])
    BY <1>2, PopOccurs
  <1>4. \A x : Occurs(x, stack'[w]) <=> Occurs(x, stack[w]) /\ x # j
    BY <1>2, <1>3, PopOccurs
  <1>5. \A v \in Workers : v # w => stack'[v] = stack[v] /\ ~Occurs(j, stack[v])
    BY <1>2, <1>3 DEF JobsInv
  <1>6. \A k \in Modules : ServiceGate(k)' = ServiceGate(k)
    BY GateKept DEF Quiet
  <1>7. ASSUME NEW k \in Modules
        PROVE  ServiceActive(k)' = IF k = m THEN ServiceActive(k) \ {j} ELSE ServiceActive(k)
    <2>1. ASSUME NEW x
          PROVE  x \in ServiceActive(k)' <=> x \in ServiceActive(k) /\ ~(k = m /\ x = j)
      BY <1>1, <1>4, <1>5, ActiveMembers
    <2> QED BY <2>1
  <1>8. j \in ServiceActive(m)
    BY <1>1, <1>3, ActiveMembers
  <1>9. /\ [k \in Modules |-> ServiceGate(k)]' = [k \in Modules |-> ServiceGate(k)]
        /\ [k \in Modules |-> ServiceActive(k)]' =
               [[k \in Modules |-> ServiceActive(k)] EXCEPT ![m] = @ \ {j}]
    BY <1>6, <1>7
  <1>10. Service!Finish(m, j)
    BY <1>3, <1>8, <1>9 DEF Service!Finish
  <1> QED BY <1>10

\* A job leaves a worker's stack when it returns, traps or is skipped.
LEMMA PopStepFinishes ==
    ASSUME IInv, JobsInv, NEW w \in Workers, Skip(w) \/ Return(w) \/ Trap(w)
    PROVE  \E m \in Modules, j \in Jobs : Service!Finish(m, j)
  <1>1. CASE Skip(w)
    <2>1. \A v \in Workers : wpc'[v] \in Inside <=> wpc[v] \in Inside
      BY <1>1 DEF Skip, IInv, TypeOK, Inside
    <2>2. wpc[w] \in Inside /\ UNCHANGED <<entry, running, stopping, wmod>>
      BY <1>1 DEF Skip, Inside, ownerVars
    <2> QED BY <1>1, <2>1, <2>2, SkipPops, PopFinishes
  <1>2. CASE Return(w) \/ Trap(w)
    <2>1. /\ wpc[w] \in Inside /\ stack[w] # <<>>
          /\ UNCHANGED <<entry, jobs, running, stopping, wmod, wpc>>
          /\ stack' = [stack EXCEPT ![w] = SubSeq(@, 1, Len(@) - 1)]
      BY <1>2 DEF Return, Trap, Inside, ownerVars, moduleVars
    <2>2. PICK result \in {"ran", "dropped"} :
             fate' = [fate EXCEPT ![stack[w][Len(stack[w])]] = result]
      BY <1>2 DEF Return, Trap
    <2> QED BY <2>1, <2>2, PopFinishes
  <1> QED BY <1>1, <1>2

\* A worker leaves its owner: a drained owner may become closed.
LEMMA LeaveShuts ==
    ASSUME IInv, IInv', NEW w \in Workers, Complete(w) \/ Retired(w)
    PROVE  Service!Shut
  <1>1. PICK m \in Modules : m = wmod[w]
    BY DEF Complete, Retired, IInv, WorkersSound, Inside
  <1>2. /\ wpc[w] \in Inside /\ stack[w] = <<>>
        /\ running' = [running EXCEPT ![m] = @ - 1]
        /\ wpc' = [wpc EXCEPT ![w] = "check"]
        /\ wmod' = [wmod EXCEPT ![w] = None]
        /\ UNCHANGED <<jobs, fate, entry, stopping, stack>>
    BY <1>1 DEF Complete, Retired, Inside, moduleVars
  <1>3. running \in [Modules -> Nat]
    BY DEF IInv, TypeOK
  <1>4. \A v \in Workers : v # w => wpc'[v] = wpc[v] /\ wmod'[v] = wmod[v]
    BY <1>2 DEF IInv, TypeOK
  <1>5. \A k \in Modules : ServiceActive(k)' = ServiceActive(k)
    BY <1>2, <1>4, ActiveKept
  <1>6. ASSUME NEW k \in Modules, ServiceGate(k)' # ServiceGate(k)
        PROVE  /\ ServiceGate(k) # "closed" /\ ServiceGate(k)' # "open"
               /\ ServiceGate(k)' = "closed" => jobs[k] = <<>> /\ ServiceActive(k) = {}
    <2>1. k = m
      BY <1>2, <1>3, <1>6, GateKept DEF Quiet
    <2>2. w \in Engaged(m) /\ ~Quiet(m)
      BY <1>1, <1>2, EngagedFacts DEF Engaged
    <2>3. entry[m] # "none"
      BY <2>2, EngagedFacts
    <2>4. entry[m] = "closing"
      <3>1. entry[m] \in {"none", "open", "closing"}
        BY DEF IInv, TypeOK
      <3> QED BY <1>2, <1>6, <2>1, <2>3, <3>1 DEF ServiceGate
    <2>5. ServiceGate(k) # "closed" /\ ServiceGate(k)' # "open"
      BY <1>2, <2>1, <2>2, <2>4 DEF ServiceGate
    <2>6. ASSUME ServiceGate(k)' = "closed"
          PROVE  jobs[k] = <<>> /\ ServiceActive(k) = {}
      <3>1. jobs'[k] = <<>> /\ running'[k] = 0
        BY <1>2, <2>1, <2>4, <2>6 DEF ServiceGate, Quiet
      <3>2. Engaged(k)' = {}
        <4>1. IsFiniteSet(Engaged(k)')
          BY PoolAssumption, FS_Subset DEF Engaged
        <4>2. Cardinality(Engaged(k)') = 0
          BY <3>1 DEF IInv, OwnerOutlivesWorkers
        <4> QED BY <4>1, <4>2, FS_EmptySet
      <3>3. ServiceActive(k)' = {}
        BY <3>2 DEF ServiceActive
      <3> QED BY <1>2, <1>5, <3>1, <3>3
    <2> QED BY <2>5, <2>6
  <1> QED BY <1>2, <1>5, <1>6, ServiceShuts

\* Closing, stopping and erasing owners is all the service sees of the emulation thread.
LEMMA EmulationShuts ==
    ASSUME IInv, Emulation
    PROVE  Service!Shut
  <1>1. UNCHANGED <<jobs, fate, running, stack, wpc, wmod>>
    BY DEF Emulation, EmuStep, ReleaseDrain, DrainAgain, Erase, StopModules, Halt, Drain, Release,
       ownerVars, workerVars
  <1>2. \A k \in Modules : ServiceActive(k)' = ServiceActive(k)
    BY <1>1, ActiveKept
  <1>3. \A k \in Modules : Quiet(k)' <=> Quiet(k)
    BY <1>1 DEF Quiet
  <1>4. ASSUME NEW k \in Modules, ServiceGate(k)' # ServiceGate(k)
        PROVE  /\ ServiceGate(k) # "closed" /\ ServiceGate(k)' # "open"
               /\ ServiceGate(k)' = "closed" => Quiet(k)
    <2>1. ~(entry'[k] = entry[k] /\ stopping'[k] = stopping[k])
      BY <1>3, <1>4, GateKept
    <2>2. entry \in [Modules -> {"none", "open", "closing"}] /\ stopping \in [Modules -> BOOLEAN]
      BY DEF IInv, TypeOK
    <2>3. entry[k] = "none" => Quiet(k)
      BY EngagedFacts
    <2>4. CASE StopModules \/ \E m \in Modules : Release(m)
      <3>1. entry' = entry /\ stopping'[k] /\ ~stopping[k]
        BY <2>1, <2>2, <2>4 DEF StopModules, Release, ownerVars
      <3>2. entry[k] = "none"
        BY <1>3, <1>4, <2>2, <3>1 DEF ServiceGate
      <3> QED BY <2>3, <3>1, <3>2 DEF ServiceGate
    <2>5. ASSUME NEW m \in Modules, NEW next, CloseOwner(m, next), UNCHANGED stopping
          PROVE  /\ ServiceGate(k) # "closed" /\ ServiceGate(k)' # "open"
                 /\ ServiceGate(k)' = "closed" => Quiet(k)
      <3>1. entry[k] # "none" /\ entry'[k] = "closing" /\ entry[k] # "closing"
        BY <2>1, <2>2, <2>5 DEF CloseOwner
      <3>2. entry[k] = "open"
        BY <2>2, <3>1
      <3>3. ServiceGate(k) = "open"
        BY <3>2 DEF ServiceGate
      <3>4. ServiceGate(k)' = IF Quiet(k)' THEN "closed" ELSE "sealed"
        BY <3>1 DEF ServiceGate
      <3> QED BY <1>3, <3>3, <3>4
    <2>6. CASE ReleaseDrain
      <3>1. emuMod \in Modules
        BY <2>6 DEF ReleaseDrain, IInv, EmuSound, TypeOK
      <3> QED BY <2>5, <2>6, <3>1 DEF ReleaseDrain, moduleVars
    <2>7. CASE \E m \in Modules : Drain(m)
      BY <2>5, <2>7 DEF Drain, moduleVars
    <2>8. CASE Erase
      <3>1. /\ emuMod \in Modules /\ stopping[emuMod] /\ emuPc = "erase"
            /\ entry' = [entry EXCEPT ![emuMod] = "none"] /\ stopping' = stopping
        BY <2>8 DEF Erase, IInv, EmuSound, TypeOK, moduleVars
      <3>2. k = emuMod /\ entry'[k] = "none"
        BY <2>1, <2>2, <3>1
      <3>3. Quiet(k)
        BY <3>1, <3>2 DEF IInv, DrainedIsQuiet
      <3>4. ServiceGate(k)' = "closed"
        BY <3>1, <3>2 DEF ServiceGate
      <3> QED BY <1>4, <3>3, <3>4
    <2>9. CASE DrainAgain \/ Halt
      BY <2>1, <2>9 DEF DrainAgain, Halt, ownerVars, moduleVars
    <2> QED BY <2>4, <2>6, <2>7, <2>8, <2>9 DEF Emulation, EmuStep
  <1> QED BY <1>1, <1>2, <1>4, QuietIsIdle, ServiceShuts

\* Every step of the pool is a step of the service, or none.
LEMMA ServiceStep ==
    ASSUME IInv, IInv', JobsInv, [Next]_vars
    PROVE  Service!Next \/ UNCHANGED Service!vars
  <1>1. CASE UNCHANGED vars
    <2>1. UNCHANGED <<jobs, fate, entry, stopping, running, stack, wpc, wmod>>
      BY <1>1 DEF vars, ownerVars, moduleVars, workerVars
    <2>2. \A m \in Modules : ServiceGate(m)' = ServiceGate(m)
      BY <2>1, GateKept DEF Quiet
    <2> QED BY <2>1, <2>2, ActiveKept, ServiceStutters
  <1>2. CASE Guest
    <2>1. CASE \E m \in Modules, j \in Jobs : Submit(m, j)
      <3>1. \E m \in Modules, j \in Jobs : Service!Accept(m, j)
        BY <2>1, SubmitAccepts
      <3> QED BY <3>1 DEF Service!Next
    <2>2. CASE \E m \in Modules : SubmitFails(m)
      BY <2>2, SubmitFailsStutters
    <2> QED BY <1>2, <2>1, <2>2 DEF Guest
  <1>3. CASE Emulation
    BY <1>3, EmulationShuts DEF Service!Next
  <1>4. ASSUME NEW w \in Workers, WorkerStep(w)
        PROVE  Service!Next \/ UNCHANGED Service!vars
    <2>1. CASE Take(w)
      <3>1. \E m \in Modules : Service!Start(m)
        BY <2>1, TakeStarts
      <3> QED BY <3>1 DEF Service!Next
    <2>2. CASE Skip(w)
      <3>1. \E m \in Modules, j \in Jobs : Service!Finish(m, j)
        BY <2>2, PopStepFinishes
      <3> QED BY <3>1 DEF Service!Next
    <2>3. CASE Complete(w) \/ Retired(w)
      BY <2>3, LeaveShuts DEF Service!Next
    <2>4. CASE Sleep(w) \/ Exit(w) \/ Start(w) \/ Retire(w)
      <3>1. UNCHANGED <<jobs, fate, entry, stopping, running, stack, wmod>>
        BY <2>4 DEF Sleep, Exit, Start, Retire, ownerVars, moduleVars, workerVars
      <3>2. \A m \in Modules : ServiceGate(m)' = ServiceGate(m)
        BY <3>1, GateKept DEF Quiet
      <3>3. \A v \in Workers : wpc'[v] \in Inside <=> wpc[v] \in Inside
        BY <2>4 DEF Sleep, Exit, Start, Retire, Awake, workerVars, Inside, IInv, TypeOK
      <3> QED BY <3>1, <3>2, <3>3, ActiveKept, ServiceStutters
    <2> QED BY <1>4, <2>1, <2>2, <2>3, <2>4 DEF WorkerStep
  <1>5. ASSUME NEW w \in Workers, Return(w) \/ Trap(w)
        PROVE  Service!Next
    <2>1. \E m \in Modules, j \in Jobs : Service!Finish(m, j)
      BY <1>5, PopStepFinishes
    <2> QED BY <2>1 DEF Service!Next
  <1>6. ASSUME NEW w \in Workers, NEW j \in Jobs, SubmitInline(w, j)
        PROVE  Service!Next
    BY <1>6, SubmitInlineAccepts DEF Service!Next
  <1>7. ASSUME NEW t \in Workers \cup {Emu}, Spurious(t)
        PROVE  UNCHANGED Service!vars
    <2>1. UNCHANGED <<jobs, fate, entry, stopping, running, stack, wpc, wmod>>
      BY <1>7 DEF Spurious, ownerVars, moduleVars, workerVars
    <2>2. \A m \in Modules : ServiceGate(m)' = ServiceGate(m)
      BY <2>1, GateKept DEF Quiet
    <2> QED BY <2>1, <2>2, ActiveKept, ServiceStutters
  <1>8. ASSUME NEW w \in Workers, ReleaseTraps(w)
        PROVE  UNCHANGED Service!vars
    <2>1. UNCHANGED <<jobs, fate, entry, stopping, running, stack, wpc, wmod>>
      BY <1>8 DEF ReleaseTraps, ownerVars, workerVars
    <2>2. \A m \in Modules : ServiceGate(m)' = ServiceGate(m)
      BY <2>1, GateKept DEF Quiet
    <2> QED BY <2>1, <2>2, ActiveKept, ServiceStutters
  <1> QED BY <1>1, <1>2, <1>3, <1>4, <1>5, <1>6, <1>7, <1>8 DEF Next

\* The pool (Submit, Worker_Main, Drain and Tasks_Release_Owner of tasks.cpp)
\* implements TaskService: jobs start in the order they were accepted, each
\* meets one fate, and a closed module stays silent.
THEOREM ImplementsTheService == Spec => ImplementsService
  <1>1. Init => Service!Init
    <2> SUFFICES ASSUME Init PROVE Service!Init
      OBVIOUS
    <2>1. \A m \in Modules : ServiceActive(m) = {} /\ ServiceGate(m) = "open"
      BY DEF Init, ServiceActive, ServiceGate, Engaged, Inside
    <2> QED BY <2>1 DEF Init, Service!Init
  <1>2. IInv /\ IInv' /\ JobsInv /\ [Next]_vars => [Service!Next]_(Service!vars)
    BY ServiceStep
  <1> QED BY <1>1, <1>2, WorkIsTracked, PTL DEF Spec, ImplementsService, Service!Spec

=============================================================================
