------------------------------ MODULE TaskPool ------------------------------
(***************************************************************************)
(* The host's task pool (src/client/src/tasks.cpp).  Guest code submits    *)
(* jobs; every module has an owner record with a FIFO of jobs and a set of *)
(* execution contexts; owners with a runnable job stand in the ready queue *)
(* the workers pop.  One mutex guards all of it and one condition variable *)
(* is shared by the idle workers and by the emulation thread in Drain.     *)
(*                                                                         *)
(* A step is one critical section of the mutex, or one stretch of guest    *)
(* code between two of them.  The wait set of the condition variable is    *)
(* explicit: notify_one removes an arbitrary waiter, worker or drainer.    *)
(***************************************************************************)
EXTENDS Integers, Sequences, FiniteSets

CONSTANTS
    Modules,    \* loaded guest modules
    Jobs,       \* job handles; one is submitted at most once
    Workers,    \* worker threads the host may start (Thread_Cpu_Count)
    Faulty,     \* workers whose wasm_runtime_init_thread_env fails
    Contexts,   \* identities of execution contexts
    Emu,        \* the emulation thread, the only one that drains
    None        \* no module, no context

ASSUME PoolAssumption ==
    /\ IsFiniteSet(Workers)
    /\ Faulty \subseteq Workers
    /\ Emu \notin Workers
    /\ None \notin Modules \cup Contexts

VARIABLES
    workers,    \* sPool.workers: started worker threads
    queue,      \* sPool.ready: owners with a runnable job, oldest first
    sleeping,   \* threads asleep on sPool.changed
    halting,    \* sPool.stopping
    entry,      \* sPool.owners: no entry, an open one, or one that is closing
    contexts,   \* owner.contexts
    busy,       \* the contexts whose busy flag is set
    jobs,       \* owner.jobs
    running,    \* owner.running
    ready,      \* owner.ready
    disabled,   \* module.disabled
    stopping,   \* module.stopping
    wpc,        \* where each worker is
    wmod,       \* the owner a worker serves
    wctx,       \* the context it runs in
    stack,      \* its job, then the jobs it runs inline, outermost first
    emuPc,      \* where the emulation thread is
    emuMod,     \* the module it drains
    emuFrees,   \* whether the drain is part of Tasks_Release_Owner
    fate        \* history: what became of each job

poolVars   == <<workers, queue, sleeping, halting>>
ownerVars  == <<entry, contexts, busy, jobs, running, ready>>
moduleVars == <<disabled, stopping>>
workerVars == <<wpc, wmod, wctx, stack>>
emuVars    == <<emuPc, emuMod, emuFrees>>
vars == <<poolVars, ownerVars, moduleVars, workerVars, emuVars, fate>>

-----------------------------------------------------------------------------

\* A worker holds a reference to its owner record at these points.
Inside == {"picked", "run", "retire"}

TypeOK ==
    /\ workers \subseteq Workers
    /\ queue \in Seq(Modules)
    /\ sleeping \subseteq Workers \cup {Emu}
    /\ halting \in BOOLEAN
    /\ entry \in [Modules -> {"none", "open", "closing"}]
    /\ contexts \in [Modules -> SUBSET Contexts]
    /\ busy \in [Modules -> SUBSET Contexts]
    /\ jobs \in [Modules -> Seq(Jobs)]
    /\ running \in [Modules -> Nat]
    /\ ready \in [Modules -> BOOLEAN]
    /\ disabled \in [Modules -> BOOLEAN]
    /\ stopping \in [Modules -> BOOLEAN]
    /\ wpc \in [Workers -> {"off", "check", "exit"} \cup Inside]
    /\ wmod \in [Workers -> Modules \cup {None}]
    /\ wctx \in [Workers -> Contexts \cup {None}]
    /\ stack \in [Workers -> Seq(Jobs)]
    /\ emuPc \in {"free", "enter", "drain", "erase"}
    /\ emuMod \in Modules \cup {None}
    /\ emuFrees \in BOOLEAN
    /\ fate \in [Jobs -> {"new", "accepted", "ran", "dropped"}]

Init ==
    /\ workers = {}
    /\ queue = <<>>
    /\ sleeping = {}
    /\ halting = FALSE
    /\ entry = [m \in Modules |-> "none"]
    /\ contexts = [m \in Modules |-> {}]
    /\ busy = [m \in Modules |-> {}]
    /\ jobs = [m \in Modules |-> <<>>]
    /\ running = [m \in Modules |-> 0]
    /\ ready = [m \in Modules |-> FALSE]
    /\ disabled = [m \in Modules |-> FALSE]
    /\ stopping = [m \in Modules |-> FALSE]
    /\ wpc = [w \in Workers |-> "off"]
    /\ wmod = [w \in Workers |-> None]
    /\ wctx = [w \in Workers |-> None]
    /\ stack = [w \in Workers |-> <<>>]
    /\ emuPc = "free"
    /\ emuMod = None
    /\ emuFrees = FALSE
    /\ fate = [j \in Jobs |-> "new"]

-----------------------------------------------------------------------------

\* What may be left asleep after notify_one and notify_all.
NotifyNobody(asleep) == {asleep}

NotifyOne(asleep) ==
    IF asleep = {} THEN {{}} ELSE {asleep \ {t} : t \in asleep}

NotifyAll(asleep) == {{}}

\* Available_Context finds one.
AvailableBusy(m) == contexts[m]

Available(m) == contexts[m] \ busy[m]

\* The test of Schedule, in the state a critical section leaves: `flagged` are
\* the ready flags so far.
RunnableAgain(m, flagged) == jobs'[m] # <<>> /\ contexts'[m] \ busy'[m] # {}

Runnable(m, flagged) == ~flagged[m] /\ jobs'[m] # <<>> /\ contexts'[m] \ busy'[m] # {}

\* Schedule(owner) at the end of a critical section that leaves the queue `line`;
\* `all` when a notify_all follows.
Schedule(m, line, flagged, all) ==
    /\ queue' = IF Runnable(m, flagged) THEN Append(line, m) ELSE line
    /\ ready' = [flagged EXCEPT ![m] = @ \/ Runnable(m, flagged)]
    /\ sleeping' \in IF all THEN NotifyAll(sleeping)
                     ELSE IF Runnable(m, flagged) THEN NotifyOne(sleeping)
                     ELSE {sleeping}

\* Nothing is left to run for an owner: what Drain waits for.
QuietQueue(m) == jobs[m] = <<>>

Quiet(m) == jobs[m] = <<>> /\ running[m] = 0

\* The job a worker takes.
NewestJob(m) == jobs[m][Len(jobs[m])]

NextJob(m) == Head(jobs[m])

-----------------------------------------------------------------------------

\* The first Submit starts the workers; any nonempty number of them may start.
StartWorkers ==
    IF workers = {}
    THEN \E started \in (SUBSET Workers) \ {{}} :
             /\ workers' = started
             /\ wpc' = [w \in Workers |-> IF w \in started THEN "check" ELSE wpc[w]]
    ELSE UNCHANGED <<workers, wpc>>

\* Another context is created while there are fewer than jobs to serve and
\* fewer than workers to serve them.
WantsContextLate(m) ==
    /\ Cardinality(contexts[m]) < Len(jobs[m]) + running[m]
    /\ Cardinality(contexts[m]) < Cardinality(workers')

WantsContext(m) ==
    /\ Cardinality(contexts[m]) < Len(jobs[m]) + running[m] + 1
    /\ Cardinality(contexts[m]) < Cardinality(workers')

AdmitsLate(m) == ~halting /\ ~disabled[m]

Admits(m) == ~halting /\ ~stopping[m] /\ ~disabled[m] /\ entry[m] # "closing"

\* Submit from a guest thread or the emulation thread, when it accepts the job.
Submit(m, j) ==
    /\ fate[j] = "new"
    /\ Admits(m)
    /\ StartWorkers
    /\ entry' = [entry EXCEPT ![m] = "open"]
    /\ IF WantsContext(m)
       THEN \E c \in Contexts \ (contexts[m] \cup {wctx[w] : w \in Workers}) :
                contexts' = [contexts EXCEPT ![m] = @ \cup {c}]
       ELSE UNCHANGED contexts
    /\ jobs' = [jobs EXCEPT ![m] = Append(@, j)]
    /\ UNCHANGED busy
    /\ Schedule(m, queue, ready, FALSE)
    /\ fate' = [fate EXCEPT ![j] = "accepted"]
    /\ UNCHANGED <<halting, running, moduleVars, wmod, wctx, stack, emuVars>>

\* Submit that returns 0 because Create_Context fails: the workers and the
\* owner entry stay, and the failure may have been a trap of the guest.
SubmitFails(m) ==
    /\ Admits(m)
    /\ StartWorkers
    /\ WantsContext(m)
    /\ entry' = [entry EXCEPT ![m] = "open"]
    /\ \E trapped \in BOOLEAN :
           disabled' = [disabled EXCEPT ![m] = @ \/ trapped]
    /\ UNCHANGED <<queue, sleeping, halting, contexts, busy, jobs, running, ready,
                   stopping, wmod, wctx, stack, emuVars, fate>>

\* Submit called by a job, or by a destructor of the context a worker retires:
\* it runs inline, whatever the state of the owner entry.
SubmitInline(w, j) ==
    /\ wpc[w] = "retire" \/ (wpc[w] = "run" /\ stack[w] # <<>>)
    /\ fate[j] = "new"
    /\ ~disabled[wmod[w]] /\ ~stopping[wmod[w]]
    /\ stack' = [stack EXCEPT ![w] = Append(@, j)]
    /\ fate' = [fate EXCEPT ![j] = "accepted"]
    /\ UNCHANGED <<poolVars, ownerVars, moduleVars, wpc, wmod, wctx, emuVars>>

-----------------------------------------------------------------------------

Awake(w) == wpc[w] = "check" /\ w \notin sleeping

\* The wait predicate is false.
Sleep(w) ==
    /\ Awake(w)
    /\ ~halting /\ queue = <<>>
    /\ sleeping' = sleeping \cup {w}
    /\ UNCHANGED <<workers, queue, halting, ownerVars, moduleVars, workerVars, emuVars, fate>>

Exit(w) ==
    /\ Awake(w)
    /\ halting
    /\ wpc' = [wpc EXCEPT ![w] = "exit"]
    /\ UNCHANGED <<poolVars, ownerVars, moduleVars, wmod, wctx, stack, emuVars, fate>>

\* The worker takes the oldest job of the first ready owner.
Take(w) ==
    /\ Awake(w)
    /\ ~halting /\ queue # <<>>
    /\ LET m == Head(queue)
       IN  /\ \E c \in Available(m) :
                  /\ busy' = [busy EXCEPT ![m] = @ \cup {c}]
                  /\ wctx' = [wctx EXCEPT ![w] = c]
           /\ wmod' = [wmod EXCEPT ![w] = m]
           /\ stack' = [stack EXCEPT ![w] = <<NextJob(m)>>]
           /\ jobs' = [jobs EXCEPT ![m] = Tail(@)]
           /\ running' = [running EXCEPT ![m] = @ + 1]
           /\ UNCHANGED contexts
           /\ Schedule(m, Tail(queue), [ready EXCEPT ![m] = FALSE], FALSE)
    /\ wpc' = [wpc EXCEPT ![w] = "picked"]
    /\ UNCHANGED <<workers, halting, entry, moduleVars, emuVars, fate>>

\* Run enters the guest.
Start(w) ==
    /\ wpc[w] = "picked"
    /\ w \notin Faulty /\ ~disabled[wmod[w]]
    /\ wpc' = [wpc EXCEPT ![w] = "run"]
    /\ UNCHANGED <<poolVars, ownerVars, moduleVars, wmod, wctx, stack, emuVars, fate>>

\* The job is dropped: the module is disabled, or the worker has no thread
\* environment and disables it.
Skip(w) ==
    /\ wpc[w] = "picked"
    /\ w \in Faulty \/ disabled[wmod[w]]
    /\ wpc' = [wpc EXCEPT ![w] = "run"]
    /\ stack' = [stack EXCEPT ![w] = <<>>]
    /\ fate' = [fate EXCEPT ![stack[w][1]] = "dropped"]
    /\ disabled' = [disabled EXCEPT ![wmod[w]] = TRUE]
    /\ UNCHANGED <<poolVars, ownerVars, stopping, wmod, wctx, emuVars>>

\* The innermost job returns.
Return(w) ==
    /\ wpc[w] \in {"run", "retire"} /\ stack[w] # <<>>
    /\ fate' = [fate EXCEPT ![stack[w][Len(stack[w])]] = "ran"]
    /\ stack' = [stack EXCEPT ![w] = SubSeq(@, 1, Len(@) - 1)]
    /\ UNCHANGED <<poolVars, ownerVars, moduleVars, wpc, wmod, wctx, emuVars>>

\* The innermost job traps: the module is disabled, and the exception is
\* cleared, so a job that ran it inline goes on.
Trap(w) ==
    /\ wpc[w] \in {"run", "retire"} /\ stack[w] # <<>>
    /\ fate' = [fate EXCEPT ![stack[w][Len(stack[w])]] = "dropped"]
    /\ stack' = [stack EXCEPT ![w] = SubSeq(@, 1, Len(@) - 1)]
    /\ disabled' = [disabled EXCEPT ![wmod[w]] = TRUE]
    /\ UNCHANGED <<poolVars, ownerVars, stopping, wpc, wmod, wctx, emuVars>>

\* An idle owner gives its spare contexts back.
Retires(m) == jobs[m] = <<>> /\ Cardinality(contexts[m]) > 1

\* The job is over and its context is not retired.
Complete(w) ==
    /\ wpc[w] = "run" /\ stack[w] = <<>>
    /\ LET m == wmod[w]
       IN  /\ ~Retires(m)
           /\ busy' = [busy EXCEPT ![m] = @ \ {wctx[w]}]
           /\ running' = [running EXCEPT ![m] = @ - 1]
           /\ UNCHANGED <<contexts, jobs>>
           /\ Schedule(m, queue, ready, TRUE)
    /\ wpc' = [wpc EXCEPT ![w] = "check"]
    /\ wmod' = [wmod EXCEPT ![w] = None]
    /\ wctx' = [wctx EXCEPT ![w] = None]
    /\ UNCHANGED <<workers, halting, entry, moduleVars, stack, emuVars, fate>>

\* The job is over and its context leaves the owner; the mutex is dropped
\* while it is destroyed.
Retire(w) ==
    /\ wpc[w] = "run" /\ stack[w] = <<>>
    /\ LET m == wmod[w]
       IN  /\ Retires(m)
           /\ busy' = [busy EXCEPT ![m] = @ \ {wctx[w]}]
           /\ contexts' = [contexts EXCEPT ![m] = @ \ {wctx[w]}]
    /\ wpc' = [wpc EXCEPT ![w] = "retire"]
    /\ UNCHANGED <<poolVars, entry, jobs, running, ready, moduleVars, wmod, wctx, stack,
                   emuVars, fate>>

\* modloader_thread_release of the context that is destroyed traps; no job is lost.
ReleaseTraps(w) ==
    /\ wpc[w] = "retire" /\ stack[w] = <<>>
    /\ disabled' = [disabled EXCEPT ![wmod[w]] = TRUE]
    /\ UNCHANGED <<poolVars, ownerVars, stopping, workerVars, emuVars, fate>>

\* The mutex is taken again after the context was destroyed.
Retired(w) ==
    /\ wpc[w] = "retire" /\ stack[w] = <<>>
    /\ LET m == wmod[w]
       IN  /\ running' = [running EXCEPT ![m] = @ - 1]
           /\ UNCHANGED <<contexts, busy, jobs>>
           /\ Schedule(m, queue, ready, TRUE)
    /\ wpc' = [wpc EXCEPT ![w] = "check"]
    /\ wmod' = [wmod EXCEPT ![w] = None]
    /\ wctx' = [wctx EXCEPT ![w] = None]
    /\ UNCHANGED <<workers, halting, entry, moduleVars, stack, emuVars, fate>>

\* A condition variable may wake a waiter for no reason.
Spurious(t) ==
    /\ t \in sleeping
    /\ sleeping' = sleeping \ {t}
    /\ UNCHANGED <<workers, queue, halting, ownerVars, moduleVars, workerVars, emuVars, fate>>

-----------------------------------------------------------------------------

\* The first critical section of Drain: the owner closes, and the emulation
\* thread goes on at `next` when there is nothing to wait for.
CloseOwner(m, next) ==
    IF entry[m] = "none"
    THEN emuPc' = next /\ UNCHANGED <<entry, sleeping>>
    ELSE /\ entry' = [entry EXCEPT ![m] = "closing"]
         /\ IF Quiet(m)
            THEN emuPc' = next /\ UNCHANGED sleeping
            ELSE emuPc' = "drain" /\ sleeping' = sleeping \cup {Emu}

\* task_drain called by a module.
Drain(m) ==
    /\ ~halting /\ emuPc = "free"
    /\ CloseOwner(m, "free")
    /\ emuMod' = IF emuPc' = "drain" THEN m ELSE None
    /\ UNCHANGED <<workers, queue, halting, contexts, busy, jobs, running, ready,
                   moduleVars, workerVars, emuFrees, fate>>

\* Shutdown_Modules flags every module before it releases them in turn.
StopModules ==
    /\ ~halting /\ emuPc = "free"
    /\ stopping' = [m \in Modules |-> TRUE]
    /\ UNCHANGED <<poolVars, ownerVars, disabled, workerVars, emuVars, fate>>

\* Tasks_Release_Owner, up to its call of Drain.
Release(m) ==
    /\ ~halting /\ emuPc = "free"
    /\ stopping' = [stopping EXCEPT ![m] = TRUE]
    /\ emuPc' = "enter"
    /\ emuMod' = m
    /\ emuFrees' = TRUE
    /\ UNCHANGED <<poolVars, ownerVars, disabled, workerVars, fate>>

ReleaseDrain ==
    /\ emuPc = "enter"
    /\ CloseOwner(emuMod, "erase")
    /\ UNCHANGED <<workers, queue, halting, contexts, busy, jobs, running, ready,
                   moduleVars, workerVars, emuMod, emuFrees, fate>>

\* The draining thread wakes and looks at the predicate again.
DrainAgain ==
    /\ emuPc = "drain" /\ Emu \notin sleeping
    /\ IF Quiet(emuMod)
       THEN /\ emuPc' = IF emuFrees THEN "erase" ELSE "free"
            /\ emuMod' = IF emuFrees THEN emuMod ELSE None
            /\ UNCHANGED sleeping
       ELSE sleeping' = sleeping \cup {Emu} /\ UNCHANGED <<emuPc, emuMod>>
    /\ UNCHANGED <<workers, queue, halting, ownerVars, moduleVars, workerVars, emuFrees, fate>>

\* The owner is taken out of the map and freed with its contexts.
Erase ==
    /\ emuPc = "erase"
    /\ entry' = [entry EXCEPT ![emuMod] = "none"]
    /\ contexts' = [contexts EXCEPT ![emuMod] = {}]
    /\ emuPc' = "free"
    /\ emuMod' = None
    /\ emuFrees' = FALSE
    /\ UNCHANGED <<poolVars, busy, jobs, running, ready, moduleVars, workerVars, fate>>

\* ~Task_Pool when the process exits.
Halt ==
    /\ ~halting /\ emuPc = "free"
    /\ halting' = TRUE
    /\ sleeping' \in NotifyAll(sleeping)
    /\ UNCHANGED <<workers, queue, ownerVars, moduleVars, workerVars, emuVars, fate>>

-----------------------------------------------------------------------------

Guest == \E m \in Modules : SubmitFails(m) \/ \E j \in Jobs : Submit(m, j)

\* What a worker does on its own once its job is over or not begun.
WorkerStep(w) ==
    \/ Sleep(w) \/ Exit(w) \/ Take(w) \/ Start(w) \/ Skip(w)
    \/ Complete(w) \/ Retire(w) \/ Retired(w)

EmuStep == ReleaseDrain \/ DrainAgain \/ Erase

Emulation ==
    \/ EmuStep \/ StopModules \/ Halt
    \/ \E m \in Modules : Drain(m) \/ Release(m)

Next ==
    \/ Guest
    \/ Emulation
    \/ \E w \in Workers : \/ WorkerStep(w) \/ Return(w) \/ Trap(w) \/ ReleaseTraps(w)
                          \/ \E j \in Jobs : SubmitInline(w, j)
    \/ \E t \in Workers \cup {Emu} : Spurious(t)

Spec == Init /\ [][Next]_vars

\* The operating system runs every thread and every job comes to an end.
Fairness ==
    /\ \A w \in Workers : WF_vars(WorkerStep(w)) /\ WF_vars(Return(w))
    /\ WF_vars(EmuStep)

FairSpec == Spec /\ Fairness

-----------------------------------------------------------------------------
(* Properties *)

\* The workers that hold a reference to the owner of m.
Engaged(m) == {w \in Workers : wpc[w] \in Inside /\ wmod[w] = m}

Occurs(x, s) == \E i \in 1..Len(s) : s[i] = x
NoRepeat(s) == \A i, k \in 1..Len(s) : s[i] = s[k] => i = k

\* A worker that pops the ready queue finds an owner that exists, a job and an
\* idle context there (both are dereferenced unchecked); and an owner with a
\* job and an idle context is always in the queue, exactly once.
QueueSound ==
    /\ NoRepeat(queue)
    /\ \A m \in Modules : ready[m] <=> Occurs(m, queue)
    /\ \A m \in Modules : ready[m] <=> jobs[m] # <<>> /\ Available(m) # {}
    /\ \A m \in Modules : entry[m] = "none" => jobs[m] = <<>>

\* Every context a worker executes in belongs to that worker alone, and the
\* busy flags are exactly the contexts of running jobs.
ContextsExclusive ==
    /\ \A v, w \in Workers :
           v # w /\ wmod[v] # None /\ wmod[v] = wmod[w] => wctx[v] # wctx[w]
    /\ \A m \in Modules, c \in Contexts :
           c \in busy[m] <=> \E w \in Engaged(m) : wpc[w] # "retire" /\ wctx[w] = c

\* The owner record is never freed under a worker that still uses it:
\* `running` counts those workers, also while they destroy a retired context.
OwnerOutlivesWorkers ==
    \A m \in Modules :
        /\ running[m] = Cardinality(Engaged(m))
        /\ Engaged(m) # {} => entry[m] # "none"

\* Once Drain has returned nothing of the module runs in the pool, and nothing
\* starts again: guest shutdown code may free what its jobs used.
DrainedIsQuiet ==
    \A m \in Modules :
        \/ entry[m] = "closing" /\ ~(emuPc = "drain" /\ emuMod = m)
        \/ emuPc = "erase" /\ emuMod = m
        \/ entry[m] = "none" /\ stopping[m] /\ emuMod # m
        => Quiet(m) /\ ~ready[m] /\ Engaged(m) = {}

\* What the invariants above rest on: the worker's registers, and the drain
\* the emulation thread is in.
WorkersSound ==
    \A w \in Workers :
        /\ wpc[w] = "off" <=> w \notin workers
        /\ wpc[w] \in Inside => wmod[w] \in Modules /\ wctx[w] \in Contexts
        /\ wpc[w] \notin Inside => wmod[w] = None /\ wctx[w] = None /\ stack[w] = <<>>
        /\ wpc[w] = "picked" => Len(stack[w]) = 1
        /\ wpc[w] \in {"picked", "run"} => wctx[w] \in contexts[wmod[w]]
        /\ wpc[w] = "retire" => wctx[w] \notin contexts[wmod[w]]

EmuSound ==
    /\ emuPc = "free" <=> emuMod = None
    /\ emuPc = "free" => ~emuFrees
    /\ emuPc \in {"enter", "erase"} => emuFrees
    /\ emuFrees => stopping[emuMod]
    /\ emuPc = "drain" => entry[emuMod] = "closing"

IInv ==
    TypeOK /\ QueueSound /\ ContextsExclusive /\ OwnerOutlivesWorkers /\ DrainedIsQuiet
    /\ WorkersSound /\ EmuSound

\* The places where a job waits or runs.
Places(j) ==
    LET At(queues) == {p \in UNION {{k} \X (1..Len(queues[k])) : k \in DOMAIN queues} :
                           queues[p[1]][p[2]] = j}
    IN  At(jobs) \cup At(stack)

\* An accepted job is in exactly one place until it ran or was dropped; no
\* other job is anywhere: the guest's heap object is consumed exactly once.
JobsAccounted ==
    \A j \in Jobs : Cardinality(Places(j)) = IF fate[j] = "accepted" THEN 1 ELSE 0

\* A module never waits for an execution context while a worker could run its
\* next job: contexts are created early enough and retired late enough.
EnoughContexts ==
    \A m \in Modules :
        LET served == Len(jobs[m]) + Cardinality(busy[m])
        IN  Cardinality(contexts[m]) >= IF served < Cardinality(workers) THEN served
                                        ELSE Cardinality(workers)

\* While nobody drains, a runnable owner never goes unnoticed: as long as a
\* worker is asleep there is an awake one for every owner in the queue.
NoStrandedOwner ==
    emuPc # "drain" /\ sleeping # {} => Len(queue) <= Cardinality({w \in Workers : Awake(w)})

\* Nothing is forgotten: no job, no context a job waits for, and no owner whose
\* job a sleeping worker could run; every variable keeps its type.
NothingForgotten == TypeOK /\ JobsAccounted /\ EnoughContexts /\ NoStrandedOwner

\* Every accepted job is eventually run or dropped, unless the process exits.
EveryJobSettles ==
    \A j \in Jobs : fate[j] = "accepted" ~> fate[j] \in {"ran", "dropped"} \/ halting

\* Drain returns.
DrainReturns == emuPc \in {"enter", "drain"} ~> emuPc \in {"free", "erase"}

\* The workers leave when the pool is destroyed, so that Join returns.
WorkersLeave == halting ~> \A w \in workers : wpc[w] = "exit"

\* Jobs settle, Drain returns and the workers leave.
WorkEnds == EveryJobSettles /\ DrainReturns /\ WorkersLeave

-----------------------------------------------------------------------------
(* Refinement of TaskService *)

ServiceGate(m) ==
    IF entry[m] = "none" THEN IF stopping[m] THEN "closed" ELSE "open"
    ELSE IF entry[m] = "open" THEN "open"
    ELSE IF Quiet(m) THEN "closed" ELSE "sealed"

ServiceActive(m) ==
    UNION {{stack[w][i] : i \in 1..Len(stack[w])} : w \in Engaged(m)}

Service == INSTANCE TaskService WITH
    pending <- jobs,
    active  <- [m \in Modules |-> ServiceActive(m)],
    outcome <- fate,
    gate    <- [m \in Modules |-> ServiceGate(m)]

\* The pool keeps the promises of TaskService: per-module FIFO starts, one
\* outcome per job, and silence once a module is drained or released.
ImplementsService == Service!Spec

=============================================================================
