# ModLoader in TLA+

ModLoader runs guest modules (WebAssembly) inside a game-console emulator. The *host*
(`client/src`) loads the modules, gives them threads, tasks, sockets, timers and a lobby,
and delivers events to them on the emulation thread. The *SDK* (`sdk/src`,
`sdk/libc/src`) is the code linked into every module: a libc with POSIX threads, a
promise and coroutine runtime, timers, packets, and an allocator for guest memory.

This directory holds TLA+ models of the concurrent and stateful core of that system, the
TLC configurations that check them on small instances, and TLAPS proofs of what matters
most in many of them, for every instance. Every definition is translated from the source;
`PROJECT.json` names the lines each one stands for.

1. [Running](#running)
2. [The system](#the-system): parts, state, interactions, hard behaviours
3. [The modules](#the-modules): how state and actions correspond to the code
4. [The runs](#the-runs): what each shows, its bounds, its fairness
5. [Where the code and its documentation disagree](#where-the-code-and-its-documentation-disagree)
6. [The proofs](#the-proofs)
7. [What is only model-checked, and what is not modelled](#what-is-only-model-checked-and-what-is-not-modelled)
8. [The plan](#the-plan)

## Running

    tlc -workers 2 -config TaskPool.cfg MCTaskPool        # any line of the table of runs
    tlapm TaskPoolProofs.tla                              # and each module with theorems:
    tlapm PthreadMutexProofs.tla
    tlapm PthreadSyncProofs.tla
    tlapm VectorTheorems.tla
    tlapm PromiseProofs.tla
    tlapm LobbyProofs.tla
    tlapm HostProofs.tla
    tlapm PartsProofs.tla

Every leaf was also proved with half of the provers' time limits (`--stretch 0.5`).

## The system

Three kinds of threads meet in it. The *emulation thread* runs the emulated machine,
delivers every event to the modules and is the only one that calls a module's main
instance. *Guest threads* (`pthread_create`) and *pool workers* (tasks) run code of a
module in instances of their own beside it, on the same linear memory. *Service threads*
of the host (the lobby server and client, the presenter) run no guest code and hand
records over through queues. A module can trap at any instruction; the host then disables
it and gives its threads, tasks, sockets, hooks and textures back, whatever they are in the
middle of.

| part | state it keeps | operations | what is hard | what makes it correct |
| --- | --- | --- | --- | --- |
| **task pool** (`client/src/tasks.cpp`) | ready queue of owners; per owner jobs, contexts with busy flags, `running`, `closing`; the workers | submit (also from inside a job), worker loop, drain, release of an owner, destruction | one mutex and one condition variable for idle workers and the draining emulation thread; jobs run and contexts are destroyed with the mutex dropped; traps; context creation that fails | no job lost or run twice; a context serves one worker; an owner outlives its workers; silence after a drain; jobs of a module start in order |
| **mutexes** (`pthread.cpp`, `core.cpp`, SDK `thread.cpp`) | a three-state word, owner, count, type | lock, try, timed lock, unlock | lock-free futex protocol; a deadline that passes after the word was marked; unlock in two halves | exclusion, owner and count that agree with it, no lost wakeup |
| **condition variables, rwlocks, barriers** (`pthread.cpp`) | a sequence word; readers and writer; arrivals and generation | wait, timed wait, signal, broadcast; rdlock, wrlock, unlock; barrier wait | broadcast after the mutex is dropped; a fast thread in the next generation; sequence numbers that wrap | a writer alone, whole groups released, nobody left asleep |
| **keys** (`pthread.cpp`) | slots with generations; values per thread | create, delete, get, set, destructors at exit | destructors run outside the lock while other threads delete and reuse slots; 24 bits kept of a generation | values private to a key; a destructor gets its own key's values |
| **once, spin, attributes** (`pthread.cpp`) | one word each | | one compare-and-swap | — |
| **thread lifecycle** (`pthread.cpp`, `client/src/threads.cpp`) | a record per thread, the detached list; the host's map of entries | create, join, detach, reap, finish, trap, release of the module | a thread may end before its creator stored the host id; two sides with two locks; termination against joins | a record is freed once, after its last use; a release leaves no thread running |
| **promises** (SDK `promise.cpp`) | a table of counted records, the ready queue, the shutdown flag; the host's pending request | create, retain, release, resolve, reject, then/catch, detach, dispatch, shutdown | dispatch nests in callbacks; closures own promises; a request is made only by the first of an empty queue | exact counts, no lost request, each continuation called once, in order |
| **coroutines** (SDK `coroutine.cpp`) | a wait shared by two continuations | await, cancel, finish | whichever settles first removes the other | the frame resumes once or is destroyed once |
| **timers, clocks** (SDK `timer.cpp`) | a list of timers, its depth | add, cancel, dispatch | add, cancel and dispatch nest in a callback; saturating deadlines | a cancelled timer does not fire; no slot moves under a dispatch |
| **callback and listener lists** (SDK `callback_list.h`, `listener_list.h`) | slots, depth, next id | add, remove, call, close | all of them nest in a callback | a removed listener is not called, an added one is called from the next call on |
| **entry and events** (SDK `entry.cpp`, `component.cpp`, `input.cpp`, `emulation.cpp`) | handler tables, phase of the module | exported entry points | entry points end with a dispatch of promises | init and shutdown balance |
| **task and thread wrappers** (SDK `task.cpp`, `thread.cpp`) | — | thin layers over the two above | ownership of the heap object of a job | — |
| **guest heap** (SDK `guest/heap.cpp`) | extents in address order, bins, handles with generations | create, destroy, alloc, free, realloc, pin, callback, compact | callbacks of owners in the middle of a move; records run out; copies fail half way | extents tile the region, bytes survive moves, owners know their addresses |
| **guest memory, machine, layout** (SDK `guest/`) | — | checked copies | bounds | — |
| **breakpoints** (SDK and host `breakpoint*.cpp`) | a table, the one step owner | add, remove, step, hit | removal inside a hit; the step token of a module against the owner of the host | one step owner; a hit is delivered to listeners of the time |
| **packets, sockets, lobby API** (SDK `net/`) | one deque of handlers; counts of raw handlers and followed events; topics at the host | register, unregister, close, dispatch of delivered records | handlers register, close and let other events in while a visit walks the deque | a registered handler hears each packet once; the host delivers what somebody waits for |
| **files, settings, JSON** (SDK `io/`) | — | parsing, file access | — | — |
| **user interface** (SDK `ui/`, `graphics/`) | — | bindings, most generated | — | — |
| **N64 patches, code, hypercalls** (SDK `platforms/n64/`) | the chain of patches of each function | install, remove, relocate, call | removal in any order | the function calls the remaining patches in order; the original code comes back |
| **libc heap, stdio, strings, math, time** | free lists under a spin lock; the buffer, position and flags of a stream | malloc, realloc, aligned_alloc, free; read, write, seek, push back | aligned pointers with a second header; a buffer that must follow writes and seeks; host calls that fail in the middle of a read | blocks are apart and none is lost; a read returns what the file holds |
| **module runtime** (`client/src/runtime.cpp`, `module*.cpp`, `natives.cpp`) | modules in order, subscriptions per event, pending dispatches, holds | deliver an event in phases, subscribe, request dispatch, hold, trap, release, shutdown | modules subscribe, unsubscribe, trap and release in the middle of a delivery; worker threads request dispatches | phases and order; nothing is delivered to a stopped module; no request lost |
| **sessions** (`session*.cpp`, `dedicated.cpp`) | restart, pause, load and quit flags, the one request of the presenter, pending image changes | requests of the UI against the loop, its holds and the adapter | flags that are read once and cleared once, by two threads; states that the adapter takes later | a request is honoured or refused, never dropped |
| **loading, linking** (`loader.cpp`, `module_graph.cpp`, `linker.cpp`, ...) | the graph of modules | read, visit, group, link, instantiate | copies of a module, modules read in the middle of a visit | each module once, dependencies first, cycles refused, one group for those that share a memory |
| **files, savestates, settings** (host) | the retries of a save, the image changes of a load | file access, formats | deferred restore of a loaded state | the changes belong to the state that is loaded |
| **module sockets** (`net.cpp`, `network/packets.cpp`) | sockets per module, watched sets | open, send, close, dispatch | a handler closes the socket that is being walked | no event of a closed socket |
| **lobby server** (`network/lobby_server.cpp`) | connections, lobbies, members, ids, queued messages of the host | accept, handshake, create, join, leave, relay, flush, close | dead and closing connections stay in the tables till the end of a turn; the host's thread queues | rosters that agree, one member per identity, balanced events |
| **lobby client** (`network/lobby_client.cpp`) | handshake state, peers | connect, join with retries, receive, send, stop | races of several clients for one name | joins end, peers are exact |
| **host lobby, wire protocol** (`lobby.cpp`, `network/protocol.cpp`, `socket.cpp`, `names.cpp`) | queues between threads | encode, encrypt, frame | — | — |
| **datagram channel** (`network/datagram.cpp`) | keys, counters, the replay window, the address of a member | send, open, commit, reconnect | shifts beyond the width; late datagrams of an old address or an old connection | nothing opened twice, nothing new refused |
| **textures** (`textures.cpp`, `texture_bindings.cpp`) | sources with revisions, dirty sets, notified states | add, update, remove, dispatch | other threads change sources between the deliveries | every listener hears the last state |
| **guest layout** (`guest_layout*.cpp`, `guest.cpp`) | named structures | lookup | sequential | — |
| **presenter, renderer, user interface** | — | graphics, audio, input | — | — |
| **base, platform** | — | operating-system calls, tables | — | — |

How they interact:

- the runtime calls a module's exported entry points on the emulation thread; each ends
  with a dispatch of the module's promises; other threads ask the runtime for one through
  `Request_Dispatch`, served by `Dispatch_Pending` every frame;
- the SDK submits jobs to the task pool; the pool runs them through `Module::Execute`, and
  `Module::Trap` disables the module from any of its threads;
- the libc creates threads through the host (`threads.cpp`), whose table must be empty
  before the module's memory is;
- releasing a module walks over every table the host keeps: tasks, threads, sockets,
  subscriptions, textures, breakpoints;
- the lobby's threads hand records to the emulation thread, which delivers them as events;
- the rwlock, the barrier, `Sync::Mutex` and the libc's own spin lock rest on the mutex
  protocol; coroutines, timers and thread joins rest on promises.

## The modules

| module | what it models | extends / used by |
| --- | --- | --- |
| `TaskPool` | the host's worker pool | |
| `TaskService` | what the pool promises a module (abstract) | implemented by `TaskPool` |
| `TaskPoolProofs` | theorems about `TaskPool` | |
| `MCTaskPool` | the symmetry of jobs, workers, contexts | |
| `PthreadMutex` | the futex lock of the libc | |
| `MutexService` | what a mutex promises (abstract) | implemented by `PthreadMutex` |
| `PthreadMutexProofs` | theorems about `PthreadMutex` | |
| `PthreadCondition` | condition variables | extended by the next two |
| `PthreadRwlock`, `PthreadBarrier` | read-write locks, barriers | |
| `PthreadKeys` | thread-specific data | |
| `PthreadThreads` | thread lifecycle, libc and host | |
| `MCPthreadSync` | one state space for the four above | |
| `PthreadSyncProofs` | theorems about those four | extends `MCPthreadSync` |
| `Promise` | promises, their dispatch and the host's request for it | extends `Vectors` |
| `PromiseProofs` | theorems about `Promise` | |
| `LobbyWire` | connections between clients and server | extends `Vectors`; extended by the next two |
| `LobbyServer`, `LobbyClient` | the two ends | composed by `Lobby` |
| `Lobby` | server and clients together | |
| `LobbyProofs` | theorems about `Lobby` | |
| `GuestHeap` | the allocator of guest memory | |
| `MCGuestHeap` | the view that forgets the names of records | |
| `MCGuestHeapStale` | `GuestHeap` and a program that keeps old handles | |
| `Vectors` | a list without the elements that a test rejects, in a form to prove about | extended by `Promise`, `LobbyWire`, `Runtime`, `Breakpoints` and `Coroutine` |
| `VectorTheorems` | lemmas about such lists | extended by the next proof modules |
| `Runtime` | modules, events and requested dispatches of the host | composed by `MCHost` |
| `Session` | a session: the user's requests, the loop, its holds, the adapter | composed by `MCHost` |
| `Sockets` | the sockets of a module and `Net_Dispatch` | composed by `MCHost` |
| `MCHost` | one state space for the three above | |
| `HostProofs` | theorems about those three | extends `MCHost` |
| `Textures` | texture sources and their dispatch | composed by `MCParts` |
| `Datagram` | the replay window and the address of a member | composed by `MCParts` |
| `Breakpoints` | records of modules, list of the host, copy of the adapter | composed by `MCParts` |
| `PatchChain` | detours of one function of an N64 game | extended by `MCParts` |
| `Coroutine` | coroutines on promises | composed by `MCParts` |
| `EventFollowers` | `Follow_Event` | extended by `Timers`, `Listeners`, `Packets` |
| `Timers` | timers and clocks of the SDK | composed by `MCParts` |
| `Listeners` | `Callback_List` under events and under framework lists | composed by `MCParts` |
| `LibcHeap` | malloc and its family | composed by `MCParts` |
| `Stdio` | a buffered stream on a file of the host | composed by `MCParts` |
| `Packets` | the handlers of packets and connections in a module | extends `EventFollowers`; composed by `MCParts` |
| `ModuleGraph` | the order and the groups in which modules are linked | composed by `MCParts` |
| `MCParts` | one state space for the eleven above | |
| `PartsProofs` | theorems about some of them | extends `MCParts` |

`MCLobby` only gives the constants their values; `PthreadMutex`, `PthreadThreads` and
`Promise` are checked as they are.

### `TaskPool`

A step is one critical section of the pool's mutex, or one stretch of guest code between
two of them. Variables are the fields of `Task_Pool` and `Task_Owner` under their names
(`queue` is `sPool.ready`, `entry` tells whether an owner record exists and is closing);
`wpc`, `wmod`, `wctx` and `stack` are the registers of a worker, `emuPc` and its companions
those of the emulation thread.

- The wait set of the condition variable is explicit. `NotifyOne` removes an arbitrary
  waiter, and Drain waits on the same variable, so a notification can go to the thread that
  cannot use it. Spurious wakeups are steps of their own.
- `Submit` is the whole function: it starts the workers on the first job, creates a context
  when `WantsContext` says so, queues the job and schedules the owner. `SubmitFails` is the
  path on which no context can be created and there is none. `SubmitInline` is a submit from inside
  a job of the same module: it runs at once, on the job's own stack, past the `closing` flag.
- `Trap` unwinds only the innermost job; the jobs below it go on, as `Module::Execute` returns to
  them. A trapped module is `disabled`; jobs that are taken later are skipped.
- `Retire` destroys a context with the mutex dropped while `running` still counts the worker: its destructors may
  submit, and its release may trap (`ReleaseTraps`). `Retired` takes the mutex again.
- Release flags the module (`stopping`) outside the mutex, drains and erases the owner. A plain drain
  (`task_drain`) leaves the owner closing for good.
- `Faulty` workers could not initialise their thread environment: they take jobs, run none of
  them and disable the module instead.

### `PthreadMutex`

A step is one atomic access of the word or thread-private work between two of them.
`Contend`, `Mark`, `Wait` are the loop of `Mutex_Lock`: an exchange that marks the word
contended, then a wait that sleeps only if it still is. `TimeOut` is the deadline checked
between the two, `Expire` the one that ends the wait. An unlock is `Unwind` (recursive, not the last) or `Disown`
(owner and count cleared), `Release` (the exchange) and `Wake`. `Libc::Spin_Lock`
(`core.cpp:30`) and `Sync::Mutex` (`thread.cpp:95`) are the same protocol: the normal type without
deadlines.

The program is any one that unlocks what it holds. `MaxCalls` bounds the calls of a thread:
barging is allowed for ever by the code, and an unbounded stream of bargers would satisfy
liveness without showing whether a sleeper is ever woken.

### `PthreadCondition`, `PthreadRwlock`, `PthreadBarrier`

The mutex beside the condition is the abstract one of `MutexService`, which `PthreadMutex`
is proved to implement, so taking it is one step. `Condition_Wait` is `ReadSequence`, `Leave`,
`Doze` or `Stale` or `Late`, and `Relock`; a broadcast is `Bump` and `Broadcast`, after the caller
dropped the mutex. The sequence wraps at `SequenceMod` as the 32-bit one does. A waiter that slept through
a whole turn of it would miss a signal; the checked instances let fewer signals happen than
that, as the real width does.

### `PthreadKeys`

A slot access under `sKeyLock` is a step; `Run_Key_Destructors` is a loop over slots and
rounds whose registers (`round`, `index`, `ranAny`, `call`) are variables, because other threads
create and delete keys between its steps. A value is named by the key it was stored under, so that a
destructor that gets another key's value shows (`misrouted`).

### `PthreadThreads`

One state machine for the records of the libc and the map of the host. A step is a critical
section of either lock, an atomic access of a record, or one wait. `End` is a routine that
returns, `Trap` one that traps, `Terminate` the instance ending after the host terminated it. Threads are
numbered and join only larger ones: the program does not join in a circle.
`SharesEarly` is whether a thread hands its own `pthread_self()` to a sibling before its creator's
`pthread_create` returned; POSIX allows it, and one run shows what happens then.
`RecordOutlivesUse` has one exception: `Threads_Release_Owner` takes a thread's entry out of the map before it terminates the
instance, and a guest join between the two frees the record while its thread still runs for a moment. That is so in the code;
the property says that it is never any thread but the one that the release is waiting for.

### `Promise`

Every critical section under `sLock` is one step. A closure or a last reference is destroyed
after the lock is dropped, so what it owned is in `dropping` and released by later steps,
recursively. `frames` is the stack of calls of `Dispatch` on the main thread: the callback of a continuation may
dispatch again (`Event` inside a call), register, remove, settle and release. `HostDispatch` is
`Dispatch_Pending`: it clears the request before it calls. `continuations` and `fate` are histories:
what each registered continuation belongs to, captured, and became. Then and Catch register for
one outcome or for both; the selection does not change the queue, so the model settles
with the states in `Outcomes`. `Creations` is the bound: promises made so far, one for each generation a record has had.

### `LobbyWire`, `LobbyServer`, `LobbyClient`, `Lobby`

A connection is one run of a client, so reconnecting under the same identity is another
connection of that identity. The server's loop is explicit (`phase`, `todo`): a turn sends what
the host queued, visits the connections one by one, flushes, closes, accepts. Handlers are
operators from a server record to a server record because the code calls them from each other
(`Leave` inside `Join` inside `Receive`, `Send` marking a member dead in the middle of a
broadcast). Members stay in the lobby while dead or closing, until the end of the turn, as in the code. The loop that closes
the dead goes through the table once: a member that dies of the news that another leaves may be passed over, and stays dead until the end of the next turn.
A turn with nothing to do is skipped. The input a connection has is handled whole when the loop visits it: `Handlings` is the
server after each of its messages, `Evictions` after each connection that an identity puts out, `Relays` after each message of the host,
and a step takes the last of them. A broadcast is one operator on a set of connections (`SendAll`): what one member is sent does not
depend on what another is.
All clients ask for one lobby name; encryption, framing and identity proofs are taken to work.

### `GuestHeap`

Offsets and sizes count granules of 16 bytes. `heap` is the record of the allocator: extents linked in address
order, the bins of free extents, the unused records. The functions that only rearrange it
(`New_Record`, `Insert_Free`, `Merge`, `Split`, `Swap_Locations`) are operators from heap to heap;
`Realloc` and `Compact` are cut into steps wherever the code calls the owner (`Prepare`, `Copy`, `Commit`,
`Rollback`), because the callback may call the heap in between: those calls are refused or allowed
as the code does through `notifying` (here: `move # NoMove`, `sweep # NoSweep`).
`malloc` fails at choice, a copy fails after any number of granules, the owner vetoes before or after the copy.
The environment is the owners: one writes all of a block when it gets it, a different value in every granule, and one with a callback
keeps the address it was told in `cached`.

### `Runtime`

Everything happens on the emulation thread but `RequestDispatch`. `at`, `turn`, `recipients` and `pending` are the
registers of its loops (`Initialize`, `Deliver` with its three phases, `Dispatch_Pending`, `Shutdown_Modules`), and
`inside` is the module whose code runs: while it is one, that module may subscribe, unsubscribe, return or trap.
`lists` are the vectors behind `subscribers`. `Deliver` holds a shared pointer to the one that it started with, so a change
writes in place when nobody else holds the list and to a copy otherwise (`Target`); a list that nobody holds becomes free.
`heard` and `asked` are histories that the properties read: the calls of a delivery, and the requests that no call has answered.

### `Session`

Two threads. The window's thread toggles the pause, asks for a restart (two stores with a step between them), for a save or
load through the presenter's one request, and for the end. The emulation thread runs the adapter's loop: `Refresh` decides
once a frame; `Hold` is the nap loop of a user's pause, `Break` that of a breakpoint. `adapter` is what the
external adapter accepted and has yet to do. `image`, `file` and `pendingImageChanges` are the image of the
machine as one value: what a savestate keeps besides the machine's own state must be put back by the very load it belongs to.

### `Sockets`

One module. `table` are the handles in its map, `closing` those that a thread took out and has yet to close, `closed` and
`packets` flags of the entries. `Net_Dispatch` is one loop over `watched` cut where it calls the module (`event`): the
module then closes sockets, opens others, or traps. `wire` is what has arrived: nothing, one packet, or the end.
A closed entry keeps its input while a dispatch holds a pointer to it. `work`, `delivered` and `networkCursor` are the budgets and the
place where the next dispatch goes on. A turn of a socket may be spent on output alone when the budget is
small; the model allows it at every turn and the liveness property counts it as one.

### `Textures`

`Dispatch` is a loop of three critical sections with the renderer and the modules called in between (`step`): `ask`, `answer`,
`deliver`. All that the user interface can do (switch, move, reload, save) and all that modules can do happens
between them, and moves `revision`. `preferences` is the user's order, `sources` the one in use, `stored` the
file. `shown` and `loaded` are what the renderer took; `heard` is what each module was told last.

### `Datagram`

The client's `sendCount` under the key of its connection, the network as a growing set of datagrams (`wire`: any of them may
arrive at any time and any number of times, or never), the server's window. `received` is the 64-bit word as the set of its bits; the
shift follows the code, the case of a distance of the whole width included. `opened` and
`newest` are histories.

### `Breakpoints`

Three copies of one table: `records` of the modules (by token), `breakpoints` of the host (by id), `adapter`.
`stepOwner` of the host and `stepToken` of a module are the two halves of a step. The processor runs into an entry
or ends a step when no module runs; the handler then adds, removes, steps or resumes.

### `PatchChain`

Two modules, each with its own copy of the SDK and its own variables, patch one function; they share nothing but the
game's memory. `memory` is that: the jump at the function (`site`) and what each block of storage holds (`cave`: header
and code). An operation walks the chain that it finds there, as `Walk` does, and works on a record of what it may write, so that a failure
leaves a state in the middle as in the code. `Rewrite` covers a reset, a loaded savestate and the game loading the
function again. `Execution` follows the jumps as the processor would and gives the patches
that run, which is what the property is about.
The chain is a definition over the constants that TLC evaluates once, so `MCParts` extends this module and instantiates the others.

### `Coroutine`

A wait is one record with two continuations, one on the awaited promise and one on the coroutine's own result, as
in `Suspend_On`. The promises are what a coroutine sees of them: state, continuations in order, queue. `running` is
the stack of frames that run inside each other. Memory may run out for either continuation.

### `EventFollowers`, `Timers`, `Listeners`, `Packets`

`EventFollowers` is `Follow_Event`: a count for each event of the host and the subscription of the module at
zero and one. `Timers` are slots of a vector with a stack of dispatches (`frames`), each with its index and its limit;
callbacks add, cancel, tick clocks, and the host's events come inside them. Time saturates at `MaxTick`.
`Listeners` is `Callback_List` in its two uses: under an `Event`, which can be closed and used again, and under a
`Listener_List`, which follows events of the host and is closed for good. `calls` is the stack of calls; each
holds the list object that it started on.
`Packets` is the third list of this kind, with its own rules: one deque for all sockets, slots that are emptied by id 0, `visits` nested
in each other, and `Compact` by the last of them. `topics` is what the host was asked to deliver for the lobby; managed sockets
share it, a raw socket counts in `rawHandlers`. `start` and `heard` of a visit are histories.

### `ModuleGraph`

The recursion of `Visit` is a stack (`frames`) of records: the module, the dependencies it has still to look at and the one
it has just visited. `Read` is a whole call of `Read`, `paths`, `names` and `folders` are the maps of `Module_Set`
(the last two follow from `modules`). A file is what the code learns of it: name, dependencies, folder,
fingerprint, SDK. `parents` is the union-find of the groups without its path compression, which changes no root.

### `LibcHeap`, `Stdio`

`LibcHeap` counts units of 16 bytes. `headers` is the memory between the payloads; lists are linked through it as in the
code, so the properties can see a header that a payload overwrites. A call is one step under the lock.
`Stdio` keeps one stream. `Read_Locked` is a step for each round of its loop, and the host may fail
in any of them, write less than it is given, or not tell the size of the file, which an appending write then takes for empty; `file` is a sequence of bytes, and `expected` and `over` are histories of the read.

## The runs

| run | configuration | properties | distinct states |
| --- | --- | --- | --- |
| `task_pool` | `TaskPool.cfg`, `MCTaskPool` | `QueueSound`, `ContextsExclusive`, `OwnerOutlivesWorkers`, `DrainedIsQuiet`, `NothingForgotten` | 194 thousand |
| `task_pool_liveness` | `TaskPoolLiveness.cfg`, `MCTaskPool` | `ImplementsService`, `WorkEnds` | 259 thousand |
| `pthread_mutex` | `PthreadMutex.cfg`, `PthreadMutex` | `MutexSafe`, `NoLostWakeup`, `ImplementsMutex`, `EveryCallReturns` | 316 thousand |
| `pthread_sync` | `PthreadSync.cfg`, `MCPthreadSync` | `SleepersSound`, `KeysSound`, `ThreadsSound`, `CallsReturn` | 430 thousand |
| `pthread_keys_stale` | `PthreadKeysStale.cfg`, `MCPthreadSync` | `StaleReadsNull` (violated) | |
| `pthread_threads_early_join` | `PthreadThreadsEarlyJoin.cfg`, `PthreadThreads` | `JoinAwaitsEnd` (violated) | |
| `promise` | `Promise.cfg`, `Promise` | `QueueServed`, `ReferencesAccounted`, `CallbacksSound`, `ContinuationsEnd` | 403 thousand |
| `lobby` | `Lobby.cfg`, `MCLobby` | `RosterAgrees`, `MembersSound`, `NewsSound`, `LobbySettles` | 466 thousand |
| `guest_heap` | `GuestHeap.cfg`, `MCGuestHeap` | `HeapSound`, `MovesSound`, `MovesAgreed` | 67 thousand |
| `guest_heap_stale` | `GuestHeapStale.cfg`, `MCGuestHeapStale` | `StaleReturnsNothing` (violated) | |
| `host` | `Host.cfg`, `MCHost` | `RuntimeSound`, `SessionSound`, `SocketsSound`, `HostAnswers`, `NoEventAfterTheEnd` | 249 thousand |
| `parts` | `Parts.cfg`, `MCParts` | `TexturesAgree`, `DatagramsSound`, `BreakpointsSound`, `PatchesSound`, `CoroutinesSound`, `TimersSound`, `ListenersSound`, `LibcSound`, `GraphSound` | 812 thousand |

Several properties are conjunctions of named parts, each stated and explained where it is defined: `NothingForgotten` is
`TypeOK`, `JobsAccounted`, `EnoughContexts` and `NoStrandedOwner`; `HeapSound` is `TypeOK`, `Tiled`,
`Binned`, `RecordsAccounted` and `BlocksApart`; `SleepersSound` is `RwlockSound` and `BarrierSound`; `CallbacksSound` is
`CalledInOrder`, `CallbackSeesResult` and `ShutdownCallsAll`; and so on. Runs that compose parts (`pthread_sync`, `host`, `parts`) have one
behaviour for each part: the variables of the others keep one fixed value, so their state spaces add up and
never multiply, and a property of the run is the property of the module for the behaviours that are of it.

### What they show, their bounds, their fairness

**task_pool.** Two modules, three jobs, two workers, three contexts. Two modules are needed for the ready
queue to hold more than one owner and for the release of one to meet the jobs of another; three jobs for one to be inline in another
while a third waits; two workers for two contexts of one module; a third context because one is retired, with the mutex
dropped, while Submit creates another. `NoStrandedOwner` holds only while nobody drains: `notify_one` may wake the draining thread, which
goes back to sleep. That this costs a delay and no job is what the next run shows: a worker looks at
the queue again when its job is done, and Drain waits for a worker.

**task_pool_liveness.** Two jobs, two workers of which one is faulty, two contexts. Fairness is that the operating system runs every
started thread (`WorkerStep`, `EmuStep`) and that a job's guest code returns (`Return`): a job that never
returns makes Drain wait for ever, in the code as well. Nothing is assumed of submits, traps or drains.
`ImplementsService` is safety only and is checked under the same run because the fault makes it harder.

**pthread_mutex.** Three threads: a holder, a sleeper and a barging third that the wakeup races with. `CountMax` 2 lets
the 32-bit count reach its limit (`EAGAIN`). Fairness: a thread inside a call or holding the mutex goes on;
nothing of new calls or deadlines, so the guarantee does not rest on a timeout rescuing a lost wakeup.

**pthread_sync.** Three threads on a lock, one call each: a writer, a reader and one that times out; or three threads on a barrier for
two, three calls each, so that a generation opens while a slow thread is still leaving the last and a third enters; the
sequence and the generation wrap at 5, which is more than there are calls of the lock or groups at the barrier: the code has 2^32, and
a program that makes fewer calls never sees a number come round to one that a waiter still has in a local (`CallsAssumption`). Two threads, two slots and three rounds for the keys: `MaxKeys` 2 makes a
slot be reused while a value of the old key is still in it. `GenerationMod` of the keys stays above the keys created: the
wrap of 24 bits is a bound of the code beyond which `KeysSound` does not hold; it is listed as a hazard that no property covers.
Three threads for the lifecycle, so that one joins a second that created the third, with every spawn allowed to fail and the
release of the module at any time. Fairness: threads inside a call run, terminated instances and the release go on; guest
routines need not end. `CallsReturn` says that calls on the read-write lock and the condition variable it waits on return, that the threads of a
group return from the barrier once the group is complete, and that a release ends although threads join each other and start more. It says
nothing of `pthread_join`, which waits as long as the thread runs.

**promise.** The main thread and one worker; two records, so that a closure of one can own the other, each
reused once (two generations, two creations) to meet stale handles; two continuations, nesting two deep; `DispatchLimits` {1, 2}
because the code's limit matters only when it is smaller than the queue. Fairness: the host calls
`Dispatch_Pending` every frame, the main thread runs, a callback returns. `HostDispatch` and `Return`
need strong fairness because other events of the main thread come between; each can do so only finitely often between two frames.

**lobby.** Three runs of the client, two of one identity, with a right and a wrong password, so that every eviction, refusal and
race between query and create happens; one socket may refuse output, one message fills the queue, one client may vanish.
`Attempts` is 2 where the code has 3: one retry already takes both branches of the retry test. Fairness is stated by predicates (`Fairness` in
`Lobby`) that are equal to weak fairness of the server's loop and of reading, and that sockets are emptied at some time;
nothing of quits and timeouts, so joins end without the help of a timeout.

**guest_heap.** Five granules, alignments of one and two, up to three records before malloc is asked and six in all. Five granules hold
two blocks that overlap with their own target in a move, padding, and a gap on either side. Handles are checked by the next run, so
generations are inert here. The view (`Renamed`) takes states that differ only in which record an extent has as
one: no operation compares records except through the links, and no liveness is checked, so
it is sound for these properties.

**host.** Three parts, each with liveness, which is why they are not in the next run.
*Runtime*: two modules and one event; a list of subscribers then has none, one or two members, and three list objects let one
be held by a delivery, one be current and one be free. Phases, the reverse order of the last, and a module that unsubscribes the other's
turn away all occur with two. Fairness: the emulation thread goes on, the code of a module returns (`Continue`), and the machine raises its event again
and again, since `Dispatch_Pending` runs in the refresh. A request is answered unless its module traps or is shut down.
*Session*: two toggles, restarts and state requests, two retries of a save where the code has 120 refreshes: one is left and none is left are both met.
Fairness is weak for the emulation thread and for the end of a call of the window's thread; strong for the refresh, for the adapter's reset and for its return,
because a hold or a breakpoint disables them in between. Nothing is assumed of the user, nor that a module resumes a breakpoint.
*Sockets*: two sockets, one operation at a time on each, a budget of two for a dispatch and of one for a socket where the code has 128 and 16.
The budget of the model keeps the code's relation (one socket can never use all of it), and both run out in the run.
The table of sockets is a hash table: `Rank` is the order in which a walk meets its entries, one order in the run (`MCRank`) and any in the proofs.
That the table changes the order between two dispatches, when it grows, is not modelled. Fairness:
`Net_Dispatch` runs every refresh and handlers return. `HostAnswers` is that a requested dispatch is made,
restarts and quits are answered, a pause holds, and every socket with input has its turn again and again. `NoEventAfterTheEnd` is an action property.

**parts.** Eleven parts of which only safety is asked; every behaviour is of one.
*Textures*: two modules and one pack, each with one source; three handles let one be created again, four revisions let changes
fall between both pairs of critical sections. *Datagrams*: a window of 2, so that distances inside, at and beyond the width all occur
with three datagrams; two addresses, two connections.
*Breakpoints*: two modules, two processors, two tokens for each module and two ids at the host, so that both counters run out.
*Patches*: two patches of two modules, of the two kinds of preservation, two blocks and three numbers of nodes, so that a patch can be made again in a block that a chain still jumps to, one rewrite of the
game's memory at any point. *Coroutines*: two coroutines that await each other or one more promise, three waits, two frames
deep. *Timers*: two handles, one clock beside the host's, times up to 2 so that deadlines saturate, dispatches two
deep. *Listeners*: two listeners and calls two deep, on two framework lists that share an event, or on one event that closes and is used again.
*Heap*: twenty units, two small classes, sizes on both sides of each class and beyond, two alignments, three pointers.
*Packets*: a raw socket and two managed ones that share a topic, two handlers of any kind, visits two deep: enough for the inner visit to take out a slot that the outer one has passed.
*Graph*: every way in which three modules can need each other, with a copy of one in another directory, and each with one of seven things wrong
(a file missing, broken, of another name, a copy that differs, another SDK, a shared folder); four selections. One file of a kind that
is wrong is enough, because the first one ends the plan.
*Stream*: files of up to four bytes with a buffer of two: reads inside, across and past the buffer.
Storage of patches, modules with textures and processors are symmetric: each set is used by equality only and no temporal property is checked. The view leaves out what every
later step writes before it reads it: the savestate once no rewrite is left, the paths and the answer of `Dispatch` outside the steps that use them,
the handler of a step without an owner. No property reads them there, so two states with one view have the same successors up to the view and
satisfy the same invariants.

**pthread_keys_stale, pthread_threads_early_join, guest_heap_stale** show the three disagreements below.

## Where the code and its documentation disagree

- `sdk/libc/src/pthread.cpp:54` says that a key's generation changes when it is deleted, so that a
  stale value reads as null. `pthread_key_delete` (line 570) leaves the generation; only the next `pthread_key_create`
  of the slot changes it. `pthread_getspecific` of a deleted key returns the old value until then.
- `sdk/libc/src/pthread.cpp:118` knows that a thread may be over before its creator stored the host id, and
  `Reap_Detached` waits for the id. `pthread_join` (line 386) reads it without waiting: a sibling that was handed
  `pthread_self()` early joins host id 0, returns at once and frees the record of a running thread.
- `sdk/include/modloader/guest/heap.h` says that stale handles return 0 (line 60) and that handles into an old heap
  become invalid (line 51). `Destroy` frees the records with their generations and `Create` starts them at 0 again, so a handle
  of the old heap names a block of the new one.

## The proofs

Every theorem is for all values of the constants under the assumptions that the modules name, which TLC evaluates in every run. Each component has one
inductive invariant, a lemma `Init => Inv`, one lemma per action for `Inv /\ [Next]_vars => Inv'`, a lemma that draws
the checked properties from it, and PTL. The parts of one state space (`MCPthreadSync`, `MCHost`, `MCParts`) have an invariant each, and a
step of one part leaves the variables of the others alone.

| assumption | says |
| --- | --- |
| `PoolAssumption` | finitely many workers, the emulation thread is none of them, `None` is no module or context |
| `MutexAssumption` | `Nobody` is no thread; the count can reach 1 |
| `SyncAssumption` | barriers, generations and slots are at least one; fewer keys are created than the generations of a slot, the 24 bits of the code |
| `PromiseAssumption` | the main thread is no worker; a promise settles fulfilled or rejected; a dispatch runs one callback at least; the bounds are positive. Threads may be infinitely many |
| `CallsAssumption` | finitely many threads, which together make fewer calls than would bring the 32-bit sequence or generation round to a number that a waiter still has in a local |
| `WireAssumption`, `ServerAssumption`, `ClientAssumption` | finitely many connections; the limit on pending output is a number; a client asks at least once |
| `HostAssumption` | bounds are numbers; finitely many events; "no state" is no image and "no list" no list; `Rank` orders the sockets; one socket uses at most half of the budget of a dispatch, as in the code |
| `PartsAssumption` | the same of the constants of each part; for the three that theorems are about: a window of at least one, `None` is neither a module nor a processor, and coroutines and promises are finitely many and distinct |

**`TaskPoolProofs`**: `TypeCorrect`, `QueueIsSound`, `ContextsAreExclusive`, `OwnersOutliveWorkers`, `DrainedModulesAreQuiet`,
`NothingIsForgotten`, `ImplementsTheService`.
The first five are not inductive by themselves. A worker that completes a job reads its own registers, so
`WorkersSound` ties them to its program counter (a worker inside the loop has a module, a context of that module unless it is retiring it,
a job on its stack). The drain's guard is about `running`, so `DrainedIsQuiet` needs `OwnerOutlivesWorkers`, where `running` is the
*number* of engaged workers: the proof of each step adds or removes one element of a finite set. `EmuSound`
says which drain the emulation thread is in, without which `Erase` could meet an open owner.
`NothingForgotten` rests on that invariant and adds where an accepted job is until it ran or was dropped: at one place of the jobs of one owner, or on the stack of one worker (`JobsInv`). `ImplementsTheService` maps
each step of the pool to a step of `TaskService` or a stutter: a job starts when a thread takes it, and what is done of it is done once.

**`PthreadMutexProofs`**: `MutexIsSafe`, `WakeupsAreKept`, `ImplementsTheMutex`. `IInv` adds `SleepersSound` (a thread is asleep exactly at its
place) and `CallsSound` (a thread inside a lock call is not also a holder) to the parts of `MutexSafe` and to `NoLostWakeup`. The last is
inductive only with them: the wake of an unlock is owed by a thread whose word is already free. `ImplementsTheMutex` maps each step to a step of
`MutexService` or to a stutter: acquisition is the exchange that takes the word, release the exchange that frees it,
and clearing the owner before it is a stutter. The rwlock and the barrier rely on it.

**`PthreadSyncProofs`**: `SleepersAreSound` (a writer alone, no reader or writer asleep that nobody will wake, whole groups of the barrier
with one serial thread each), `KeysAreSound`, `ThreadsAreSound`. A broadcast is decided under the mutex and made after it, so a
thread about to sleep relies on its stale sequence or on a thread that has still to broadcast, and both on the sequence not coming
round: the invariant counts the calls that are through with the lock against the sequence, and the arrivals at the barrier against its
generation. For the keys, the generation of a slot tells its keys apart, and every value in a thread is of a generation its slot has had.
For the threads, every record is with one actor (its creator, a joiner, the list of the detached, nobody), and `LivesEarly` says that whoever has it
at hand to free it came after the end of the thread, or the release waits for that thread. `ThreadsAreSound` is about
programs in which no thread joins another before the creator stored its host id (`~SharesEarly`): without that the code frees a record of a running thread, the
second disagreement above, which a run exhibits.

**`PromiseProofs`**: `QueueIsServed`, `CountsAreExact`, `CallbacksAreSound`. None of them is inductive, and their strengthenings need each other, so
`Inv` is one invariant. `ReferencesAccounted` says that the count of a handle is the number of its users: references of threads, references a thread
has still to give back, closures that own it, its place in the queue, rounds of `Dispatch` that have taken it. Each is a set, and the proof of each
step says which sets gain or lose which element; `Countable` keeps the two that range over all threads finite.
`FreeSound` (the free list holds records that nobody counts, each once, and a live record has had a generation) gives a new promise a handle that nobody can
hold. `ListsSound` (the continuations in the records are the ones that wait, each in one list, in the order of their registration) and
`FramesSound` (each of the nested calls of `Dispatch` has a continuation of its own, already called, and with it the result that its promise still
has) make the calls sound: the innermost call
changes the lists while the outer ones are in a callback. `ShutdownSound` says that after the rejection nothing is pending, so the slices of the shutdown
find every continuation, and `NoLostDispatch` that a queue that is not empty has a request, a dispatch or the shutdown ahead of it.

**`LobbyProofs`**: `MembersAreSound`, `RostersAgree`, `NewsIsSound`. `LobbyInv` says of each connection (`Sound`) that what is under way to its client, sent
or queued, is in an order that the client accepts (`Orderly`), that before it is a member one message at most is under way between the two
(`Converses`), and that a member that has read everything will know exactly the other members (`Informed`). `RosterAgrees` is the last of these; it is not
inductive without the others, because a join in the middle of a conversation would
be a message out of place. `Tied` and `Heard` relate the lobby to its members' connections and to the host's events. `Alone` is about
identities: connecting again ends the other connections of the identity, but for dead ones, which stay in the lobby until they are
closed. The new connection is not heard again in the turn, so it does not join beside such a member, and `Turns` says that a member that another
has `Replaced` is closed before the turn ends: one that dies during the closing, and may be passed over till the next turn, is nobody's predecessor yet. `Counted` keeps the number of lobbies made below the number of
connections. Each of these is about the server and the ends of the clients as
records, and each handler is shown to keep them (`ServerInv`; `Consistent` where the handler is half through), so a turn, which
is a fold of handlers over the input, the evictions and the host's messages, keeps them as well (`StepByStep`). The client's steps read one message each, and
`Orderly` says that it is not one on which the client fails.

**`HostProofs`**: `SessionsAreSound`, `SocketsAreSound`, `NothingAfterTheEnd` (an action property), `RuntimeIsSound`. `SessionInv` adds only that an adapter
that is asked to reset is not resetting already. `SocketInv` knows where the walk of a dispatch is, what it has still to visit, and that a
socket that is gone is closed while the module still hears of others. `RuntimeInv` knows whose each list of subscribers is, so a change of
subscriptions never touches the list that a delivery holds; what a delivery has called is then a beginning of the calls that are due by that
list, in their phases, without some of modules that have trapped.

**`PartsProofs`**: `DatagramsAreSound`, `BreakpointsAreSound`, `CoroutinesAreSound`. `DatagramInv` says that nothing of a later key has been
accepted and that the window marks exactly what was accepted within its reach; a datagram that passes the test has then never been
opened. `BreakpointInv` says, of the modules that are gone too, that records and entries belong together, that ids and numbers are given once,
and that the record of a step is not enabled: an entry that is taken out for a record is then its own, and the record of a step can go without
the host's list. `CoroutineInv` says which record holds a suspended frame by naming it (one exists, and no two have the same frame) where the property
counts, that a promise has the continuations of exactly the records that hold a frame and wait for it, and that from the shutdown on every promise is
answered: the continuation that a dispatch takes then belongs to a record that still holds its frame, and finishing it takes the other one away.

**`VectorTheorems`** has what the proofs need of lists: a list without the elements that a test rejects (`Filter` of `Vectors`, which is
`SelectSeq` in a form that can be reasoned about) is known by an increasing map from its indices to those that were kept. It and the other modules argue by
the least number with a property where induction would be natural, because the induction theorems of the library take an operator
as a parameter, which the installed provers cannot instantiate.

## What is only model-checked, and what is not modelled

Only model-checked:

- everything under fairness (`WorkEnds`, `EveryCallReturns`, `CallsReturn`, `ContinuationsEnd`, `LobbySettles`, `HostAnswers`): liveness under fairness is out of the prover's reach;
- the guest heap (`HeapSound`, `MovesSound`, `MovesAgreed`), the heap of the libc (`LibcSound`) and the chains of patches (`PatchesSound`), which are
  about linked structures of any length and need induction over them;
- of `MCParts` also textures, timers, listeners, packets, streams and the graph of modules: their lists are taken apart with `SelectSeq`, `FoldLeft` and `SetToSeq`, of
  which the provers know nothing, or grow by recursion. `TexturesAgree`, `TimersSound` and `ListenersSound` could be brought over `Vectors`.

Left out of modelled parts, with the reason:

- pool: what a job computes; priorities of the operating system;
- mutex: destroying a mutex in use, which is undefined;
- promises: `Timeout`, a timer that rejects, which is the `Settle` of the main thread; the registration flag of callbacks; modules that trap in a callback, after which the host makes no further call;
- lobby: more than one lobby name, direct messages to one member, UDP, ciphers, signatures and framing, and the destruction of the server, which
  closes everything;
- heap: rounding of bytes to granules, trimming of the region at Create, the power-of-two check; `Regions` from a callback of Compact,
  for which the header promises nothing; destructors of callbacks run as one step with the change;
- runtime: events that the machine raises while a module is inside another one (the natives that can do it are a module's own pause and step, and
  `Breakpoints` has those), the delivery of audio, input and interface events by other threads' queues, natives that only read;
- session: starting one, hotkeys, the dedicated server, the format of states;
- sockets: the bytes of a packet and its size checks, the queue of output beyond "part of it went out", connecting. A read of the host and the bytes
  that one socket may take of a dispatch are part of the one unit of work that `ReadPacket` counts for a packet;
- textures: pixels and bindings, which the renderer owns; the format of the settings file;
- datagrams: the cipher, abstracted to the connection whose key it uses;
- breakpoints: registers, address ranges, and calls of a module from its own handler beyond those that change the tables;
- patches: instructions and their relocation, patches of data, hypercalls. A savestate is not loaded once a patch that it holds
  has been moved or destroyed: such a node cannot be told from one of another module;
- coroutines: promises are a queue and their continuations here; the counts of their records are in `Promise`;
- timers, listeners: `Subscription` objects, whose destructors call Cancel and Remove; destructors of captured closures;
- packets: accepted connections and the server's endpoint, which go the way of closed ones and of the lobby; envelopes, versions and sizes;
- linking: packages and their assets, the parsing of metadata, and that a linked group starts, which is the linker's;
- heap of the libc: growth of the memory by pages, reads of a header by a damaged pointer;
- streams: formats, standard streams, `freopen`; the stream is the only writer of its file.

Not modelled at all: generated bindings (imgui, RmlUi), the renderer and the user interface, parsers and file formats, strings and math,
the linker, the compiler and the package formats of the loader, settings, operating-system wrappers, and the thin wrappers of the SDK over tasks and threads. They are
half of the lines of the repository. They keep little state between calls, or their state is another program's (a graphics library, the operating system), or what can go
wrong in them is a matter of one call that a unit test reaches.
The stateful components that are missing are in the plan.

## The plan

Done first, because everything else rests on it: the two schedulers of guest code (`TaskPool`, `Promise`), the primitives
(`PthreadMutex` and the modules on it, `PthreadThreads`), then the two components with the longest state machines (`Lobby`, `GuestHeap`).
After them the host's side of a module (`Runtime`, `Session`, `Sockets`), delivery from lists that change under it
(`Textures`, `Listeners`, `Timers`, `Breakpoints`), what rests on promises (`Coroutine`), the chains in the game's memory (`PatchChain`),
and the small sequential ones (`Datagram`, `LibcHeap`, `Stdio`, `Packets`, `ModuleGraph`).

Left, in this order: the hand-off of frames and input between the emulation thread and the presenter (`presenter.cpp`); the host's own end of the
lobby (`lobby.cpp`), whose queues connect `Lobby` to the delivery of `Runtime`; the table of open files of a module (`files.cpp`) under its
threads; the hypercalls of N64 modules; a composition of `Runtime` with `TaskPool` and `PthreadThreads` for the release of a module, which
each of them has alone.

Theorems worth proving, in this order: the streams, whose invariant is short; the lists of callbacks and timers over `Vectors`.
`HeapSound`, `LibcSound` and `PatchesSound` need induction over linked structures and stay with TLC.
