------------------------------ MODULE Runtime ------------------------------
(***************************************************************************)
(* The module runtime of client/src/runtime.cpp: the life of the modules   *)
(* from On_Init to their release, the delivery of events in phases to the  *)
(* modules that follow them, and the dispatches that any thread may        *)
(* request.  Everything but the requests happens on the emulation thread.  *)
(*                                                                         *)
(* The list of subscribers of an event is an object of its own: a delivery *)
(* holds the list it started with while the modules it calls subscribe and *)
(* unsubscribe, so Subscribe copies a list that somebody else holds.       *)
(***************************************************************************)
EXTENDS Integers, FiniteSets, SequencesExt, Vectors

CONSTANTS
    ModuleCount,        \* the modules in the order in which they were loaded
    Events,             \* events that modules may follow
    NoList              \* the null list

\* The module that instantiates this one assumes it of its constants.
RuntimeAssumption ==
    /\ ModuleCount \in Nat \ {0}
    /\ IsFiniteSet(Events)
    /\ NoList \notin Nat

Modules == 1..ModuleCount

\* One list for each event, one that a delivery holds, one that is being made.
Lists == 1..(Cardinality(Events) + 2)

Nobody == 0

VARIABLES
    events,             \* Module::events: what each module follows
    subscribers,        \* event -> the list of its followers, or NoList
    lists,              \* the contents of the lists
    disabled, stopping, initialized, released,      \* flags of Module, as sets
    pendingDispatch,    \* Runtime::pendingDispatch
    dispatchPending,    \* Module::dispatchPending, as a set
    at,                 \* what the emulation thread is doing
    turn,               \* the index of its loop
    recipients,         \* the list that the delivery holds
    pending,            \* the rest of the list that Dispatch_Pending took
    inside,             \* the module whose code the emulation thread runs
    start, heard,       \* history: the list a delivery began with, the calls it made
    asked               \* history: modules with a request that no dispatch answered

flagVars == <<disabled, stopping, initialized, released>>
listVars == <<events, subscribers, lists>>
requestVars == <<pendingDispatch, dispatchPending, asked>>
emuVars == <<at, turn, recipients, pending, inside, start, heard>>
vars == <<listVars, flagVars, requestVars, emuVars>>

Init ==
    /\ events = [m \in Modules |-> {}]
    /\ subscribers = [e \in Events |-> NoList]
    /\ lists = [l \in Lists |-> <<>>]
    /\ disabled \in SUBSET Modules         \* modules that could not be instantiated
    /\ stopping = {} /\ initialized = {} /\ released = {}
    /\ pendingDispatch = <<>> /\ dispatchPending = {} /\ asked = {}
    /\ at = "init" /\ turn = 1
    /\ recipients = NoList /\ pending = <<>> /\ inside = Nobody
    /\ start = <<>> /\ heard = <<>>

-----------------------------------------------------------------------------
(* Subscriptions                                                            *)

Uses(l) ==
    Cardinality({e \in Events : subscribers[e] = l}) + (IF recipients = l THEN 1 ELSE 0)

Fresh == CHOOSE l \in Lists : Uses(l) = 0

\* The list that a change of the subscribers of e goes to.
InPlace(e) == IF subscribers[e] = NoList THEN Fresh ELSE subscribers[e]
Writable(e) == IF subscribers[e] # NoList /\ Uses(subscribers[e]) = 1 THEN subscribers[e] ELSE Fresh

Followers(e) == IF subscribers[e] = NoList THEN <<>> ELSE lists[subscribers[e]]

\* Before the first that was loaded later: all before it are less.
InsertByOrder(s, m) == InsertAt(s, Cardinality({i \in DOMAIN s : s[i] < m}) + 1, m)

Without(s, m) == Filter(s, LAMBDA o : o # m)

\* A list that nobody holds any more is empty: it has been freed.
Freed(after, holder) ==
    [l \in Lists |-> IF holder = l \/ \E e \in Events : subscribers'[e] = l
                     THEN after[l] ELSE <<>>]

Subscribe(m, e, enabled) ==
    LET l == Writable(e)
        list == IF enabled THEN InsertByOrder(Followers(e), m) ELSE Without(Followers(e), m)
    IN
    /\ (e \in events[m]) # enabled
    /\ events' = [events EXCEPT ![m] = IF enabled THEN @ \union {e} ELSE @ \ {e}]
    /\ subscribers' = [subscribers EXCEPT ![e] = IF list = <<>> THEN NoList ELSE l]
    /\ lists' = Freed([lists EXCEPT ![l] = list], recipients)

\* event_subscribe, which only the emulation thread may call: a module that is
\* being called changes its own subscriptions.
GuestSubscribes(e, enabled) ==
    /\ inside # Nobody
    /\ Subscribe(inside, e, enabled)
    /\ UNCHANGED <<flagVars, requestVars, emuVars>>

-----------------------------------------------------------------------------
(* Calls into modules                                                       *)

\* Module::Call refuses a disabled module; the caller goes on at once.
Enters(m) == inside' = IF m \in disabled THEN Nobody ELSE m

\* The call returns; On_Init has then succeeded.
Return ==
    /\ inside # Nobody
    /\ inside' = Nobody
    /\ initialized' = IF at = "init" THEN initialized \union {inside} ELSE initialized
    /\ UNCHANGED <<listVars, disabled, stopping, released, requestVars,
                   at, turn, recipients, pending, start, heard>>

\* The module traps: Execute returns false and it is disabled.
Trap ==
    /\ inside # Nobody
    /\ disabled' = disabled \union {inside}
    /\ inside' = Nobody
    /\ UNCHANGED <<listVars, stopping, initialized, released, requestVars,
                   at, turn, recipients, pending, start, heard>>

-----------------------------------------------------------------------------
(* On_Init                                                                  *)

InitModule ==
    /\ at = "init" /\ inside = Nobody /\ turn <= ModuleCount
    /\ Enters(turn)
    /\ turn' = turn + 1
    /\ UNCHANGED <<listVars, flagVars, requestVars, at, recipients, pending, start, heard>>

InitDone ==
    /\ at = "init" /\ inside = Nobody /\ turn > ModuleCount
    /\ at' = "machine" /\ turn' = 1
    /\ UNCHANGED <<listVars, flagVars, requestVars, recipients, pending, inside, start, heard>>

-----------------------------------------------------------------------------
(* Events                                                                   *)

\* The machine raises an event: Deliver finds its list and holds it.
Event(e) ==
    /\ at = "machine"
    /\ at' = IF subscribers[e] = NoList THEN "swap" ELSE "deliver"
    /\ recipients' = subscribers[e]
    /\ start' = Followers(e)
    /\ turn' = 1
    /\ UNCHANGED <<listVars, flagVars, requestVars, pending, inside, heard>>

\* The calls of a delivery in their order: the early and the normal phase in the
\* order of the list, the late phase backwards.
Calls(list) ==
    [i \in 1..Len(list) |-> <<list[i], "pre">>]
        \o [i \in 1..Len(list) |-> <<list[i], "normal">>]
        \o [i \in 1..Len(list) |-> <<list[Len(list) + 1 - i], "post">>]

\* Deliver_Phase: a disabled module is passed over.
DeliverPhase ==
    LET calls == Calls(lists[recipients])
    IN
    /\ at = "deliver" /\ inside = Nobody /\ turn <= Len(calls)
    /\ Enters(calls[turn][1])
    /\ heard' = IF calls[turn][1] \in disabled THEN heard ELSE Append(heard, calls[turn])
    /\ turn' = turn + 1
    /\ UNCHANGED <<listVars, flagVars, requestVars, at, recipients, pending, start>>

DeliverDone ==
    /\ at = "deliver" /\ inside = Nobody /\ turn > 3 * Len(lists[recipients])
    /\ at' = "swap" /\ turn' = 1
    /\ recipients' = NoList /\ start' = <<>> /\ heard' = <<>>
    /\ subscribers' = subscribers /\ lists' = Freed(lists, NoList)
    /\ UNCHANGED <<events, flagVars, requestVars, pending, inside>>

-----------------------------------------------------------------------------
(* Dispatches                                                               *)

\* Request_Dispatch by any thread of m, under dispatchLock.
RequestDispatch(m) ==
    /\ m \notin released
    /\ asked' = asked \union {m}
    /\ IF m \notin dispatchPending \union stopping \union disabled
       THEN /\ dispatchPending' = dispatchPending \union {m}
            /\ pendingDispatch' = Append(pendingDispatch, m)
       ELSE UNCHANGED <<dispatchPending, pendingDispatch>>
    /\ UNCHANGED <<listVars, flagVars, emuVars>>

\* The flags of the modules that Dispatch_Pending took.
FlagsLeft(taken) == dispatchPending \ taken

\* Dispatch_Pending takes the list and clears the flags of its modules.
SwapPending ==
    /\ at = "swap"
    /\ pending' = pendingDispatch /\ pendingDispatch' = <<>>
    /\ dispatchPending' = FlagsLeft(ToSet(pendingDispatch))
    /\ at' = "dispatch"
    /\ UNCHANGED <<listVars, flagVars, asked, turn, recipients, inside, start, heard>>

DispatchNext ==
    /\ at = "dispatch" /\ inside = Nobody /\ pending # <<>>
    /\ Enters(Head(pending))
    /\ asked' = asked \ {Head(pending)}
    /\ pending' = Tail(pending)
    /\ UNCHANGED <<listVars, flagVars, pendingDispatch, dispatchPending,
                   at, turn, recipients, start, heard>>

DispatchDone ==
    /\ at = "dispatch" /\ inside = Nobody /\ pending = <<>>
    /\ at' = "machine"
    /\ UNCHANGED <<listVars, flagVars, requestVars, turn, recipients, pending, inside, start, heard>>

-----------------------------------------------------------------------------
(* Shutdown_Modules                                                         *)

Shutdown ==
    /\ at = "machine"
    /\ stopping' = Modules
    /\ at' = "shutdown" /\ turn' = ModuleCount
    /\ UNCHANGED <<listVars, disabled, initialized, released, requestVars,
                   recipients, pending, inside, start, heard>>

ShutdownModule ==
    /\ at = "shutdown" /\ inside = Nobody /\ turn >= 1
    /\ IF turn \in initialized THEN Enters(turn) ELSE inside' = Nobody
    /\ initialized' = initialized \ {turn}
    /\ turn' = turn - 1
    /\ UNCHANGED <<listVars, disabled, stopping, released, requestVars,
                   at, recipients, pending, start, heard>>

ShutdownDone ==
    /\ at = "shutdown" /\ inside = Nobody /\ turn = 0
    /\ at' = "release" /\ turn' = ModuleCount
    /\ UNCHANGED <<listVars, flagVars, requestVars, recipients, pending, inside, start, heard>>

\* The requests that are left of a module that goes away.
RequestsWithout(m) == Without(pendingDispatch, m)

\* Release: its requests are dropped and its subscriptions are taken back.
ReleaseModule ==
    /\ at = "release" /\ turn >= 1
    /\ released' = released \union {turn}
    /\ initialized' = initialized \ {turn}
    /\ pendingDispatch' = RequestsWithout(turn)
    /\ dispatchPending' = dispatchPending \ {turn}
    /\ events' = [events EXCEPT ![turn] = {}]
    /\ subscribers' = [e \in Events |-> IF Without(Followers(e), turn) = <<>>
                                        THEN NoList ELSE subscribers[e]]
    /\ lists' = Freed([l \in Lists |-> Without(lists[l], turn)], NoList)
    /\ turn' = turn - 1
    /\ UNCHANGED <<disabled, stopping, asked, at, recipients, pending, inside, start, heard>>

-----------------------------------------------------------------------------
Continue ==
    \/ Return
    \/ InitModule
    \/ InitDone
    \/ DeliverPhase
    \/ DeliverDone
    \/ SwapPending
    \/ DispatchNext
    \/ DispatchDone
    \/ ShutdownModule
    \/ ShutdownDone
    \/ ReleaseModule

Next ==
    \/ \E e \in Events, enabled \in BOOLEAN : GuestSubscribes(e, enabled)
    \/ Trap
    \/ \E e \in Events : Event(e)
    \/ \E m \in Modules : RequestDispatch(m)
    \/ Shutdown
    \/ Continue

\* The machine goes on to raise events, and the code of modules returns.
Fairness ==
    /\ WF_vars(Continue)
    /\ WF_vars(\E e \in Events : Event(e))

Spec == Init /\ [][Next]_vars /\ Fairness

-----------------------------------------------------------------------------
TypeOK ==
    /\ events \in [Modules -> SUBSET Events]
    /\ subscribers \in [Events -> Lists \union {NoList}]
    /\ lists \in [Lists -> Seq(Modules)]
    /\ disabled \subseteq Modules /\ stopping \subseteq Modules
    /\ initialized \subseteq Modules /\ released \subseteq Modules
    /\ pendingDispatch \in Seq(Modules) /\ pending \in Seq(Modules)
    /\ dispatchPending \subseteq Modules /\ asked \subseteq Modules
    /\ at \in {"init", "machine", "deliver", "swap", "dispatch", "shutdown", "release"}
    /\ turn \in 0..(3 * ModuleCount + 1)
    /\ recipients \in Lists \union {NoList}
    /\ inside \in Modules \union {Nobody}
    /\ start \in Seq(Modules) /\ heard \in Seq(Modules \X {"pre", "normal", "post"})

\* The list of an event holds the modules that follow it, in their load order; an
\* event that nobody follows has no list.
SubscribersAgree ==
    \A e \in Events :
        /\ ToSet(Followers(e)) = {m \in Modules : e \in events[m]}
        /\ \A i, j \in DOMAIN Followers(e) : i < j => Followers(e)[i] < Followers(e)[j]
        /\ subscribers[e] # NoList => Followers(e) # <<>>

\* The flag of a module tells whether it is in the list of pending dispatches, where
\* no module is twice; a released module is not in it, nor does it follow anything.
RequestsAgree ==
    /\ dispatchPending = ToSet(pendingDispatch)
    /\ IsInjective(pendingDispatch)
    /\ \A m \in released : m \notin dispatchPending /\ events[m] = {}

\* Every module that followed an event when its delivery began, and that has not
\* trapped, is called in the three phases, once in each, in load order and at the
\* end backwards, whatever the modules subscribe or unsubscribe meanwhile.
DeliveredInPhases ==
    LET Live(calls) == Filter(calls, LAMBDA c : c[1] \notin disabled)
    IN  at = "deliver" =>
            /\ Live(heard) = Live(SubSeq(Calls(start), 1, turn - 1))
            /\ turn > 3 * Len(lists[recipients]) => Live(heard) = Live(Calls(start))

\* A requested dispatch stays in the list, or in the part of it that Dispatch_Pending
\* has yet to call, until the module is called; only a trap or the shutdown ends it.
\* A request that comes while the module is being called counts as a new one.
RequestsKept ==
    \A m \in asked \ (disabled \union stopping) :
        m \in ToSet(pendingDispatch) \/ m \in ToSet(pending)

\* The tables of the runtime agree with each other, and deliveries and requests
\* reach the modules, also while the module that is being called changes the tables and
\* other threads ask for dispatches.
RuntimeSound ==
    TypeOK /\ SubscribersAgree /\ RequestsAgree /\ DeliveredInPhases /\ RequestsKept

\* A requested dispatch is made, unless the module traps or is shut down.
RequestsServed ==
    \A m \in Modules : m \in asked ~> m \notin asked \/ m \in disabled \union stopping
=============================================================================
