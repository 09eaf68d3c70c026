------------------------------- MODULE Timers -------------------------------
(***************************************************************************)
(* Timers and clocks: sdk/src/async/timer.cpp.  The slots of a vector are  *)
(* nulled while a dispatch, or several inside each other, walk over them;  *)
(* callbacks add and cancel timers and tick clocks.  One thread.           *)
(***************************************************************************)
EXTENDS EventFollowers, FiniteSets

CONSTANTS
    ClockEvents,        \* what moves the clock of the host: refresh and paused
    MaxTick,            \* the largest time, 2^64 - 1 in the code
    MaxId,              \* the last handle, 2^64 - 1 in the code
    MaxClocks,          \* clocks that the module creates
    MaxCount,           \* ticks of a timer or of a Tick
    MaxDepth            \* dispatches inside each other

\* The module that instantiates this one assumes it of its constants.
TimersAssumption ==
    /\ ClockEvents \in Seq(Events)
    /\ \A n \in {MaxTick, MaxId, MaxClocks, MaxCount, MaxDepth} : n \in Nat

Host == 0               \* MODLOADER_CLOCK_MILLISECONDS; the others are numbered from 1
Null == [id |-> 0, clock |-> Host, deadline |-> 0, period |-> 0]

VARIABLES
    slots,              \* sTimers
    nextId,
    hostNow, customNow, \* the time of the host's clock, sCustomNow
    frames,             \* the calls of Advance_Clock, the innermost last
    inCallback,         \* whether the innermost one is calling a timer
    timersStopping,
    fired               \* history: one-shot timers that were called, in order

timerVars == <<slots, nextId, hostNow, customNow, frames, inCallback, timersStopping, fired>>
vars == <<followVars, timerVars>>

Init ==
    /\ FollowInit
    /\ slots = <<>> /\ nextId = 0
    /\ hostNow = 0 /\ customNow = <<>>
    /\ frames = <<>> /\ inCallback = FALSE
    /\ timersStopping = FALSE /\ fired = <<>>

Lesser(a, b) == IF a < b THEN a ELSE b
Add_Ticks(now, count) == now + Lesser(count, MaxTick - now)

Clocks == {Host} \union DOMAIN customNow
Now(clock) == IF clock = Host THEN hostNow ELSE customNow[clock]
IsNull(timer) == timer.id = 0
Compacted(timers) == SelectSeq(timers, LAMBDA timer : ~IsNull(timer))

\* Where a timer may be added or a clock moved: outside of every dispatch, and in a
\* callback of the innermost one.
Guest == frames = <<>> \/ inCallback

-----------------------------------------------------------------------------
\* Add_Timer: following the clock comes first and may fail; null slots go when no
\* dispatch walks over them.
Add_Timer(clock, count, period) ==
    LET timer == [id |-> nextId + 1, clock |-> clock,
                  deadline |-> Add_Ticks(Now(clock), count), period |-> period]
    IN
    /\ Guest /\ ~timersStopping /\ nextId < MaxId /\ clock \in Clocks
    /\ IF clock = Host THEN Following(ClockEvents) ELSE UNCHANGED followVars
    /\ nextId' = nextId + 1
    /\ slots' = Append(IF frames = <<>> THEN Compacted(slots) ELSE slots, timer)
    /\ UNCHANGED <<hostNow, customNow, frames, inCallback, timersStopping, fired>>

Add_Timer_Fails ==
    /\ Guest /\ ~timersStopping /\ nextId < MaxId
    /\ FollowFails(ClockEvents)
    /\ UNCHANGED timerVars

\* Retire_Timer.
Unfollow_Clock(clock) ==
    IF clock = Host THEN Unfollowing(ClockEvents) ELSE UNCHANGED followVars

Cancel(index) ==
    /\ Guest /\ index \in DOMAIN slots /\ ~IsNull(slots[index])
    /\ slots' = [slots EXCEPT ![index] = Null]
    /\ Unfollow_Clock(slots[index].clock)
    /\ UNCHANGED <<nextId, hostNow, customNow, frames, inCallback, timersStopping, fired>>

Create_Clock ==
    /\ Guest /\ ~timersStopping /\ Len(customNow) < MaxClocks
    /\ customNow' = Append(customNow, 0)
    /\ UNCHANGED <<followVars, slots, nextId, hostNow, frames, inCallback, timersStopping, fired>>

-----------------------------------------------------------------------------
(* Advance_Clock                                                            *)

\* A new dispatch: up to which slot it walks, and for the properties the last handle
\* of its start.
Enter(clock, now) ==
    /\ Guest /\ Len(frames) < MaxDepth
    /\ frames' = Append(frames, [clock |-> clock, now |-> now, index |-> 0,
                                 count |-> Len(slots), before |-> nextId])
    /\ inCallback' = FALSE

\* Tick moves a clock of the module.
Tick(clock, count) ==
    /\ clock \in DOMAIN customNow
    /\ customNow' = [customNow EXCEPT ![clock] = Add_Ticks(@, count)]
    /\ Enter(clock, customNow'[clock])
    /\ UNCHANGED <<followVars, slots, nextId, hostNow, timersStopping, fired>>

\* An event of the host arrives, inside a callback when that one calls the host; the
\* time has passed meanwhile, and the event may be older than the clock.
Event(passed, age) ==
    /\ passed <= MaxTick - hostNow /\ age <= hostNow
    /\ hostNow' = hostNow + passed
    /\ Enter(Host, hostNow - age)
    /\ UNCHANGED <<followVars, slots, nextId, customNow, timersStopping, fired>>

Frame == Last(frames)
Moved == [frames EXCEPT ![Len(frames)].index = @ + 1]
Next_Timer == slots[Frame.index + 1]
Walks == frames # <<>> /\ ~inCallback /\ Frame.index < Frame.count /\ ~timersStopping
Due(timer) == ~IsNull(timer) /\ timer.clock = Frame.clock /\ timer.deadline <= Frame.now

Skip ==
    /\ Walks /\ ~Due(Next_Timer)
    /\ frames' = Moved
    /\ UNCHANGED <<followVars, slots, nextId, hostNow, customNow, inCallback, timersStopping, fired>>

\* A periodic timer is armed again before its callback, by its period or, when that is
\* behind already, from now; at the end of time there is no later deadline.
Rearmed(timer) ==
    LET next == Add_Ticks(timer.deadline, timer.period) IN
    IF next > Frame.now THEN next ELSE Add_Ticks(Frame.now, timer.period)

Rearm ==
    /\ Walks /\ Due(Next_Timer)
    /\ Next_Timer.period # 0 /\ Frame.now # MaxTick
    /\ slots' = [slots EXCEPT ![Frame.index + 1].deadline = Rearmed(Next_Timer)]
    /\ frames' = Moved /\ inCallback' = TRUE
    /\ UNCHANGED <<followVars, nextId, hostNow, customNow, timersStopping, fired>>

\* The last call of a timer: it is gone before its callback runs.
StillThere == slots
Retired == [slots EXCEPT ![Frame.index + 1] = Null]

Fire ==
    /\ Walks /\ Due(Next_Timer)
    /\ Next_Timer.period = 0 \/ Frame.now = MaxTick
    /\ slots' = Retired
    /\ Unfollow_Clock(Next_Timer.clock)
    /\ fired' = Append(fired, Next_Timer.id)
    /\ frames' = Moved /\ inCallback' = TRUE
    /\ UNCHANGED <<nextId, hostNow, customNow, timersStopping>>

Callback_Returns ==
    /\ inCallback
    /\ inCallback' = FALSE
    /\ UNCHANGED <<followVars, slots, nextId, hostNow, customNow, frames, timersStopping, fired>>

\* The outermost dispatch takes out the null slots.
Outermost == Len(frames) = 1

Leave ==
    /\ frames # <<>> /\ ~inCallback /\ ~Walks
    /\ frames' = Front(frames)
    /\ inCallback' = (Len(frames) > 1)
    /\ slots' = IF Outermost THEN Compacted(slots) ELSE slots
    /\ UNCHANGED <<followVars, nextId, hostNow, customNow, timersStopping, fired>>

\* Timers_Shutdown, from the shutdown of the module.
Timers_Shutdown ==
    LET live == {i \in DOMAIN slots : ~IsNull(slots[i]) /\ slots[i].clock = Host} IN
    /\ frames = <<>> /\ ~timersStopping
    /\ timersStopping' = TRUE
    /\ slots' = <<>> /\ customNow' = <<>>
    /\ Unfollowing(FlattenSeq([i \in 1..Cardinality(live) |-> ClockEvents]))
    /\ UNCHANGED <<nextId, hostNow, frames, inCallback, fired>>

Next ==
    \/ \E clock \in 0..MaxClocks, count, period \in 0..MaxCount : Add_Timer(clock, count, period)
    \/ Add_Timer_Fails
    \/ \E index \in 1..MaxId : Cancel(index)
    \/ Create_Clock
    \/ \E clock \in 1..MaxClocks, count \in 0..MaxCount : Tick(clock, count)
    \/ \E passed \in 0..MaxCount, age \in 0..1 : Event(passed, age)
    \/ Skip
    \/ Rearm
    \/ Fire
    \/ Callback_Returns
    \/ Leave
    \/ Timers_Shutdown

Spec == Init /\ [][Next]_vars

-----------------------------------------------------------------------------
Timer == [id : 0..MaxId, clock : 0..MaxClocks, deadline : 0..MaxTick, period : 0..MaxCount]

TypeOK ==
    /\ followers \in [Events -> Nat] /\ subscribed \subseteq Events
    /\ \A i \in DOMAIN slots : slots[i] \in Timer
    /\ nextId \in 0..MaxId
    /\ hostNow \in 0..MaxTick /\ customNow \in Seq(0..MaxTick)
    /\ Len(frames) <= MaxDepth /\ inCallback \in BOOLEAN /\ timersStopping \in BOOLEAN
    /\ fired \in Seq(1..MaxId)

\* A timer that is due is not passed over: while a dispatch runs, what is due at its
\* time and older than the dispatch is still before it, in a slot that it will reach,
\* whatever the callbacks added, cancelled and dispatched inside it.
NoTimerPassedOver ==
    \A f \in DOMAIN frames, i \in DOMAIN slots :
        /\ slots[i].id \in 1..frames[f].before
        /\ slots[i].clock = frames[f].clock /\ slots[i].deadline <= frames[f].now
        => i \in (frames[f].index + 1)..frames[f].count

\* The walk stays inside the vector, and a timer has one slot.
SlotsSound ==
    /\ \A f \in DOMAIN frames : ~timersStopping => frames[f].count <= Len(slots)
    /\ \A i, j \in DOMAIN slots : ~IsNull(slots[i]) /\ slots[i].id = slots[j].id => i = j

\* A timer that is called for the last time is called once: a dispatch inside its
\* callback does not find it.
LastCallIsLast ==
    /\ IsInjective(fired)
    /\ \A i \in DOMAIN slots : slots[i].id \notin ToSet(fired)

\* The module hears the events that move the clock of the host as long as a timer
\* waits on it: neither an event that nobody needs nor a timer that nothing moves.
ClockIsFollowed ==
    LET waiting == Cardinality({i \in DOMAIN slots : ~IsNull(slots[i]) /\ slots[i].clock = Host}) IN
    /\ SubscribedAreFollowed
    /\ \A e \in ToSet(ClockEvents) : followers[e] = waiting

TimersSound == TypeOK /\ NoTimerPassedOver /\ SlotsSound /\ LastCallIsLast /\ ClockIsFollowed
=============================================================================
