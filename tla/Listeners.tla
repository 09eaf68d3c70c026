----------------------------- MODULE Listeners -----------------------------
(***************************************************************************)
(* Callback_List of sdk/include/modloader/detail/callback_list.h, under an *)
(* Event of the module, which may be closed and used again, and under the  *)
(* Listener_Lists of the framework (sdk/src/listener_list.h), which follow *)
(* the host's events while they have listeners and are closed for good.    *)
(* Callbacks add, remove, call and close while calls walk over the slots.  *)
(***************************************************************************)
EXTENDS EventFollowers, FiniteSets

CONSTANTS
    Lists,
    Framework,          \* those of them that are a Listener_List
    EventsOf,           \* list -> the events that it follows
    MaxId,              \* the last listener of one List object, 2^32 - 1 in the code
    MaxCalls            \* calls inside each other

\* The module that instantiates this one assumes it of its constants.
ListenersAssumption ==
    /\ Framework \subseteq Lists
    /\ EventsOf \in [Lists -> Seq(Events)]
    /\ \A n \in {MaxId, MaxCalls} : n \in Nat

\* List objects: each list has one at most and each call holds one.
NoId == 0
Objects == 1..(Cardinality(Lists) + MaxCalls)

VARIABLES
    object,             \* list -> its List object, or NoId
    listeners,          \* List object -> slots: the id, and whether the callback is there
    lastId,             \* List object -> nextId
    following, finished,    \* lists: the flags following and closed of a Listener_List
    calls,              \* the Calls that run, the innermost last
    inListener          \* whether the innermost one is in a listener

listenerVars == <<object, listeners, lastId, following, finished, calls, inListener>>
vars == <<followVars, listenerVars>>

Init ==
    /\ FollowInit
    /\ object = [l \in Lists |-> NoId]
    /\ listeners = [o \in Objects |-> <<>>]
    /\ lastId = [o \in Objects |-> 0]
    /\ following = {} /\ finished = {}
    /\ calls = <<>> /\ inListener = FALSE

Live(slots) == SelectSeq(slots, LAMBDA slot : slot.live)
Depth(o) == Cardinality({c \in DOMAIN calls : calls[c].object = o})
Unheld(o) == o \notin Range(object) /\ Depth(o) = 0
Guest == calls = <<>> \/ inListener

-----------------------------------------------------------------------------
\* Add_Record: a list without an object gets one, null slots go when no call walks
\* over them, and the ids may be used up.  What Add does when that happens: nothing is
\* added and, if the list has no listener, it stops following.
Add(l) ==
    LET o == IF object[l] = NoId THEN CHOOSE free \in Objects : Unheld(free) ELSE object[l]
        pruned == IF Depth(o) = 0 THEN Live(listeners[o]) ELSE listeners[o]
        added == Append(pruned, [id |-> lastId[o] + 1, live |-> TRUE])
    IN
    /\ Guest /\ l \notin finished /\ lastId[o] < MaxId
    /\ IF l \in Framework \ following
       THEN Following(EventsOf[l]) /\ following' = following \union {l}
       ELSE UNCHANGED <<followVars, following>>
    /\ object' = [object EXCEPT ![l] = o]
    /\ listeners' = [listeners EXCEPT ![o] = added]
    /\ lastId' = [lastId EXCEPT ![o] = @ + 1]
    /\ UNCHANGED <<finished, calls, inListener>>

\* The list follows its events first; with no listener added it has to stop again.
StopsFollowing(l) == IF Live(listeners[object[l]]) = <<>> THEN following \ {l} ELSE following \union {l}

AddExhausted(l) ==
    LET o == object[l] IN
    /\ Guest /\ l \notin finished /\ o # NoId /\ lastId[o] = MaxId
    /\ listeners' = [listeners EXCEPT ![o] = IF Depth(o) = 0 THEN Live(@) ELSE @]
    /\ following' = IF l \in Framework THEN StopsFollowing(l) ELSE following
    /\ CASE l \in following' \ following -> Following(EventsOf[l])
         [] l \in following \ following' -> Unfollowing(EventsOf[l])
         [] OTHER -> UNCHANGED followVars
    /\ UNCHANGED <<object, lastId, finished, calls, inListener>>

AddFails(l) ==
    /\ Guest /\ l \in Framework \ (following \union finished)
    /\ FollowFails(EventsOf[l])
    /\ UNCHANGED listenerVars

\* Remove by the id, or by the subscription of an Event: the slot is emptied in place,
\* and a list with no listener left stops following.
Remove_Listener(l, index) ==
    LET o == object[l]
        emptied == [listeners[o] EXCEPT ![index].live = FALSE]
        stops == l \in following /\ Live(emptied) = <<>>
    IN
    /\ Guest /\ o # NoId /\ index \in DOMAIN listeners[o] /\ listeners[o][index].live
    /\ listeners' = [listeners EXCEPT ![o] = emptied]
    /\ following' = IF stops THEN following \ {l} ELSE following
    /\ IF stops THEN Unfollowing(EventsOf[l]) ELSE UNCHANGED followVars
    /\ UNCHANGED <<object, lastId, finished, calls, inListener>>

\* Close: the object leaves the list and its slots are emptied under the calls that
\* still walk over it, or with none it is gone; a Listener_List stays closed.
Close(l) ==
    LET o == object[l] IN
    /\ Guest /\ l \notin finished
    /\ object' = [object EXCEPT ![l] = NoId]
    /\ IF o = NoId THEN UNCHANGED <<listeners, lastId>>
       ELSE IF Depth(o) = 0
            THEN listeners' = [listeners EXCEPT ![o] = <<>>] /\ lastId' = [lastId EXCEPT ![o] = 0]
            ELSE /\ listeners' = [listeners EXCEPT ![o] =
                                     [i \in DOMAIN @ |-> [id |-> @[i].id, live |-> FALSE]]]
                 /\ UNCHANGED lastId
    /\ finished' = IF l \in Framework THEN finished \union {l} ELSE finished
    /\ following' = following \ {l}
    /\ IF l \in following THEN Unfollowing(EventsOf[l]) ELSE UNCHANGED followVars
    /\ UNCHANGED <<calls, inListener>>

-----------------------------------------------------------------------------
(* Call                                                                     *)

\* A call holds the object and walks over the slots that it has now; for the
\* properties it remembers the listeners of its start and those that it called.
Call(l) ==
    LET o == object[l] IN
    /\ Guest /\ o # NoId /\ Len(calls) < MaxCalls
    /\ calls' = Append(calls, [object |-> o, index |-> 0, count |-> Len(listeners[o]),
                               start |-> {s.id : s \in ToSet(Live(listeners[o]))}, heard |-> <<>>])
    /\ inListener' = FALSE
    /\ UNCHANGED <<followVars, object, listeners, lastId, following, finished>>

Current == Last(calls)
Walks == calls # <<>> /\ ~inListener /\ Current.index < Current.count
Slot == listeners[Current.object][Current.index + 1]

Skip ==
    /\ Walks /\ ~Slot.live
    /\ calls' = [calls EXCEPT ![Len(calls)].index = @ + 1]
    /\ UNCHANGED <<followVars, object, listeners, lastId, following, finished, inListener>>

Enter ==
    /\ Walks /\ Slot.live
    /\ calls' = [calls EXCEPT ![Len(calls)] =
                     [@ EXCEPT !.index = @ + 1, !.heard = Append(@, Slot.id)]]
    /\ inListener' = TRUE
    /\ UNCHANGED <<followVars, object, listeners, lastId, following, finished>>

ListenerReturns ==
    /\ inListener
    /\ inListener' = FALSE
    /\ UNCHANGED <<followVars, object, listeners, lastId, following, finished, calls>>

\* The last call that walks over an object prunes it.
AnyCall(o) == TRUE
LastCall(o) == Depth(o) = 1

Leave ==
    LET o == Current.object IN
    /\ calls # <<>> /\ ~inListener /\ ~Walks
    /\ listeners' = IF LastCall(o) THEN [listeners EXCEPT ![o] = Live(@)] ELSE listeners
    /\ lastId' = IF o \in Range(object) \/ Depth(o) > 1 THEN lastId ELSE [lastId EXCEPT ![o] = 0]
    /\ calls' = Front(calls)
    /\ inListener' = (Len(calls) > 1)
    /\ UNCHANGED <<followVars, object, following, finished>>

Next ==
    \/ \E l \in Lists : Add(l)
    \/ \E l \in Lists : AddExhausted(l)
    \/ \E l \in Lists : AddFails(l)
    \/ \E l \in Lists, index \in 1..MaxId : Remove_Listener(l, index)
    \/ \E l \in Lists : Close(l)
    \/ \E l \in Lists : Call(l)
    \/ Skip
    \/ Enter
    \/ ListenerReturns
    \/ Leave

Spec == Init /\ [][Next]_vars

-----------------------------------------------------------------------------
TypeOK ==
    /\ followers \in [Events -> Int] /\ subscribed \subseteq Events
    /\ object \in [Lists -> Objects \union {NoId}]
    /\ \A o \in Objects : ToSet(listeners[o]) \subseteq [id : 1..MaxId, live : BOOLEAN]
    /\ lastId \in [Objects -> 0..MaxId]
    /\ following \subseteq Framework /\ finished \subseteq Framework
    /\ Len(calls) <= MaxCalls /\ inListener \in BOOLEAN

\* A call calls the listeners of its start in their order and each at most once, none
\* that came later, and passes over none that is still there: it is before the call.
HeardInOrder ==
    \A c \in DOMAIN calls :
        LET call == calls[c]
            slots == listeners[call.object]
        IN
        /\ \A i, j \in DOMAIN call.heard : i < j => call.heard[i] < call.heard[j]
        /\ ToSet(call.heard) \subseteq call.start
        /\ call.count <= Len(slots)
        /\ \A i \in DOMAIN slots :
              slots[i].live /\ slots[i].id \in call.start \ ToSet(call.heard)
              => i \in (call.index + 1)..call.count

\* A list follows its events exactly while it has listeners, and the host delivers
\* what some list follows: nothing of a closed one.
FollowedWhileHeard ==
    /\ SubscribedAreFollowed
    /\ \A l \in Framework :
          l \in following <=> object[l] # NoId /\ Live(listeners[object[l]]) # <<>>
    /\ \A e \in Events : followers[e] = Cardinality({l \in following : e \in ToSet(EventsOf[l])})

ListenersSound == TypeOK /\ HeardInOrder /\ FollowedWhileHeard
=============================================================================
