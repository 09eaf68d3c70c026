--------------------------- MODULE EventFollowers ---------------------------
(***************************************************************************)
(* Follow_Event of sdk/src/entry.cpp: a module subscribes to an event of   *)
(* the host while something in it follows that event.                      *)
(***************************************************************************)
EXTENDS Integers, SequencesExt

CONSTANT Events

VARIABLES
    followers,          \* Event_Subscription::followers, 0 where there is no record
    subscribed          \* the events that the host delivers to the module

followVars == <<followers, subscribed>>

FollowInit ==
    /\ followers = [e \in Events |-> 0]
    /\ subscribed = {}

\* How many of the events of the sequence es are e.
Times(es, e) == Len(SelectSeq(es, LAMBDA x : x = e))

\* Each event of es followed once more: the first follower subscribes.
Following(es) ==
    /\ followers' = [e \in Events |-> followers[e] + Times(es, e)]
    /\ subscribed' = subscribed \union ToSet(es)

\* Each event of es followed once less: the last follower unsubscribes.
Ended(n) == n = 0
Unfollowing(es) ==
    LET left == [e \in Events |-> followers[e] - Times(es, e)] IN
    /\ followers' = left
    /\ subscribed' = subscribed \ {e \in ToSet(es) : Ended(left[e])}

\* There is no memory for a record of one of the events; those before it, which were
\* followed, are unfollowed again.
FollowFails(es) ==
    /\ \E e \in ToSet(es) : followers[e] = 0
    /\ UNCHANGED followVars

\* The host delivers the events that somebody follows and no other.
SubscribedAreFollowed == \A e \in Events : followers[e] >= 0 /\ (e \in subscribed <=> followers[e] > 0)
=============================================================================
