------------------------------ MODULE Packets ------------------------------
(***************************************************************************)
(* The handlers that a module keeps for packets, connections and the end   *)
(* of sockets: sdk/src/net/packets.cpp with Socket::Close of socket.cpp.   *)
(* One deque holds them all; a visit walks over the slots it began with    *)
(* while handlers register, unregister, close sockets and let other events *)
(* in, and the last visit takes out the empty slots.                       *)
(*                                                                         *)
(* Managed sockets share the connection to the lobby, whose topics the     *)
(* host delivers by name.  The server's endpoint works like the lobby's,   *)
(* and handlers of accepted connections like those of closed ones.         *)
(***************************************************************************)
EXTENDS EventFollowers, FiniteSets

CONSTANTS
    Raw, Managed,           \* the sockets of the checked instance, each opened once
    Types,                  \* packet types, which are topics for the lobby
    NetEvent, LobbyEvent,   \* the host's events
    MaxHandler,             \* the last token, 2^32 - 2 in the code
    MaxVisits               \* visits inside each other

\* The module that instantiates this one assumes it of its constants.
PacketsAssumption ==
    /\ Raw \intersect Managed = {}
    /\ {NetEvent, LobbyEvent} \subseteq Events /\ NetEvent # LobbyEvent
    /\ MaxHandler \in Nat /\ MaxVisits \in Nat

Lobby == "lobby"
Sockets == Raw \union Managed
NoType == "none"

VARIABLES
    handlers,               \* sHandlers; id 0 is an empty slot
    nextHandler, rawHandlers, stoppingNet,
    topics,                 \* the topics of the lobby that the host delivers
    open,                   \* the sockets that are not closed
    visits,                 \* the visits that run, the innermost last
    inHandler               \* whether the innermost one is in a handler

packetVars == <<handlers, nextHandler, rawHandlers, stoppingNet, topics, open, visits, inHandler>>
vars == <<followVars, packetVars>>

Init ==
    /\ FollowInit
    /\ handlers = <<>> /\ nextHandler = 0 /\ rawHandlers = 0 /\ stoppingNet = FALSE
    /\ topics = {}
    /\ open = Sockets
    /\ visits = <<>> /\ inHandler = FALSE

Guest == (visits = <<>> \/ inHandler) /\ ~stoppingNet

-----------------------------------------------------------------------------
(* The list                                                                 *)

\* Same_Transport: managed sockets share one, a raw socket is its own.
Transport(s) == IF s \in Raw THEN s ELSE Lobby

LiveOf(hs) == SelectSeq(hs, LAMBDA h : h.id # 0)

Kinds(s) == IF s \in Raw THEN {"packet", "close"} ELSE {"packet", "connection"}

\* Has_Topic
HasTopic(hs, transport, type) ==
    \E h \in ToSet(LiveOf(hs)) :
        h.kind = "packet" /\ Transport(h.socket) = transport /\ h.type = type

\* Compact, which waits for the last visit.
Compact(hs, depth) == IF depth = 0 THEN LiveOf(hs) ELSE hs

\* Remove of the handlers of the slots: the host is told when the last one goes that
\* needs an event or a topic.
Removed(slots) == [i \in DOMAIN handlers |-> IF i \in slots THEN [handlers[i] EXCEPT !.id = 0] ELSE handlers[i]]

StillWanted(hs) == {t \in topics : HasTopic(hs, Lobby, t)}

RemoveAll(slots, depth) ==
    LET hs == Removed(slots)
        raws == {i \in slots : handlers[i].socket \in Raw}
        connections == {i \in slots : handlers[i].kind = "connection"}
        left == rawHandlers - Cardinality(raws)
        nets == IF raws # {} /\ left = 0 THEN <<NetEvent>> ELSE <<>>
    IN
    /\ handlers' = Compact(hs, depth)
    /\ rawHandlers' = left
    /\ topics' = StillWanted(hs)
    /\ Unfollowing(nets \o [n \in 1..Cardinality(connections) |-> LobbyEvent])

LiveSlots == {i \in DOMAIN handlers : handlers[i].id # 0}

-----------------------------------------------------------------------------
(* What the module does                                                     *)

Add(s, kind, type) ==
    /\ Guest /\ s \in open /\ nextHandler < MaxHandler
    /\ kind \in Kinds(s) /\ (type # NoType <=> kind = "packet")
    /\ handlers' = Append(handlers, [id |-> nextHandler + 1, socket |-> s, kind |-> kind, type |-> type])
    /\ nextHandler' = nextHandler + 1
    /\ rawHandlers' = IF s \in Raw THEN rawHandlers + 1 ELSE rawHandlers
    /\ CASE s \in Raw /\ rawHandlers = 0 -> Following(<<NetEvent>>)
         [] kind = "connection" -> Following(<<LobbyEvent>>)
         [] OTHER -> UNCHANGED followVars
    /\ topics' = IF s \in Managed /\ kind = "packet" THEN topics \union {type} ELSE topics
    /\ UNCHANGED <<stoppingNet, open, visits, inHandler>>

\* Unregister, by its token or by the end of its subscription.
Unregister(i) ==
    /\ Guest /\ i \in LiveSlots
    /\ RemoveAll({i}, Len(visits))
    /\ UNCHANGED <<nextHandler, stoppingNet, open, visits, inHandler>>

\* Socket::Close with Remove_Socket.
OfSocket(s) == {i \in LiveSlots : handlers[i].socket = s}

Close(s) ==
    /\ Guest /\ s \in open
    /\ open' = open \ {s}
    /\ RemoveAll(OfSocket(s), Len(visits))
    /\ UNCHANGED <<nextHandler, stoppingNet, visits, inHandler>>

\* Net_Shutdown, from the shutdown of the module.
Net_Shutdown ==
    /\ Guest /\ visits = <<>>
    /\ stoppingNet' = TRUE
    /\ RemoveAll(LiveSlots, 0)
    /\ UNCHANGED <<nextHandler, open, visits, inHandler>>

-----------------------------------------------------------------------------
(* Visits                                                                   *)

\* An event comes, inside a handler when that one calls the host.  What the host does
\* not deliver does not come: records of raw sockets need the event, messages of the lobby
\* a topic.  Read_Envelope looks for the topic once more.
Deliverable(transport, kind, type) ==
    CASE transport = Lobby /\ kind = "packet" -> type \in topics /\ HasTopic(handlers, Lobby, type)
      [] transport = Lobby -> LobbyEvent \in subscribed
      [] OTHER -> NetEvent \in subscribed

Wanted(h, visit) ==
    h.id # 0 /\ h.kind = visit.kind /\ Transport(h.socket) = visit.transport /\ h.type = visit.type

\* Visit_Handlers: for the properties a visit remembers the tokens that it is for and
\* those that it called.
Visit(transport, kind, type) ==
    LET visit == [transport |-> transport, kind |-> kind, type |-> type,
                  known |-> OfSocket(transport) # {},
                  index |-> 0, count |-> Len(handlers), start |-> {}, heard |-> <<>>] IN
    /\ Guest /\ Len(visits) < MaxVisits
    /\ Deliverable(transport, kind, type)
    /\ transport \in Raw => transport \in open
    /\ visits' = Append(visits,
           [visit EXCEPT !.start = {h.id : h \in {g \in ToSet(handlers) : Wanted(g, visit)}}])
    /\ inHandler' = FALSE
    /\ UNCHANGED <<followVars, handlers, nextHandler, rawHandlers, stoppingNet, topics, open>>

Current == Last(visits)
Walks == visits # <<>> /\ ~inHandler /\ Current.index < Current.count
Slot == handlers[Current.index + 1]

Skip ==
    /\ Walks /\ ~Wanted(Slot, Current)
    /\ visits' = [visits EXCEPT ![Len(visits)].index = @ + 1]
    /\ UNCHANGED <<followVars, handlers, nextHandler, rawHandlers, stoppingNet, topics, open, inHandler>>

Enter ==
    /\ Walks /\ Wanted(Slot, Current)
    /\ visits' = [visits EXCEPT ![Len(visits)] =
                      [@ EXCEPT !.index = @ + 1, !.heard = Append(@, Slot.id)]]
    /\ inHandler' = TRUE
    /\ UNCHANGED <<followVars, handlers, nextHandler, rawHandlers, stoppingNet, topics, open>>

Return ==
    /\ inHandler
    /\ inHandler' = FALSE
    /\ UNCHANGED <<followVars, handlers, nextHandler, rawHandlers, stoppingNet, topics, open, visits>>

\* The depth that is left when the innermost visit ends.
DepthLeft == Len(visits) - 1

\* The visit ends; after the record of a closed socket Net_Event closes it here too, if
\* a handler told it which one that is.
Leave ==
    LET closes == Current.kind = "close" /\ Current.known /\ Current.transport \in open IN
    /\ visits # <<>> /\ ~inHandler /\ ~Walks
    /\ IF closes
       THEN open' = open \ {Current.transport} /\ RemoveAll(OfSocket(Current.transport), DepthLeft)
       ELSE /\ handlers' = Compact(handlers, DepthLeft)
            /\ UNCHANGED <<followVars, rawHandlers, topics, open>>
    /\ visits' = Front(visits)
    /\ inHandler' = (Len(visits) > 1)
    /\ UNCHANGED <<nextHandler, stoppingNet>>

Next ==
    \/ \E s \in Sockets, k \in {"packet", "close", "connection"}, t \in Types \union {NoType} : Add(s, k, t)
    \/ \E i \in 1..MaxHandler : Unregister(i)
    \/ \E s \in Sockets : Close(s)
    \/ Net_Shutdown
    \/ \E x \in Raw \union {Lobby}, t \in Types : Visit(x, "packet", t)
    \/ \E x \in Raw : Visit(x, "close", NoType)
    \/ Visit(Lobby, "connection", NoType)
    \/ Skip
    \/ Enter
    \/ Return
    \/ Leave

Spec == Init /\ [][Next]_vars

-----------------------------------------------------------------------------
TypeOK ==
    /\ followers \in [Events -> Int] /\ subscribed \subseteq Events
    /\ ToSet(handlers) \subseteq [id : 0..MaxHandler, socket : Sockets,
                                  kind : {"packet", "close", "connection"}, type : Types \union {NoType}]
    /\ nextHandler \in 0..MaxHandler /\ rawHandlers \in 0..MaxHandler
    /\ stoppingNet \in BOOLEAN /\ inHandler \in BOOLEAN
    /\ topics \subseteq Types /\ open \subseteq Sockets
    /\ Len(visits) <= MaxVisits

\* The host delivers to the module what a handler waits for and nothing else, however
\* handlers come and go: the event of sockets while a raw socket has a handler, that of the
\* lobby for its connection handlers, and each topic while a packet handler has it.
FollowedAsRegistered ==
    /\ SubscribedAreFollowed
    /\ rawHandlers = Cardinality({i \in LiveSlots : handlers[i].socket \in Raw})
    /\ NetEvent \in subscribed <=> rawHandlers > 0
    /\ followers[LobbyEvent] = Cardinality({i \in LiveSlots : handlers[i].kind = "connection"})
    /\ topics = {t \in Types : HasTopic(handlers, Lobby, t)}

\* A visit calls the handlers of its start in their order and each at most once, none that
\* came later, and passes over none that is still there.
CalledInOrder ==
    \A v \in DOMAIN visits :
        LET visit == visits[v] IN
        /\ \A i, j \in DOMAIN visit.heard : i < j => visit.heard[i] < visit.heard[j]
        /\ ToSet(visit.heard) \subseteq visit.start
        /\ visit.count <= Len(handlers)
        /\ \A i \in DOMAIN handlers :
              handlers[i].id \in visit.start \ ToSet(visit.heard)
              => i \in (visit.index + 1)..visit.count

\* A closed socket has no handler, and an empty slot is kept for a visit only.
NothingOfTheClosed ==
    /\ \A i \in DOMAIN handlers : handlers[i].id # 0 => handlers[i].socket \in open
    /\ visits = <<>> => LiveOf(handlers) = handlers

\* Every packet and connection reaches the handlers that are registered for it when it
\* comes, whatever they change meanwhile, and the host delivers what they wait for:
\* TypeOK, FollowedAsRegistered, CalledInOrder and NothingOfTheClosed.
PacketsSound == TypeOK /\ FollowedAsRegistered /\ CalledInOrder /\ NothingOfTheClosed
=============================================================================
